-------------------------------- MODULE OAuth -------------------------------
(***************************************************************************)
(* Operations on one HTTP server that may ask for a login, and the logins: *)
(* runWithOAuthFallback, runOAuthLogin and completeOAuthFlow in            *)
(* internal/mcp/oauth.go, with the resource indicators of                  *)
(* internal/mcp/resource.go.                                               *)
(*                                                                         *)
(* An operation belongs to a goroutine of the daemon, a login usually to a *)
(* process of its own; they share the stored token and the stored client.  *)
(* Credentials looks at the statements that move these between names and   *)
(* endpoints; here the name has one endpoint, and the question is what a   *)
(* stored token is good for.  A token is renewed by the client that it was *)
(* issued to, for the resource that it was issued for.                     *)
(*                                                                         *)
(* External: the endpoint, the authorization server, the browser, and the  *)
(* OAuth handler of the MCP library, which takes the stored token, renews  *)
(* it once it has expired, and asks for an authorization when it has none. *)
(* No caller passes interactive = true to runWithOAuthFallback, so that    *)
(* branch of it is left out.                                               *)
(***************************************************************************)
EXTENDS Naturals, FiniteSets

CONSTANTS
  Op,      \* operations and logins that are under way at the same time
  Client,  \* OAuth clients: registered by a login, or given with set_auth
  None     \* nothing stored, nothing known

ASSUME OAuthAssumption == None \notin Client

VARIABLES
  server,  \* how its configuration authenticates, and whether the endpoint wants a token
  token,   \* the token in the store
  client,  \* the client in the store
  op       \* the operations and logins

vars == <<server, token, client, op>>

\* "own" is an Authorization header, a headers_helper or stdio: none falls back to OAuth.
Servers == [auth : {"own", "plain"}, guarded : BOOLEAN]

-----------------------------------------------------------------------------
(* Resource indicators. *)

\* What the metadata at a URL says: nothing, that there is no resource, one that covers
\* the server, or one that does not.
Fetches == {"fails", "empty", "covers", "foreign"}
Resource == {"configured", "published"}

\* fetchPublishedResource: the metadata below the path, or else those at the root of the
\* origin; what does not cover the server is not used.
Published(path, root) ==
  LET found == IF path # "fails" THEN path ELSE root
  IN  IF found = "covers" THEN "published" ELSE "configured"

\* Fault: the metadata are read for each request.
ResolveAgain(known) == {Published(path, root) : path \in Fetches, root \in Fetches}

\* What resourceResolver.resolve may return: it keeps what it has found.
Resolve(known) ==
  IF known # None THEN {known}
  ELSE {Published(path, root) : path \in Fetches, root \in Fetches}

-----------------------------------------------------------------------------
(* Tokens and operations. *)

\* live: the authorization server would still renew it and the endpoint accept it.
Token == [access : {"good", "expired"}, client : Client \cup {None}, resource : Resource,
          live : BOOLEAN]

ASSUME NoneAssumption == None \notin Resource \cup Token

NewToken(c, r) == [access |-> "good", client |-> c, resource |-> r, live |-> TRUE]

\* Nobody can renew it any more.
UsedUp(t) == [t EXCEPT !.live = FALSE]

\* steady: what is stored will do (for an operation, since it began; for a login, since it
\* got its token), and nothing has come between.
Idle ==
  [at |-> "idle", login |-> FALSE, manual |-> FALSE, client |-> None, held |-> None,
   resolved |-> None, sent |-> {}, inbox |-> None, performed |-> 0, result |-> "none",
   steady |-> FALSE]

\* The stored token serves operations that begin now, and can be renewed when it expires.
Usable == token # None /\ token.live /\ token.client = client

\* o goes on as `now', having written to the store, and t is used up if that is a token;
\* that excuses the others.
Writes(o, now, t) ==
  op' = [p \in Op |-> IF p = o THEN now
                      ELSE [op[p] EXCEPT !.steady = FALSE,
                                         !.held = IF @ # None /\ @ = t THEN UsedUp(@) ELSE @]]

Goes(o, now) == op' = [op EXCEPT ![o] = now]

\* At the end only what has been done and said remains.
Over(now, result) ==
  LET renewable == now.login /\ result = "ok"
  IN  [Idle EXCEPT !.at = "done", !.login = now.login, !.performed = now.performed,
                   !.result = result,
                   !.sent = IF renewable THEN now.sent ELSE {},
                   !.steady = now.steady /\ (renewable \/ result = "login")]

Ends(o, result) == Goes(o, Over(op[o], result))

-----------------------------------------------------------------------------
(* An operation: runWithOAuthFallback. *)

hasOAuthState == token # None \/ client # None

\* Servers with a token or a client in the store are not probed without a token.
BeginOperation(o) ==
  /\ op[o].at = "idle"
  /\ LET direct == server.auth # "plain" \/ ~hasOAuthState
     IN  Goes(o, [Idle EXCEPT !.at = IF direct THEN "direct" ELSE "connect",
                              !.steady = Usable])
  /\ UNCHANGED <<server, token, client>>

\* The endpoint refuses the request without a token, or with the configured header.
Unauthorized(o) ==
  /\ op[o].at = "direct"
  /\ server.guarded \/ server.auth # "plain"
  /\ IF server.auth = "plain" THEN Goes(o, [op[o] EXCEPT !.at = "connect"])
                              ELSE Ends(o, "failed")
  /\ UNCHANGED <<server, token, client>>

\* Fault: whatever fails is tried again with OAuth.
FallsBackAlways(o) ==
  /\ op[o].at = "direct"
  /\ \E done \in {0, 1} :
       /\ done = 1 => ~server.guarded \/ server.auth # "plain"
       /\ Goes(o, [op[o] EXCEPT !.at = "connect", !.performed = @ + done])
  /\ UNCHANGED <<server, token, client>>

\* Any other failure, before the operation was performed or after that, with the answer
\* lost or late.
DirectFails(o) ==
  /\ op[o].at = "direct"
  /\ \E done \in {0, 1} :
       /\ done = 1 => ~server.guarded \/ server.auth # "plain"
       /\ Goes(o, Over([op[o] EXCEPT !.performed = @ + done], "failed"))
  /\ UNCHANGED <<server, token, client>>

DirectSucceeds(o) ==
  /\ op[o].at = "direct"
  /\ ~server.guarded \/ server.auth # "plain"
  /\ Goes(o, Over([op[o] EXCEPT !.performed = @ + 1], "ok"))
  /\ UNCHANGED <<server, token, client>>

\* Fault: the renewal has no client to name.
ConnectWithoutClient(o) ==
  /\ op[o].at = "connect"
  /\ Goes(o, [op[o] EXCEPT !.at = "send"])
  /\ UNCHANGED <<server, token, client>>

\* The stored client, and an OAuth client for the endpoint.
Connect(o) ==
  /\ op[o].at = "connect"
  /\ Goes(o, [op[o] EXCEPT !.at = "send", !.client = client])
  /\ UNCHANGED <<server, token, client>>

\* o when an authorization is required: that is the end of an operation, not of a login.
Required(now, excused) ==
  LET asks == [now EXCEPT !.at = "flow", !.held = None, !.steady = @ /\ ~excused]
  IN  IF now.login THEN asks ELSE Over(asks, "login")

\* The handler has no token; or an endpoint refuses one that should be good, because it
\* was revoked or the two disagree on the time.
AuthorizationRequired(o) ==
  /\ op[o].at = "send"
  /\ \/ token = None /\ Goes(o, Required(op[o], FALSE))
     \/ token # None /\ token.access = "good" /\ server.guarded /\ Goes(o, Required(op[o], token.live))
  /\ UNCHANGED <<server, token, client>>

\* The token is accepted: the session is open.
Accepted(o) ==
  /\ op[o].at = "send"
  /\ token # None /\ token.access = "good" /\ (token.live \/ ~server.guarded)
  /\ Goes(o, [op[o] EXCEPT !.at = "open"])
  /\ UNCHANGED <<server, token, client>>

\* The token has expired; the handler sets out to renew it.
TokenExpired(o) ==
  /\ op[o].at = "send"
  /\ token # None /\ token.access = "expired"
  /\ Goes(o, [op[o] EXCEPT !.at = "renew", !.held = token])
  /\ UNCHANGED <<server, token, client>>

\* The endpoint cannot be reached, or the context has ended.
ConnectionFails(o) ==
  /\ op[o].at \in {"connect", "send", "open"}
  /\ Ends(o, "failed")
  /\ UNCHANGED <<server, token, client>>

\* Renewal (RoundTrip adds the resource): the new token replaces whatever is stored, and
\* the old one may be used up with whoever else holds it.
Renew(o) ==
  /\ op[o].at = "renew"
  /\ \E r \in Resolve(op[o].resolved), rotates \in BOOLEAN :
       /\ op[o].held.live /\ op[o].held.client = op[o].client /\ op[o].held.resource = r
       /\ token' = NewToken(op[o].client, r)
       /\ Writes(o, [op[o] EXCEPT !.at = "open", !.held = None, !.resolved = r,
                                  !.sent = @ \cup {r}],
                 IF rotates THEN op[o].held ELSE None)
  /\ UNCHANGED <<server, client>>

\* The authorization server refuses: the token is used up or another client's, or the
\* resource another one.
RenewRefused(o) ==
  /\ op[o].at = "renew"
  /\ \E r \in Resolve(op[o].resolved) :
       LET other == op[o].held.resource # r
       IN  /\ ~op[o].held.live \/ op[o].held.client # op[o].client \/ other
           /\ Goes(o, Required([op[o] EXCEPT !.resolved = r, !.sent = @ \cup {r}], other))
  /\ UNCHANGED <<server, token, client>>

\* The authorization server is not found; or the request, which names the resource, does not
\* arrive; or its answer does not, and the token is used up.
RenewLost(o) ==
  /\ op[o].at = "renew"
  /\ \/ Goes(o, Required(op[o], TRUE)) /\ UNCHANGED token
     \/ \E r \in Resolve(op[o].resolved) :
          LET now == Required([op[o] EXCEPT !.resolved = r, !.sent = @ \cup {r}], TRUE)
          IN  \/ Goes(o, now) /\ UNCHANGED token
              \/ /\ Writes(o, now, op[o].held)
                 /\ token' = IF token = op[o].held THEN UsedUp(token) ELSE token
  /\ UNCHANGED <<server, client>>

\* The operation is performed; its answer may get lost.  A login has nothing to perform.
Perform(o) ==
  /\ op[o].at = "open"
  /\ ~op[o].login
  /\ \E result \in {"ok", "failed"} :
       Goes(o, Over([op[o] EXCEPT !.performed = @ + 1], result))
  /\ UNCHANGED <<server, token, client>>

LoginNotNeeded(o) ==
  /\ op[o].at = "open"
  /\ op[o].login
  /\ Ends(o, "ok")
  /\ UNCHANGED <<server, token, client>>

-----------------------------------------------------------------------------
(* A login: runOAuthLogin, completeOAuthFlow. *)

\* The callback server listens, unless the user is going to paste what it would receive;
\* stdio servers and failing helpers are refused here.
BeginLogin(o, manual) ==
  /\ op[o].at = "idle"
  /\ \/ Goes(o, [Idle EXCEPT !.at = "connect", !.login = TRUE, !.manual = manual])
     \/ server.auth = "own" /\ Goes(o, Over([Idle EXCEPT !.login = TRUE], "failed"))
  /\ UNCHANGED <<server, token, client>>

\* The clients that are known to somebody.
Known == {client} \cup {op[p].client : p \in Op} \cup (IF token = None THEN {} ELSE {token.client})

\* RegisterClient, if there is no client yet.
Register(o) ==
  /\ op[o].at = "flow"
  /\ op[o].client = None
  /\ \E c \in Client \ Known : Goes(o, [op[o] EXCEPT !.client = c])
  /\ UNCHANGED <<server, token, client>>

\* The authorization URL is built, with the resource, and the browser opened.
Authorize(o) ==
  /\ op[o].at = "flow"
  /\ op[o].client # None
  /\ \E r \in Resolve(op[o].resolved) :
       Goes(o, [op[o] EXCEPT !.at = "wait", !.resolved = r, !.sent = @ \cup {r}])
  /\ UNCHANGED <<server, token, client>>

\* Registration or the discovery of the authorization server fails.
FlowFails(o) ==
  /\ op[o].at = "flow"
  /\ Ends(o, "failed")
  /\ UNCHANGED <<server, token, client>>

\* What may be in a callback or be pasted: the code of this authorization, another code
\* with this state, or an error, nothing, or anything with another state.
Params == {"code", "other code", "useless"}

Listens(o) == op[o].login /\ ~op[o].manual /\ op[o].at \notin {"idle", "done"}

\* The first request to the callback server is kept, the rest are dropped.
Callback(o, p) ==
  /\ Listens(o)
  /\ op[o].inbox = None
  /\ op[o].at # "wait" => p = "useless"
  /\ Goes(o, [op[o] EXCEPT !.inbox = p])
  /\ UNCHANGED <<server, token, client>>

\* wait returns a callback, or readManualOAuthInput a line; a line without a state passes
\* for one with the right state, and is a code if it is no URL.
Receives(o, p) ==
  IF p \in {"code", "other code"}
    THEN Goes(o, [op[o] EXCEPT !.at = "exchange", !.inbox = p])
    ELSE Ends(o, "failed")

ReadCallback(o) ==
  /\ op[o].at = "wait"
  /\ op[o].inbox # None
  /\ Receives(o, op[o].inbox)
  /\ UNCHANGED <<server, token, client>>

ReadManual(o, p) ==
  /\ op[o].at = "wait"
  /\ op[o].manual
  /\ Receives(o, p)
  /\ UNCHANGED <<server, token, client>>

\* Five minutes are over, or standard input ends.
WaitFails(o) ==
  /\ op[o].at = "wait"
  /\ Ends(o, "failed")
  /\ UNCHANGED <<server, token, client>>

\* ProcessAuthorizationResponse: the code for a token, which is saved.  The authorization
\* server refuses a code whose verifier is not this login's.
Exchange(o) ==
  /\ op[o].at = "exchange"
  /\ op[o].inbox = "code"
  /\ \E r \in Resolve(op[o].resolved) :
       /\ token' = NewToken(op[o].client, r)
       /\ Writes(o, [op[o] EXCEPT !.at = "persist", !.sent = @ \cup {r}, !.steady = TRUE], None)
  /\ UNCHANGED <<server, client>>

ExchangeFails(o) ==
  /\ op[o].at = "exchange"
  /\ \E r \in Resolve(op[o].resolved) :
       Goes(o, Over([op[o] EXCEPT !.sent = @ \cup {r}], "failed"))
  /\ UNCHANGED <<server, token, client>>

\* Fault: nothing is saved.
PersistNothing(o) ==
  /\ op[o].at = "persist"
  /\ UNCHANGED client
  /\ Writes(o, Over(op[o], "ok"), None)
  /\ UNCHANGED <<server, token>>

\* The client is saved for renewals.
Persist(o) ==
  /\ op[o].at = "persist"
  /\ client' = op[o].client
  /\ Writes(o, Over(op[o], "ok"), None)
  /\ UNCHANGED <<server, token>>

\* That it could not be saved is not reported.
PersistFails(o) ==
  /\ op[o].at = "persist"
  /\ Goes(o, Over([op[o] EXCEPT !.steady = FALSE], "ok"))
  /\ UNCHANGED <<server, token, client>>

-----------------------------------------------------------------------------
(* The rest of the world. *)

\* The operation's process dies, at any point.
Dies(o) ==
  /\ op[o].at \notin {"idle", "done"}
  /\ Goes(o, Idle)
  /\ UNCHANGED <<server, token, client>>

\* The store, or what t is worth, changes under everybody.
Disturb(t) ==
  op' = [p \in Op |-> [op[p] EXCEPT !.steady = FALSE,
                                    !.held = IF @ # None /\ @ = t THEN UsedUp(@) ELSE @]]

Expires ==
  /\ token # None
  /\ token' = [token EXCEPT !.access = "expired"]
  /\ UNCHANGED <<server, client, op>>

Revoked ==
  /\ token # None
  /\ token' = UsedUp(token)
  /\ Disturb(token)
  /\ UNCHANGED <<server, client>>

\* set_auth with a client: it replaces the client and keeps the token.
SetAuth(c) ==
  /\ client' = c
  /\ Disturb(None)
  /\ UNCHANGED <<server, token>>

\* logout, and logout --full.
Logout ==
  /\ token' = None
  /\ client' \in {client, None}
  /\ Disturb(None)
  /\ UNCHANGED server

-----------------------------------------------------------------------------

Init ==
  /\ server \in Servers
  /\ token = None
  /\ client = None
  /\ op = [o \in Op |-> Idle]

\* What one operation or login does once it has begun, up to its end.
Fallback(o) ==
  \/ Unauthorized(o) \/ DirectFails(o) \/ DirectSucceeds(o)
  \/ Connect(o) \/ AuthorizationRequired(o) \/ Accepted(o) \/ TokenExpired(o)
  \/ ConnectionFails(o)
  \/ Renew(o) \/ RenewRefused(o) \/ RenewLost(o)
  \/ Perform(o) \/ LoginNotNeeded(o)

Flow(o) ==
  \/ Register(o) \/ Authorize(o) \/ FlowFails(o)
  \/ \E p \in Params : Callback(o, p) \/ ReadManual(o, p)
  \/ ReadCallback(o) \/ WaitFails(o)
  \/ Exchange(o) \/ ExchangeFails(o)
  \/ Persist(o) \/ PersistFails(o)

Return(o) ==
  /\ op[o].at = "done"
  /\ Goes(o, Idle)
  /\ UNCHANGED <<server, token, client>>

World ==
  \/ Expires \/ Revoked \/ Logout
  \/ \E c \in Client : SetAuth(c)

Next ==
  \/ World
  \/ \E o \in Op :
       \/ BeginOperation(o)
       \/ \E manual \in BOOLEAN : BeginLogin(o, manual)
       \/ Fallback(o) \/ Flow(o) \/ Return(o) \/ Dies(o)

Spec == Init /\ [][Next]_vars

-----------------------------------------------------------------------------
(* Properties. *)

\* oauth.go:226-234: only a refusal to authorize sends an operation down the second path,
\* so a tool is never called twice, not even when its answer got lost; and a user who is
\* told to log in and try again has not called it yet.
PerformedOnce ==
  \A o \in Op :
    /\ op[o].performed <= 1
    /\ op[o].result = "ok" => op[o].performed = IF op[o].login THEN 0 ELSE 1
    /\ op[o].result = "login" => op[o].performed = 0

\* resource.go:19-24: the renewal, the authorization and the exchange of one operation
\* name the same resource, whatever becomes of the metadata meanwhile, and that is one
\* the server may claim.
OneResource ==
  \A o \in Op : op[o].sent \subseteq Resource /\ Cardinality(op[o].sent) <= 1

\* oauth.go:185-193: a login that got a token, and saved its client before anybody else used
\* the store, leaves a token that can be renewed: by the client in the store, for the
\* resource that the user was asked about.
LoginIsRenewable ==
  \A o \in Op :
    op[o].login /\ op[o].result = "ok" /\ op[o].steady
    => /\ token # None /\ token.live
       /\ token.client = client
       /\ op[o].sent = {token.resource}

\* oauth.go:69-98: an operation that has the store for itself does not ask for a login if
\* what is stored will do: the token, or the client that can renew it.  It may when the
\* renewal got lost, or when the resource is another one than at the login.
NoNeedlessLogin == \A o \in Op : op[o].result = "login" => ~op[o].steady

-----------------------------------------------------------------------------
(* The inductive invariant.  r is an operation or a login, t and c are what is stored. *)

OpType ==
  [at : {"idle", "direct", "connect", "send", "renew", "open", "flow", "wait", "exchange",
         "persist", "done"},
   login : BOOLEAN, manual : BOOLEAN, client : Client \cup {None}, held : Token \cup {None},
   resolved : Resource \cup {None}, sent : SUBSET Resource, inbox : Params \cup {None},
   performed : {0, 1}, result : {"none", "ok", "login", "failed"}, steady : BOOLEAN]

\* Only a login goes on without a token, and nothing is performed before the end.
Paths(r) ==
  /\ r.at = "direct" => ~r.login
  /\ r.at \in {"flow", "wait", "exchange", "persist"} => r.login
  /\ r.at # "done" => r.result = "none" /\ r.performed = 0
  /\ r.result = "ok" => r.performed = IF r.login THEN 0 ELSE 1
  /\ r.result = "login" => r.performed = 0 /\ ~r.login

\* What has been named is what the resolver has found.
Names(r) ==
  /\ r.at # "done" => r.sent \subseteq {r.resolved} \ {None}
  /\ r.at \in {"wait", "exchange", "persist"} => r.resolved # None
  /\ \E x \in Resource : r.sent \subseteq {x}

\* A steady operation has what it takes.
Operates(r, t, c) ==
  /\ r.at = "renew" => r.held # None
  /\ ~r.login /\ r.steady /\ r.at \notin {"idle", "done"}
       => /\ t # None /\ t.live /\ t.client = c
          /\ r.at \in {"send", "renew", "open"} => r.client = c
          /\ r.at = "renew" => r.held.live /\ r.held.client = r.client
  /\ r.result = "login" => ~r.steady

\* A steady login has got its token, and has saved its client when it is done.
LogsIn(r, t, c) ==
  r.login /\ r.steady
    => /\ r.at = "persist" \/ (r.at = "done" /\ r.result = "ok")
       /\ t # None /\ t.live /\ r.sent = {t.resource}
       /\ t.client = IF r.at = "persist" THEN r.client ELSE c

Fits(r, t, c) == r \in OpType /\ Paths(r) /\ Names(r) /\ Operates(r, t, c) /\ LogsIn(r, t, c)

IInv ==
  /\ server \in Servers
  /\ token \in Token \cup {None}
  /\ client \in Client \cup {None}
  /\ op \in [Op -> OpType]
  /\ \A o \in Op : Fits(op[o], token, client)

=============================================================================
