---------------------------- MODULE Credentials ----------------------------
(***************************************************************************)
(* The configuration of one server name and the OAuth credentials stored   *)
(* for it: applyRegistryChange, forgetRepointedOAuthState and logout in    *)
(* internal/server/server.go, the operations of internal/mcp/oauth.go and  *)
(* token_store.go, the statements of internal/store/sqlite.go that they    *)
(* execute, and config.Load and Save.                                      *)
(*                                                                         *)
(* The configuration is in the file and in the daemon's memory; the store  *)
(* keeps a token per name and endpoint (bound), a token per name from      *)
(* before tokens were bound to endpoints (legacy), and client credentials  *)
(* per name.  A token or a client is modelled by the endpoint that issued  *)
(* it.  A registry change holds the server's lock from beginning to end,   *)
(* yet it is not atomic: operations that are under way do not take that    *)
(* lock, `mcpshim login' works in a process of its own on the same file    *)
(* and the same store, and the daemon may die between two steps.           *)
(***************************************************************************)
EXTENDS Naturals

CONSTANTS
  Endpoint,  \* URLs that the name may resolve to
  Op,        \* OAuth operations
  None,      \* not configured, not stored
  Faults     \* what may happen, out of AllFaults

AllFaults == {"crash", "edit", "store"}

ASSUME CredentialsAssumption ==
  /\ None \notin Endpoint
  /\ Faults \subseteq AllFaults

VARIABLES
  file,      \* the endpoint in the configuration file
  mem,       \* the endpoint in the daemon's configuration
  up,        \* the daemon runs
  bound, legacy, client,  \* oauth_tokens by endpoint and by name, oauth_clients
  job,       \* the registry change: where it is, the endpoint it finds and the one it
             \* brings, and whether it brings a client of its own
  op,        \* each operation: where it is, its endpoint, the client it has loaded,
             \* whether it is a login, and whether in a client process
  out,       \* the logout: where it is, its endpoint
  excused,   \* which kind of what is kept by name may be another endpoint's, see below
  signedOut  \* nothing that could bring a token has happened since the logout

config == <<file, mem, up>>
store == <<bound, legacy, client>>
ghosts == <<excused, signedOut>>
vars == <<config, store, job, op, out, ghosts>>

Maybe == Endpoint \cup {None}

NoJob == [at |-> "idle", from |-> None, to |-> None, own |-> FALSE]
NoOp == [at |-> "idle", url |-> None, cred |-> None, login |-> FALSE, outside |-> FALSE]
NoLogout == [at |-> "idle", url |-> None]

JobStep == {"save", "legacy", "bound", "client", "own", "commit"}
OpStep == {"adopt", "load", "use", "keep", "flow", "persist"}

TypeOK ==
  /\ file \in Maybe /\ mem \in Maybe /\ up \in BOOLEAN
  /\ bound \in [Endpoint -> Maybe] /\ legacy \in Maybe /\ client \in Maybe
  /\ job \in [at : JobStep, from : Maybe, to : Maybe, own : BOOLEAN] \cup {NoJob}
  /\ op \in [Op -> [at : OpStep, url : Endpoint, cred : Maybe,
                     login : BOOLEAN, outside : BOOLEAN] \cup {NoOp}]
  /\ out \in [at : {"bound", "legacy", "client"}, url : Endpoint] \cup {NoLogout}
  /\ excused \in SUBSET {"token", "client"} /\ signedOut \in BOOLEAN

\* A store in use: what it holds was issued by the configured endpoint.
Init ==
  /\ mem \in Maybe /\ file = mem /\ up = TRUE
  /\ legacy \in {None, mem} /\ client \in {None, mem}
  /\ bound \in {[e \in Endpoint |-> IF e \in S THEN e ELSE None] : S \in SUBSET Endpoint}
  /\ job = NoJob /\ op = [o \in Op |-> NoOp] /\ out = NoLogout
  /\ excused = {} /\ signedOut = FALSE

Runners == {o \in Op : op[o].at # "idle"}

\* DeleteTokens holds the store's lock over its two statements.  Other processes
\* have locks of their own.
StoreHeld == job.at = "bound" \/ out.at = "legacy"
Statement(o) == op[o].outside \/ ~StoreHeld

\* The operation works for another endpoint than the configured one.
Overtaken(o) == op[o].url # mem \/ (job.at # "idle" /\ op[o].url # job.to)

\* What the store keeps by name only.
ByName == {x \in {"token", "client"} : IF x = "token" THEN legacy # None ELSE client # None}

-----------------------------------------------------------------------------
(* Registry changes. *)

\* The change takes the server's lock and finds the present configuration.
ChangeBegins(at, e, brings) ==
  /\ up /\ job.at = "idle"
  /\ job' = [at |-> at, from |-> mem, to |-> e, own |-> brings]
  /\ signedOut' = FALSE
  /\ UNCHANGED <<config, store, op, out>>

AddServer(e, brings) == ChangeBegins("save", e, brings) /\ UNCHANGED excused
RemoveServer == mem # None /\ ChangeBegins("save", None, FALSE) /\ UNCHANGED excused
SetAuth(brings) == mem # None /\ ChangeBegins("save", mem, brings) /\ UNCHANGED excused

\* forgetRepointedOAuthState passes over a name that the file has dropped.
Repointed(e) == mem # None /\ e # None /\ mem # e

Reload ==
  /\ ChangeBegins(IF Repointed(file) THEN "legacy" ELSE "commit", file, FALSE)
  /\ excused' = excused \cup (IF file = None /\ mem # None THEN ByName ELSE {})

\* Fault: dropped for a name that was not there.
ForgetsAlways == job.from # job.to

\* A removal and a re-point drop the credentials of the previous endpoint.
Forgets == job.from # None /\ job.from # job.to

AfterSave == IF Forgets THEN "legacy" ELSE IF job.own THEN "own" ELSE "commit"

\* config.Save replaces the file by a rename, or reports an error.
Save ==
  /\ job.at = "save"
  /\ \/ file' = job.to /\ job' = [job EXCEPT !.at = AfterSave]
     \/ UNCHANGED file /\ job' = NoJob
  /\ UNCHANGED <<mem, up, store, op, out, ghosts>>

\* A store statement of a change may fail; what it should have deleted stays.
StoreFails(left) ==
  /\ "store" \in Faults
  /\ excused' = excused \cup (ByName \cap left)
  /\ UNCHANGED store

\* Without a client, and without operations that have loaded one, all clients are right again.
ClientDeleted ==
  /\ client' = None
  /\ excused' = IF Runners = {} THEN excused \ {"client"} ELSE excused

\* DeleteTokens, its first key: the name.  If it fails the second is not tried.
ForgetLegacy ==
  /\ job.at = "legacy" /\ out.at # "legacy"
  /\ \/ /\ legacy' = None
        /\ job' = [job EXCEPT !.at = "bound"]
        /\ UNCHANGED <<bound, client, excused>>
     \/ StoreFails({"token"}) /\ job' = [job EXCEPT !.at = "client"]
  /\ UNCHANGED <<config, op, out, signedOut>>

\* Its second key: TokenStoreKey(previous).
ForgetBound ==
  /\ job.at = "bound"
  /\ \/ bound' = [bound EXCEPT ![job.from] = None] /\ UNCHANGED <<legacy, client, excused>>
     \/ StoreFails({})
  /\ job' = [job EXCEPT !.at = "client"]
  /\ UNCHANGED <<config, op, out, signedOut>>

AfterForget == IF job.own THEN "own" ELSE "commit"

\* Fault: only tokens are dropped.
ForgetNoClient ==
  /\ job.at = "client"
  /\ job' = [job EXCEPT !.at = AfterForget]
  /\ UNCHANGED <<config, store, op, out, ghosts>>

\* DeleteOAuthClient(previous.Name).
ForgetClient ==
  /\ job.at = "client" /\ ~StoreHeld
  /\ \/ ClientDeleted /\ UNCHANGED <<bound, legacy>>
     \/ StoreFails({"client"})
  /\ job' = [job EXCEPT !.at = AfterForget]
  /\ UNCHANGED <<config, op, out, signedOut>>

\* SaveOAuthClient of the client in the request; if it fails the change is given up,
\* although the file has it.
SaveOwnClient ==
  /\ job.at = "own" /\ ~StoreHeld
  /\ \/ /\ client' = job.to
        /\ job' = [job EXCEPT !.at = "commit"]
        /\ UNCHANGED <<bound, legacy, excused>>
     \/ StoreFails({}) /\ job' = NoJob
  /\ UNCHANGED <<config, op, out, signedOut>>

\* s.cfg and the registry take the new configuration.
Commit ==
  /\ job.at = "commit"
  /\ mem' = job.to
  /\ job' = NoJob
  /\ UNCHANGED <<file, up, store, op, out, ghosts>>

-----------------------------------------------------------------------------
(* OAuth operations: runWithOAuthFallback and runOAuthLogin. *)

\* The operation reads its configuration: the daemon's, or, if it is a login of a
\* client process, the file's.
Begin(o, asLogin, outside) ==
  /\ op[o].at = "idle"
  /\ IF outside THEN asLogin ELSE up
  /\ LET e == IF outside THEN file ELSE mem
     IN  /\ e # None
         /\ op' = [op EXCEPT ![o] = [at |-> "adopt", url |-> e, cred |-> None,
                                     login |-> asLogin, outside |-> outside]]
         /\ excused' = excused \cup (IF e # mem THEN ByName \cap {"token"} ELSE {})
  /\ signedOut' = (signedOut /\ ~asLogin /\ out.at = "idle")
  /\ UNCHANGED <<config, store, job, out>>

\* AdoptToken: a legacy token moves to the endpoint's key if that has none.
Adopt(o) ==
  /\ op[o].at = "adopt" /\ Statement(o)
  /\ IF legacy # None /\ bound[op[o].url] = None
       THEN bound' = [bound EXCEPT ![op[o].url] = legacy] /\ legacy' = None
       ELSE UNCHANGED <<bound, legacy>>
  /\ op' = [op EXCEPT ![o].at = "load"]
  /\ UNCHANGED <<config, client, job, out, ghosts>>

\* GetOAuthClient, by name.
Load(o) ==
  /\ op[o].at = "load" /\ Statement(o)
  /\ op' = [op EXCEPT ![o].at = "use", ![o].cred = client]
  /\ excused' = excused \cup (IF Overtaken(o) THEN ByName \cap {"client"} ELSE {})
  /\ UNCHANGED <<config, store, job, out, signedOut>>

\* The endpoint serves the request, or renews the token, or asks for an authorization,
\* which a login goes through with the user.
Use(o) ==
  /\ op[o].at = "use"
  /\ \/ op' = [op EXCEPT ![o] = NoOp]
     \/ bound[op[o].url] # None /\ op' = [op EXCEPT ![o].at = "keep"]
     \/ op[o].login /\ op' = [op EXCEPT ![o].at = "flow"]
  /\ UNCHANGED <<config, store, job, out, ghosts>>

\* Fault: the key is computed from the configuration of this moment.
KeepCurrent(o) ==
  /\ op[o].at = "keep" /\ Statement(o)
  /\ bound' = IF mem = None THEN bound ELSE [bound EXCEPT ![mem] = op[o].url]
  /\ op' = [op EXCEPT ![o] = NoOp]
  /\ UNCHANGED <<config, legacy, client, job, out, ghosts>>

\* SaveToken, under the key of the operation's own endpoint.
Keep(o) ==
  /\ op[o].at = "keep" /\ Statement(o)
  /\ bound' = [bound EXCEPT ![op[o].url] = op[o].url]
  /\ op' = [op EXCEPT ![o] = NoOp]
  /\ UNCHANGED <<config, legacy, client, job, out, ghosts>>

\* completeOAuthFlow: a client is registered unless one was loaded, the user authorizes,
\* the code is exchanged and the token saved.  Or it fails.
Flow(o) ==
  /\ op[o].at = "flow" /\ Statement(o)
  /\ \/ /\ op' = [op EXCEPT ![o].at = "persist",
                            ![o].cred = IF @ = None THEN op[o].url ELSE @]
        /\ bound' = [bound EXCEPT ![op[o].url] = op[o].url]
     \/ op' = [op EXCEPT ![o] = NoOp] /\ UNCHANGED bound
  /\ UNCHANGED <<config, legacy, client, job, out, ghosts>>

\* SaveOAuthClient, by name.
Persist(o) ==
  /\ op[o].at = "persist" /\ Statement(o)
  /\ client' = op[o].cred
  /\ op' = [op EXCEPT ![o] = NoOp]
  /\ excused' = IF Overtaken(o) THEN excused \cup {"client"} ELSE excused
  /\ UNCHANGED <<config, bound, legacy, job, out, signedOut>>

-----------------------------------------------------------------------------
(* Logout, edits, crashes. *)

LogoutBegins ==
  /\ up /\ job.at = "idle" /\ out.at = "idle" /\ mem # None
  /\ out' = [at |-> "bound", url |-> mem]
  /\ signedOut' = (Runners = {})
  /\ UNCHANGED <<config, store, job, op, excused>>

LogoutFails ==
  /\ "store" \in Faults
  /\ out' = NoLogout
  /\ signedOut' = FALSE
  /\ UNCHANGED <<store, excused>>

\* DeleteTokens, its first key: TokenStoreKey.
LogoutBound ==
  /\ out.at = "bound" /\ ~StoreHeld
  /\ \/ /\ bound' = [bound EXCEPT ![out.url] = None]
        /\ out' = [out EXCEPT !.at = "legacy"]
        /\ UNCHANGED <<legacy, client, ghosts>>
     \/ LogoutFails
  /\ UNCHANGED <<config, job, op>>

\* With --full the client is deleted too.
AfterLogout == {NoLogout, [out EXCEPT !.at = "client"]}

\* Fault: the token from before the migration survives.
LogoutNoLegacy ==
  /\ out.at = "legacy"
  /\ out' \in AfterLogout
  /\ UNCHANGED <<config, store, job, op, ghosts>>

\* Its second key: the name.
LogoutLegacy ==
  /\ out.at = "legacy"
  /\ \/ legacy' = None /\ out' \in AfterLogout /\ UNCHANGED <<bound, client, ghosts>>
     \/ LogoutFails
  /\ UNCHANGED <<config, job, op>>

\* DeleteOAuthClient.
LogoutClient ==
  /\ out.at = "client" /\ ~StoreHeld
  /\ \/ ClientDeleted /\ out' = NoLogout /\ UNCHANGED <<bound, legacy, signedOut>>
     \/ LogoutFails
  /\ UNCHANGED <<config, job, op>>

\* The user edits the configuration file.
EditFile(e) ==
  /\ "edit" \in Faults
  /\ file' = e
  /\ UNCHANGED <<mem, up, store, job, op, out, ghosts>>

Crash ==
  /\ "crash" \in Faults
  /\ up
  /\ up' = FALSE
  /\ job' = NoJob /\ out' = NoLogout
  /\ op' = [o \in Op |-> IF op[o].outside THEN op[o] ELSE NoOp]
  /\ excused' = excused \cup
                 (IF job.at = "commit" /\ job.to # mem THEN ByName \cap {"client"} ELSE {})
  /\ signedOut' = (signedOut /\ out.at = "idle")
  /\ UNCHANGED <<file, mem, store>>

\* The daemon reads the file and compares it with nothing.
Start ==
  /\ ~up
  /\ up' = TRUE
  /\ mem' = file
  /\ excused' = excused \cup (IF mem # file THEN ByName ELSE {})
  /\ signedOut' = (signedOut /\ mem = file)
  /\ UNCHANGED <<file, store, job, op, out>>

ChangeStep ==
  Save \/ ForgetLegacy \/ ForgetBound \/ ForgetClient \/ SaveOwnClient \/ Commit

OperationStep(o) ==
  \/ \E asLogin, outside \in BOOLEAN : Begin(o, asLogin, outside)
  \/ Adopt(o) \/ Load(o) \/ Use(o) \/ Keep(o) \/ Flow(o) \/ Persist(o)

Next ==
  \/ \E brings \in BOOLEAN : SetAuth(brings) \/ \E e \in Endpoint : AddServer(e, brings)
  \/ RemoveServer
  \/ Reload
  \/ ChangeStep
  \/ \E o \in Op : OperationStep(o)
  \/ LogoutBegins \/ LogoutBound \/ LogoutLegacy \/ LogoutClient
  \/ \E e \in Maybe : EditFile(e)
  \/ Crash
  \/ Start

Spec == Init /\ [][Next]_vars

-----------------------------------------------------------------------------
(* Properties. *)

\* A change that drops credentials has an endpoint to drop them for, and the two
\* holders of the store's lock exclude each other.
Formed ==
  /\ ~up => job.at = "idle" /\ out.at = "idle"
  /\ job.at # "idle" => job.from = mem
  /\ job.at \in {"legacy", "bound", "client"} => job.from \in Endpoint \ {job.to}
  /\ ~(job.at = "bound" /\ out.at = "legacy")

(* `excused' names what the code does not keep with its endpoint: the token from     *)
(* before the migration and the client, which are kept by name, and either only if   *)
(* it is there when the thing happens that excuses it.  For both: the file drops the *)
(* name and is reloaded (server.go:547-548), the daemon starts with another endpoint *)
(* than it stopped with (server.go:549-550), or the statement fails that should have *)
(* deleted it.  For the token: a client process logs in at another endpoint than the *)
(* daemon's.  For the client: an operation that a change has overtaken loads it or   *)
(* saves one, or the daemon dies between saving the client of a new endpoint and     *)
(* taking the endpoint; this ends when a client is deleted while nothing runs.       *)
(* Nothing excuses a token that was issued for an endpoint and is under its key.     *)

\* token_store.go:16-18, README.md:376-377: what is stored under an endpoint's key was
\* issued by that endpoint, and what is stored under the name by the configured one,
\* although operations keep the endpoint they began with while changes, logouts and the
\* migration of old tokens go on around them.
TokensStayHome ==
  "token" \notin excused =>
    /\ \A e \in Endpoint : bound[e] \in {None, e}
    /\ up /\ job.at = "idle" => legacy \in {None, mem}

\* README.md:377-380: an operation works with a client of its own endpoint, and the
\* stored client is that of the configured endpoint.
ClientsStayHome ==
  "client" \notin excused =>
    /\ \A o \in Op : op[o].cred \in {None, op[o].url}
    /\ up /\ job.at = "idle" => client \in {None, mem}

\* server.go:353-354: after a logout that no operation overlapped, none but a login
\* brings a token back, by renewal or by adopting one from before the migration.
LogoutHolds ==
  signedOut /\ out.at = "idle" /\ mem # None => bound[mem] = None /\ legacy = None

\* Where the tokens are in the course of a change.
TokenLine ==
  "token" \notin excused =>
    /\ \A e \in Endpoint : bound[e] \in {None, e}
    /\ legacy \in {None, mem}
    /\ job.at \in {"bound", "client"} => legacy = None
    /\ job.at \in {"own", "commit"} => legacy \in {None, job.to}
    /\ \A o \in Op : op[o].at = "adopt" => legacy \in {None, op[o].url}

\* Where the client is.
ClientLine ==
  "client" \notin excused =>
    /\ \A o \in Op : op[o].cred \in {None, op[o].url}
    /\ job.at # "commit" => client \in {None, mem}
    /\ job.at \in {"own", "commit"} => client \in {None, job.to}

\* What may go on during a logout and after it.
LogoutLine ==
  signedOut =>
    /\ job.at = "idle"
    /\ out.at # "idle" => Runners = {} /\ out.url = mem
    /\ \A o \in Runners :
         op[o].url = mem /\ ~op[o].login /\ op[o].at \in {"adopt", "load", "use"}
    /\ mem # None /\ out.at # "bound" => bound[mem] = None
    /\ mem # None /\ out.at \in {"idle", "client"} => legacy = None

\* The inductive invariant: also, applyRegistryChange drops credentials only for an
\* endpoint that goes away (server.go:440-462, 555-566).
IInv == TypeOK /\ Formed /\ TokenLine /\ ClientLine /\ LogoutLine

=============================================================================
