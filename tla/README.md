# mcpshim in TLA+

`mcpshim` puts MCP servers and HTTP services behind one local daemon, `mcpshimd`, and one
command-line client, `mcpshim`. This directory holds TLA+ models of the parts of it where
state is shared between goroutines, processes and files, and of its HTTP calls; TLC
configurations that check them on small instances; and proofs for instances of any size. Line numbers refer to
`src/internal/` unless a path says otherwise.

## The system

| Component | Source | State | Operations |
| --- | --- | --- | --- |
| Server health and retries | `mcp/mcp.go`, `mcp/state.go` | configuration, tool cache, a health record per server (status, attempt count, channel and deadline of the pending retry) | refresh of all servers or one, periodic refresh, login, registry change, backoff retries |
| Registry changes and OAuth credentials | `server/server.go:400-567`, `mcp/oauth.go`, `mcp/token_store.go`, `store/sqlite.go:271-427`, `config/config.go` | configuration file, daemon's configuration, tokens by name and endpoint, tokens by name, clients by name | add, remove, set auth, reload, login, calls with OAuth, logout |
| Elicitation | `server/session.go`, `mcp/session.go`, `client/client.go:1111-1201` | the two directions of a connection, `session.mu`, `finished` | question, answer, final response |
| Manifest file | `server/manifest.go`, `manifest/manifest.go` | the file and its temporary name | render, write, rename |
| Call history | `store/sqlite.go:99-269`, `server/server.go:219-277` | rows, `history_size`, aliases, the open database | record and prune, list, clear |
| Configuration and names | `config/*.go`, `server/server.go:400-567`, `server/server.go:180-277` | the file, the daemon's configuration, the configuration of each registry, the snapshots of requests | load, validate, upsert, remove, save; which server a request, a refresh or a retry is about |
| OAuth flow | `mcp/oauth.go`, `mcp/resource.go` | the stored token and client of a server, the callback of a login | direct attempt and fallback, renewal, login, resource indicators |
| HTTP bindings | `httpbinding/*.go`, `config/http.go` | none | validate tools and arguments, match paths, render templates, compile, execute |
| Daemon socket | `server/server.go` | configuration, registry, store, under one lock | one handler per connection |
| Client | `client/client.go` | none | command lines, inspection and call, prompts, alias scripts |

Each connection has a goroutine (`handleConn`); the daemon has a startup refresh and a
ticker, and each scheduled retry is a goroutine. They meet in the registry (a lock for the
maps, another for each health record), in the store (one lock per process), in the
manifest file (no lock) and in the server's configuration (a lock that is held during a
registry change and otherwise only to copy three pointers). `mcpshim login` runs OAuth in
the client process, on the same store and configuration file. What is hard in this
program is the order of these steps: state that is read under a lock and used after it,
outcomes recorded in several places, retries that race their cancellation, a crash
between writing the file and cleaning the store, messages without identifiers.
`PROJECT.json` lists these hazards by line, with the properties that cover each.

## Modules

| Module | Contents |
| --- | --- |
| `Registry` | health records, tool cache and retries; the properties of the retry machinery |
| `RegistryOverlap` | `Registry` with history variables for attempts that overlap and retries that nobody can find |
| `RegistryClaims` | a documented statement that the registry does not keep |
| `RegistryProofs` | proofs about `Registry` and `RegistryOverlap` |
| `Dialogue` | abstract: what the `Session` interface promises to the upstream server |
| `Elicitation` | one connection; it implements `Dialogue` |
| `ElicitationProofs` | proofs about `Elicitation`, the refinement included |
| `Manifest`, `ManifestProofs` | the manifest file and proofs about it |
| `Credentials`, `CredentialsProofs` | configuration and OAuth credentials of one name, and proofs |
| `OAuth`, `OAuthProofs` | operations and logins on one server that may ask for a login, and proofs |
| `Catalog`, `CatalogProofs` | names, configurations and registries: who reads them when, and proofs |
| `History`, `HistoryProofs` | the call history, and proofs |
| `Template` | JSON values, templates, their validation and their rendering |
| `Binding` | the tools of an HTTP service, arguments, paths, and the requests they compile to |
| `Exchange` | one HTTP exchange with its redirects and its result |
| `HTTPCall` | a call: `Binding` decides what is sent, `Exchange` what becomes of it |
| `Command` | the command line of a call, up to `HTTPCall`, and the waiting client |
| `CommandProofs` | proofs about `Template`, `Binding`, `Exchange`, `HTTPCall` and `Command` |
| `MCRegistry`, `MCRegistryOverlap`, `MCManifest`, `MCCredentials`, `MCOAuth`, `MCCatalog`, `MCHistory`, `MCHTTPCall` | symmetry sets, the values of constants that a `.cfg` cannot express, and the calls that TLC starts with |

### Registry

A goroutine is a `Worker`: a request handler, the ticker or a retry. `pc` says where it is
in `Refresh`, `RefreshPeriodic`, `refreshServer` or `scheduleBackoffRetry`; its locals are
`snap` (the configuration the sweep read), `srv`, `entry` (the endpoint it attempts) and
`obj` (the `*serverState` it holds). An action ends where the code releases a lock or
waits, so `recordFailure`, the eviction of the cache, the second `stateFor` and
`scheduleRetry` are four actions. Health records are objects with identities: a record
that a registry change drops lives on while a goroutine holds it. A record that nobody
can reach is blank again and stands for a new one; a retry's slot is free again when its
goroutine has returned. `retryCancel` of a record names the goroutine that listens to the
channel, or `Spent` when that goroutine has left its `select` and the channel is still in
the record, as the code leaves it. The outcome of an attempt is chosen freely: tools, a
failure, a failure that asks for a login.

`Stimuli` selects what happens to the daemon (refreshes, single refreshes, logins,
changes, set_auth, ticks), so that a run can give its states to its question.
A sweep takes servers in any order where the code takes them in the order of the file: the
order of names is not in the model.

### Elicitation and Dialogue

`Elicitation` has the goroutines of the questions, the handler, the client process, the
two channels as sequences, and `session.mu`. Encoding and flushing is one action: nobody
else writes meanwhile, as the mutex is held. A process that dies closes its side. Some other
program may be at the client's end, whose replies need not be answers: `Malformed` ones are
read, the operation gets an error for them and the connection goes on (`Told`). `Dialogue`
knows no connection: a question is asked, the user gives an answer, the operation gets
this answer or an error, and after the end nothing is asked.

### Manifest

Names and files are apart: `tmp` and `path` are bound to inodes, descriptors keep their
inodes through a rename, truncation is on the inode. The registry is a version number and
the manifest of a version a number of blocks, so that a short manifest written over a long
one shows. Opening, writing, renaming and the removal after a failed rename may all fail.
A restart keeps the files and drops the writers.

### Credentials

One name, one action per statement of the store or access to the file. Tokens and clients
are modelled by the endpoint that issued them. `job` is the registry change, `op` the OAuth
operations, `out` the logout. `DeleteTokens` is two statements under the store's lock, which
other processes do not share. The properties hold but for what the code keeps by name, the
client and a token from before the migration, and for these only if they are there when
something happens that the code does not cover: the file drops the name and is
reloaded, the daemon starts with another endpoint, a deletion fails, an operation works with
an endpoint that the daemon no longer has. The ghost `excused` records these events one by
one, and the comment above the properties lists them with their lines. Nothing excuses a token
that an endpoint issued and that is stored under its key: these stay through every crash,
failure and interleaving of the model. The client's excuse ends when a client is deleted while nothing runs. The write permission (`allow_registry_writes`)
only removes behaviours and is left out. So is the switch to another database, which
`History` and `Catalog` have.

### OAuth

`Credentials` asks where tokens and clients go when names change their endpoint; `OAuth` has
one name with one endpoint and asks what a stored token is good for. It is
`runWithOAuthFallback` (the direct attempt, unless there is something in the store; the
connection with OAuth; the renewal), `runOAuthLogin` and `completeOAuthFlow` (registration,
authorization, the callback or the pasted line, the exchange, saving the client) for any
number of daemon operations and login processes, which share the stored token and the
stored client. Tokens remember for which client and resource they were issued, and whether
the authorization server would still renew them (`live`). What a run of the fallback may rely
on is in the ghost `steady`: for an operation, that the stored token and client would do
when it began and that nobody has written to the store since; for a login, likewise since
it got its token. `held` is the token an operation is about to renew; a renewal by somebody
else may use it up.

External, modelled from how the code uses it: the endpoint and its metadata, the
authorization server, the browser and the user, and the OAuth handler of the MCP library.
No caller passes `interactive = true` to `runWithOAuthFallback`, so that branch has no
behaviour to model. PKCE is reduced to: a code is accepted if it belongs to this login.

### Catalog

The same configuration is in four places: the file (`file`), `s.cfg` (`cfg`), the registry's
(`rcfg`) and the snapshots that requests took under `s.mu` (`req[h].cfg`, `req[h].gen`). A registry
change goes through three stages, as statements of `applyRegistryChange` with `s.mu` held:
saved (or read), assigned, registry updated; it may fail in between, and the daemon may
stop anywhere and start again from the file. Requests resolve the name they were given in the registry
after `s.mu` was released, retries resolve theirs again when their timer has expired. A reload that
names another database makes another registry: registries are elements of `Gen`, one that
nobody refers to is `None` and stands for a new one. A chain is an attempt with the retries
that follow from it; what happens within an attempt is in `Registry`.

Names and aliases are drawn from one set, `Id`. `Valid` is `validate`, `Entries` what it goes
through; `Upsert`, `Remove`, `CanonicalServerName` and the lookups are the functions of
those names. The history row of a call is its `filed` name.

### History

A call takes `history_size`, the canonical name and the store when it arrives; `Record`
uses these. Rows are a set, as in the table; `ListHistory` is the query and the reversal.
The ids of all databases come from one counter: ids are only compared within a database.
`lost` is the id of the newest row that disappeared without having been cleared on request.

### Template, Binding, Exchange and HTTPCall

A call of an HTTP tool is sequential, but much of it is written twice: `config/http.go`
validates tools when a configuration is loaded, `httpbinding` checks and renders with the
tools afterwards, each with a recursion, a depth and a reading of defaults of its own.
`Template` and `Binding` translate both sides as operators: `TemplateOK`, `InputOK`,
`DefaultOK` and `ToolOK` for what is accepted, `Faults`, `ArgumentFaults` and `TypedFaults`
for what a call may be refused for. Go's maps have no order, so these are sets of faults,
and `OrElse` keeps the order of the checks. A value or a template is a function from
positions to nodes, and the recursions of the code, which go one level deeper with each
call, become quantifiers over positions: the depth of a call is the length of its
position. `Level` does the same for the nested `items` of an input. The two recursions
that do more than that are recursive functions: `SegmentMatches`, which is
`matchPathSegments`, and `Reading`, the loop of `parseCallArgs`. Path patterns are sequences of segments;
`PathMatches` is an independent definition of a match, by cutting the path into parts.

`Exchange` is `execute` and Go's client: each redirect, the answer, a transport error and
the timeout are actions, as the upstream server decides. A body is its size. `int64` is
modelled with its width, `MaxInt`, because the code reads up to `limit + 1` bytes. Every
action of `HTTPCall` is an action of `Exchange` together with what it does to the call:
`RefuseArguments`, `RefuseRequest` and `CompileRequest` decide which case of `Compile` it is;
so what is proved of `ExchangeSpec` holds of `HTTPCall` and `Command` too
(`CommandsAreExchanges`). Once the request is sent the
call and its path play no part and are forgotten.

`Command` puts the client in front: it parses the line (`parseCallArgs`), asks the daemon how
the tool declares its inputs, turns texts into values by these declarations
(`normalizeAs`), or by their looks if it was told nothing, and
checks that nothing required is missing; then the call arrives as `HTTPCall` has it. The
inspection may fail, which is not reported, and a registry change may come between the two
requests. A command line is a sequence of tokens; a text like `3` or `[null]` stands for all that
spell that kind of value. Texts that look like numbers have classes of their own, as
`ParseInt` and `ParseFloat` decide by the text: `1.0` stands for integral numbers that `ParseInt` does not read (`1e3`, or more
than an `int64`), ` 3` for a number with spaces, `nan` for what cannot be encoded, `TRUE` for
the spellings that `EqualFold` accepts. `StartsCall` is a call that another program writes to the socket.
`CommandSpec` has the calls, the command lines and the tools of later configurations as
parameters; the initial states of `MCHTTPCall` are those of `CommandInit` for its calls and
lines, in groups because TLC is slow with one large set.

Escaping is left out: a text stands for what it decodes to, `a/b` for any text with a
slash or a backslash, and `%2e` for a dot segment that is escaped (`pathSegmentTraverses`
decodes, `renderTypedPath` compares only). So are header values (scalars), and charsets and wildcards of content types.

## Runs

Passing runs (properties, bounds, states, time on two cores):

| Run | Properties | Bounds | States | Time |
| --- | --- | --- | --- | --- |
| `Registry_changes` | `IInv`, `NoLostRetry` | 2 servers, 1 HTTP service, 1 endpoint, 3 records, 1 handler, 1 retry; everything but ticks | 350 k | 30 s |
| `Registry_overlap` | `AgreeAfterLoneAttempt`, `OneRetryPerServer`, `ParkedUntilRequested` | 1 server, 1 endpoint, 1 record, 1 handler, ticker, 2 retries; everything | 496 k | 50 s |
| `Registry_recovery` | `Recovers` | 1 server, 2 endpoints, 1 record, 1 handler, 1 retry; everything but refreshes of all servers; fairness | 175 k | 40 s |
| `Elicitation` | `IInv`, `FinalLast`, `Correlates`, `Ends` | 3 questions, 2 answers and a malformed reply | 5 k | 4 s |
| `Manifest` | `IInv`, `LoneWriteIsWhole`, `CatchesUp` | ticker and another writer, 3 inodes, 2 versions | 246 k | 36 s |
| `Credentials` | `IInv`, `TokensStayHome`, `ClientsStayHome`, `LogoutHolds` | 2 endpoints, 1 operation, all faults | 2.3 M | 60 s |
| `OAuth` | `PerformedOnce`, `OneResource`, `LoginIsRenewable`, `NoNeedlessLogin` | 2 operations or logins, 2 clients, symmetry | 1.26 M | 100 s |
| `Catalog` | `FiledUnderItsServer`, `StatusAddsUp`, `RetryAttemptsItsOwn`, `Durable`, `Unambiguous`, `ForgetsExactly`, `OldRegistriesFade` | 2 identifiers, 2 URLs, 2 databases, 2 registries, 5 files, 1 request or 1 chain at a time; fairness | 563 k | 55 s |
| `History` | `IInv`, `ListsTheEnd`, `DropsOnlyWhenFull`, `AnsweredIsRecorded` | 2 connections, 2 servers and an alias, 2 databases, 3 recorded calls | 268 k | 50 s |
| `HTTPCall` | `OnlyArgumentsRefused`, `PatternsMeanWhatTheySay`, `PathAsConfigured`, `StaysHome`, `ResultIsHonest`, `ReachesTheTool`, `RefusedForAReason`, `Returns` | command lines and groups of calls that vary one declaration each, patterns of up to 3 segments, depth 2, 2 redirects, 3 bytes; fairness | 136 k | 35 s |

What the properties say. The comment above each property names the lines it is about; in
short:

- Retries: no failing server is left without a retry or an attempt (`NoLostRetry`); attempts
  that fail together do not multiply into retries (`OneRetryPerServer`); only a request
  un-parks a server that waits for a login (`ParkedUntilRequested`); status and cache agree
  after an attempt that ran alone (`AgreeAfterLoneAttempt`); a server that works again is
  found out in the end (`Recovers`).
- Elicitation: the final response is last (`FinalLast`), each question gets its own answer
  (`Correlates`: the connection implements `Dialogue`), and a conversation ends (`Ends`).
- Manifest: what a writer that met no other renames is whole and stays whole
  (`LoneWriteIsWhole`), and the manifest catches up with the registry (`CatchesUp`).
- Credentials: a stored token or client is that of the endpoint it is stored for
  (`TokensStayHome`, `ClientsStayHome`), and a logout holds (`LogoutHolds`).
- OAuth: no operation is performed twice, and none that ends in "log in first" at all
  (`PerformedOnce`); its requests name one resource (`OneResource`); a login leaves what can be
  renewed (`LoginIsRenewable`); nobody is sent to a login in vain (`NoNeedlessLogin`).
- Catalog: a call is filed under the server that served it (`FiledUnderItsServer`), the counts of
  a status add up (`StatusAddsUp`), a retry attempts the server it was scheduled for
  (`RetryAttemptsItsOwn`), what was answered with OK survives a crash (`Durable`), no
  identifier has two meanings (`Unambiguous`), a change deletes the credentials it has to
  and no others (`ForgetsExactly`), and a replaced registry comes to rest (`OldRegistriesFade`).
- History: what is listed is the end of what was recorded (`ListsTheEnd`), rows are dropped
  only when there are too many (`DropsOnlyWhenFull`), an answered call is recorded
  (`AnsweredIsRecorded`).
- HTTP calls: what a configuration accepts can be rendered for any arguments
  (`OnlyArgumentsRefused`); patterns match what they say and paths are built as declared
  (`PatternsMeanWhatTheySay`, `PathAsConfigured`); redirects stay in the origin
  (`StaysHome`); results say the truth (`ResultIsHonest`); the flags of a command line reach
  the tool (`ReachesTheTool`) and are refused for a reason (`RefusedForAReason`); a command
  returns (`Returns`).

Why the bounds suffice for the interesting cases. Removals and additions let records be
dropped and recreated, with goroutines on their way in each position; with two servers a
record may go from one to the other. A second endpoint, in `Registry_recovery`, lets a change
re-point a server. One handler, the ticker and one retry already race each other and a
change; two retries, in `Registry_overlap`, let one be cancelled and another live.
`AttemptCap` 2 distinguishes the first failure from later ones,
which is all that statuses do. Three questions are enough to confuse answers, two writers to
spoil a file, one operation and one change to mix up endpoints (several operations are
covered by the proof). Two operations or logins, one of each or two of a kind, renew the same
token, log in over each other and log in while another renews; two clients are one to
register and one to be replaced. `Catalog` has files that omit an alias, move an
identifier from a name to an alias, re-point a server, change the database, are ambiguous or
do not parse, in any order; its one request or chain meets all changes. Two chains, or a
request beside a chain, give more than 4.4 M states, too many for a run; what two of them do to each
other (an attempt replaces or cancels another's retry, a change overtakes several requests) is
left to the proof of the safety properties, which has any number. Three calls overflow a history of one or two. `DefaultLimit` and
`MaxLimit` are 1 and 2 instead of 50 and 500, and the limits asked for are negative, 0 and above them.
`HTTPCall` begins with 18 k calls: each type of input with each kind of value, default, enum and
bound; templates of depth 3, one level more than its `MaxTemplateDepth` of 2 (64 in the code)
allows; all patterns and paths of up to three segments, empty ones included; all policies.
Two redirects stand for the nine that Go's default policy follows (ten requests), bodies of 0 to 3 bytes lie on both sides of limits 1 and 2, and
a limit of 3 is `MaxInt`.
`CHECK_DEADLOCK FALSE` stands where a run may end: a conversation ends, and a registry of
which only chosen stimuli remain may have nothing to do.

Runs that end in a counterexample (each a disagreement of code and text):

| Run | Text | What happens |
| --- | --- | --- |
| `Claim_auth` | `README.md:342`: auth-required servers do not auto-retry | a retry pending from an earlier failure is not cancelled and fires |
| `Claim_manifest` | `server/manifest.go:50-51`: a partial manifest is never visible | writers share `path.tmp`; one renames what another has truncated |

More disagreements were met while modelling and have no run of their own:

- `README.md:377-380` and `server.go:446-449` say that re-pointing a server drops its stored
  client credentials. A login that began earlier and ends later stores its client again under
  the bare name (`oauth.go:190`). It is one of the excuses of `ClientsStayHome`.
- `mcp.go:328-329` says that "a subsequent manual refresh or remove cancels" a retry. After a
  reload that changed the database neither reaches the retries of the replaced registry.
  `OldRegistriesFade` says what is left: they end once failures do.
- The comment of `forgetRepointedOAuthState` promises `add_server`'s rule for a reload; with
  another database it acts on the next store only (`server.go:529-536`), the previous one keeps its rows.
- `oauth.go:36` skips the direct attempt for a server with OAuth state because "it will always
  401". After `set_auth` with a client id, a server that wants no token is not tried without one
  any more: its operations ask for a login.
- `client.go:1353` and `client_test.go:193`: alias suffixes keep two aliases apart, but an
  alias that itself ends in such a suffix may be emitted twice.
- `InspectTool` (`httpbinding.go:111-117`) does not tell defaults, so the client (`client.go:531-550`)
  refuses a line that lacks a required input whose default the daemon would fill in
  (`httpbinding.go:424-428`).
- `normalizeAs` (`client.go:1076-1108`): an input without a type whose `enum` has texts that look like
  numbers cannot be given from the command line; `nan` and `inf` for a number cannot be
  encoded; `1.0` and `1e3` for an integer, and a number with spaces around it, are sent as
  texts and refused, although the numbers that they spell are allowed. The lines are in the
  model, and `RefusedForAReason` names them (`Unread`) as its exception.
- `httpbinding.go:358`: with `max_response_bytes` 2^63 - 1, which `validateHTTPPolicy` accepts,
  `maxBytes+1` overflows, nothing is read, and a response of any size is reported as an empty
  success. `ResultIsHonest` holds for every other limit and says so.
- `docs/http-services.md:292-294` says that a response of a disallowed content type fails
  "while preserving the bounded response"; `execute` withholds the body (lines 375-383, with
  a comment that explains why). The model has what the code does, and `ResultIsHonest` says
  nothing about the body of such a response.
- `manifest/manifest.go:113-119` says of a healthy server without cached tools that the server
  reports none; after `set_auth` (`mcp.go:87`) the cache is empty while statuses are kept.

### Fairness

`Registry`: goroutines that can run do, timers expire, the ticker ticks; nothing is assumed
of clients, and endpoints fail as they like, except in `Recovers`, whose premise is that
failures stop. The daemon bounds its refreshes with timeouts (`server.go:99-128`,
`mcp.go:351`), so an attempt ends. `Elicitation`: the goroutines of the daemon and the reading
client proceed, as contexts and deadlines make them do; the user may never answer, and
`Ends` allows for that. `Manifest`: the ticker refreshes again and again and a writer that
has begun goes on; `CatchesUp` assumes that other writers, errors and restarts cease, since
writers that keep meeting may keep spoiling each other's file. `HTTPCall`: the handler goes on
and the timer of `http.Client` expires (`TimeoutSeconds` is positive after `effectivePolicy`); the
upstream server need not do anything, and may redirect for ever. `Returns` is stated for
the command: its client goes on, too (`CommandFairness`), and reads a response or an end of file.
`Catalog`: attempts end, as their contexts have deadlines, and timers expire; nothing is
assumed of clients and of changes, and `OldRegistriesFade` has the premise that from some time on
no attempt fails. `OAuth` has no fairness: browsers, users and authorization servers owe nothing.

## Proofs

All theorems are about arbitrary constants that satisfy the named assumptions
(`RegistryAssumption` etc.: distinct sets, a retry is no handler, `AttemptCap` is at least 2;
`CatalogAssumption`: documents and items are configurations and servers).

- `RegistryProofs`: `IInv` is inductive. `NoLostRetry` alone is not: it needs that records are
  not shared between servers (`Separate`), that what nobody reaches is blank
  (`GarbageIsBlank`), that a channel belongs to a waiting goroutine (`RetryOwned`), and where
  goroutines hold records (`Placed`). One lemma per action, with a step per conjunct. The
  type invariant, `RetryOwned` and `StatusMatchesAttempts` are theorems here and no properties
  of a run of their own: `IInv` has them as conjuncts.
- `RegistryProofs`, second part, on top of that invariant: `OneRetryPerServer` is inductive
  relative to it. `ParkedUntilRequested` needs that a step on another server leaves this one's
  record alone (`Separate`) and that only sweeps pass through the ticker's check
  (`Sweeping`). `AgreeAfterLoneAttempt` says nothing while an attempt is under way, so
  `Settled` says how far a lone attempt has brought its server: it holds the current record
  until it is recorded, then status, and cache when it evicted or stored (`Settling`),
  with something to store (`Carries`).
- `ElicitationProofs`: in `IInv`, the stages of the open question (`Staged`) tie the lock to what
  is on the wire. From it, `FinalLast` and the refinement: initial states map to initial
  states of `Dialogue`, and each action to a step of it or a stutter.
- `ManifestProofs`: a writer that is alone in `atomicWrite` finds its own file under the
  temporary name (`AloneOwnsTmp`) and nobody has the visible file open (`NobodyWritesIt`).
- `CredentialsProofs`: where tokens and clients are in the course of a change (`TokenLine`,
  `ClientLine`) and what may go on after a logout (`LogoutLine`). The run has one operation,
  the theorems any number.
- `CatalogProofs`: the invariant has a part for the daemon, for chains and for requests. That
  `validate` compares each entry with those before it makes identifiers unambiguous, and an
  unambiguous configuration has at most one entry that answers, so name, alias and history
  entry agree wherever the configurations do. These agree unless a change is on its way
  (`Staged`); what requests and chains have read before is compared with the registry
  they read it for (`RequestOK`, `ChainOK`). `ForgetsExactly` for `add_server`, which looks up the
  replaced server by name or alias, holds because an item that takes another
  server's alias for its name is refused when it is saved.
- `OAuthProofs`: one predicate per operation, `Fits`, about the operation and what is stored. A
  write by one operation takes the others' excuse (`steady`) away, so each step has to be
  looked at for the one that takes it only.
- `HistoryProofs`: `IInv` is inductive with `OpenIsPresent`, which ties a call to the database
  it began with. Pruning keeps the rows that have fewer than `n` newer ones; that these are
  `n` of them, or all, is proved by ranks: `Cardinality(Newer(R, r))` is a bijection between
  the rows of a database and `0..Cardinality(R) - 1` (`RankOrder`, `RankOnto`), and a listing
  goes through the ranks (`FirstIs`). So `DropsOnlyWhenFull`, `AnsweredIsRecorded` and
  `ListsTheEnd` hold for any sizes, limits and numbers of rows.
- `CommandProofs` has four layers and a fifth on top.
  - Exchanges: `StaysHome` and `ResultIsHonest` with the type invariant are inductive once they
    say that an answered exchange has an answer; for chains of redirects of any length, any
    limit and any size of a body.
  - Patterns: `SegmentMatches` agrees with the definition of `PathMatches` by cuts. `Cut(P, C, i, j)`
    says that the pattern from `i` on can be cut to match the path from `j` on; it satisfies the
    recursion of the code (`CutMany`, `CutOne`, `CutEnd`), so the recursive function exists
    (`Unfolds`), and by induction over what is left of both it is the only one
    (`SegmentsMatch`).
  - Refusals: `TypedReasons` goes through the checks of `compileTypedRequest` in their order.
    Templates that `TemplateOK` accepts report nothing missing and nothing too deep
    (`TemplatesRender`), since inputs that are always present have a value once the arguments
    are accepted (`PresentInEffective`); accepted defaults are accepted values
    (`DefaultsAreValues`).
  - Command lines: `Follows` is the invariant of the loop of `parseCallArgs`. It says which of the
    tokens read so far are kept, whether the separator has been passed, and where a
    selector still waits for its value. `SelectedKeeps`: taking the server and the tool off
    the rest takes no flag with it.
  - `CommandIInv` puts these together: before its request is sent a call is of a loaded tool,
    what was compiled has the path that is configured, what was refused was refused for what
    the checks report, and a call that comes from a command has the arguments that its
    line and the inspected declaration give. One lemma for the client's steps, one for the
    daemon's. From it follow the five properties of `HTTPCall` and `Command`, and that each step
    is one of `Exchange` or a stutter.

Induction. The library's induction theorems have an operator as a parameter, which the
provers at hand cannot instantiate. Both proofs that need induction take a set instead: the
naturals `n` for which the claim holds contain 0 and the successor of each member, so
they are all of `Nat` (`NatInd`, from the well-foundedness of `<`). That needs recursive
functions instead of `RECURSIVE` operators, and a lemma that the function exists (`ReadingIs`,
`Unfolds`).

`CommandAssumption` says that `None` is no string, and that "" is one, for which the provers have no
rule. `CommandIInv` has been checked by TLC on the states of `HTTPCall`, and is not among that
run's properties, as most of it only serves the proof.

Every safety property that a run checks is a theorem, for all values of the constants.
Model-checked only: the liveness properties `Recovers`, `Ends`, `CatchesUp`, `Returns` and
`OldRegistriesFade`, which need fairness and `ENABLED` and so are out of the proof system's
reach.

## Not modelled, and the plan

Modelled so far, in the order of the plan: the retry machinery, elicitation, the manifest,
credentials, the history, HTTP bindings and exchanges; then names and registries
(`Catalog`), the OAuth flow (`OAuth`), the client's side of a call (`Command`), and the proofs
about overlapping attempts, the history and the calls. What is left: the order in which a
sweep takes servers (the order of the file), should a property come to depend on it.

Left out, with the reason:

- Formatting: the manifest's text, command output, alias scripts, logs. No property is about
  them beyond which version of the registry a manifest shows.
- YAML and JSON as texts, the expansion of environment references, transports and headers:
  parsing and copying without shared state.
- `ListTools`, resources and prompts: they read the configuration as `Call` does, ask the
  upstream server and keep nothing.
- The branch of `runWithOAuthFallback` for `interactive`, which has no caller; PKCE, subprocesses
  and the MCP protocol, which are the library's.
- Listening on the socket, decoding requests, signals and the entry points.
