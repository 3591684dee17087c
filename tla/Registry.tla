------------------------------ MODULE Registry ------------------------------
(***************************************************************************)
(* The MCP registry of the daemon: internal/mcp/mcp.go and state.go.       *)
(*                                                                         *)
(* A registry keeps the configuration it was last given, a cache of the    *)
(* tools of each server and, behind a pointer per server name, the health  *)
(* record of that server (type serverState).  Goroutines attempt servers   *)
(* concurrently: request handlers (refresh, login, a registry change), the *)
(* ticker, and the retries that failed attempts leave behind.  All of them *)
(* run refreshServer, which takes and releases the registry's lock and the *)
(* record's lock several times.  One action below is one critical section; *)
(* between two of them any other goroutine may run.                        *)
(*                                                                         *)
(* Pointers matter.  A goroutine keeps the *serverState it got before its  *)
(* fetch, and UpdateConfig may meanwhile drop that record or put another   *)
(* one under the same name, so records are elements of State and `states'  *)
(* is the registry's map.  A record that nothing points to any more is     *)
(* garbage: it is blank, as newServerState makes it, and may be allocated  *)
(* again.  Delays are not measured: a retry timer expires at some time     *)
(* after it was set.                                                       *)
(***************************************************************************)
EXTENDS Naturals

CONSTANTS
  Server,      \* names of MCP servers
  Service,     \* names of HTTP services
  Endpoint,    \* endpoints that a name may be configured with
  State,       \* *serverState pointers
  Proc,        \* goroutines of request handlers, and of the startup refresh
  Ticker,      \* the goroutine of the daemon's ticker
  Retrier,     \* goroutines started by scheduleBackoffRetry
  None,        \* the zero value: no entry, nil pointer, nil channel
  Spent,       \* a channel whose goroutine has left its select
  AttemptCap,  \* attemptCount is counted up to this value
  Stimuli      \* what happens to the daemon, out of AllStimuli

Name == Server \cup Service
Worker == Proc \cup {Ticker} \cup Retrier
Counts == 0..AttemptCap
AllStimuli == {"refresh", "server", "login", "change", "auth", "tick"}

ASSUME RegistryAssumption ==
  /\ Server \cap Service = {}
  /\ Proc \cap Retrier = {}
  /\ Ticker \notin Proc \cup Retrier
  /\ None \notin Server \cup Endpoint \cup State \cup Retrier
  /\ Spent \notin Retrier \cup {None}
  /\ AttemptCap \in Nat /\ AttemptCap >= 2
  /\ Stimuli \subseteq AllStimuli

VARIABLES
  cfg,         \* r.cfg: the endpoint of each configured name
  toolCache,   \* r.toolCache: the endpoint whose tools are cached for a name
  states,      \* r.states: the record of each server name
  status, attempts, retryCancel,   \* the fields of the records
  elapsed,     \* records whose pendingRetryAt had passed when the ticker's sweep began
  pc,          \* where each goroutine is
  sweep,       \* TRUE: the handler runs Refresh; FALSE: it attempts one server
  snap,        \* the configuration a sweep read, less the servers it has attempted
  srv, entry,  \* the server a goroutine attempts, and the endpoint it uses for it
  obj,         \* the *serverState that it holds
  closed, due  \* of a waiting retry: its channel is closed, its timer has expired

record == <<status, attempts, retryCancel>>
registry == <<cfg, toolCache, states, record>>
local == <<sweep, snap, srv, entry, obj>>
timers == <<closed, due, elapsed>>
vars == <<registry, pc, local, timers>>

NoEntries == [n \in Name |-> None]
Configs == [Name -> Endpoint \cup {None}]
Statuses == {"unknown", "healthy", "degraded", "failed", "auth_required"}
Locations == {"idle", "begin", "loop", "check", "login", "start", "fetch", "store",
              "evict", "park", "backoff", "schedule", "wait"}

TypeOK ==
  /\ cfg \in Configs
  /\ toolCache \in Configs
  /\ states \in [Server -> State \cup {None}]
  /\ status \in [State -> Statuses]
  /\ attempts \in [State -> Counts]
  /\ retryCancel \in [State -> Retrier \cup {None, Spent}]
  /\ elapsed \in SUBSET State
  /\ pc \in [Worker -> Locations]
  /\ sweep \in [Proc -> BOOLEAN]
  /\ snap \in [Worker -> Configs]
  /\ srv \in [Worker -> Server \cup {None}]
  /\ entry \in [Worker -> Endpoint \cup {None}]
  /\ obj \in [Worker -> State \cup {None}]
  /\ closed \in [Retrier -> BOOLEAN]
  /\ due \in [Retrier -> BOOLEAN]

-----------------------------------------------------------------------------
(* Health records. *)

Held == {obj[w] : w \in Worker}
Unreachable == {o \in State \ Held : \A s \in Server : states[s] # o}

\* stateFor(s) returns o; newServerState is an unreachable record, which is blank.
StateFor(s, o) ==
  \/ states[s] = o /\ UNCHANGED states
  \/ /\ states[s] = None
     /\ o \in Unreachable
     /\ states' = [states EXCEPT ![s] = o]

\* w sets the fields of the record that it holds and lets go of it.
Put(w, st, n, channel) ==
  LET o == obj[w]
      kept == (\E s \in Server : states[s] = o) \/ (\E v \in Worker \ {w} : obj[v] = o)
  IN  /\ status' = [status EXCEPT ![o] = IF kept THEN st ELSE "unknown"]
      /\ attempts' = [attempts EXCEPT ![o] = IF kept THEN n ELSE 0]
      /\ retryCancel' = [retryCancel EXCEPT ![o] = IF kept THEN channel ELSE None]
      /\ elapsed' = IF kept /\ channel = retryCancel[o] THEN elapsed ELSE elapsed \ {o}
      /\ obj' = [obj EXCEPT ![w] = None]

\* Fault: channels are dropped without being closed.
CloseNothing(O) == {}

\* The retries whose channels cancelRetryLocked closes for the records of O.
CloseChannels(O) == {r \in Retrier : \E o \in O : retryCancel[o] = r}

\* recordFailure's status for a failure that does not ask for a login.
FailureStatus(o) == IF attempts[o] = 0 THEN "degraded" ELSE "failed"

CountAttempt(o) == IF attempts[o] < AttemptCap THEN attempts[o] + 1 ELSE AttemptCap

DeadlinePassed(o) ==
  \/ retryCancel[o] = Spent
  \/ retryCancel[o] \in Retrier /\ due[retryCancel[o]]

\* Fault: the timer attempts a server that waits for a login.
SkipPendingOnly(o) == retryCancel[o] # None /\ o \notin elapsed

\* Fault: the timer leaves healthy servers alone.
SkipHealthy(o) ==
  \/ status[o] \in {"auth_required", "healthy"}
  \/ retryCancel[o] # None /\ o \notin elapsed

\* `now' of a periodic sweep is the time at which the sweep began.
SkipPeriodic(o) ==
  \/ status[o] = "auth_required"
  \/ retryCancel[o] # None /\ o \notin elapsed

-----------------------------------------------------------------------------
(* The ways an attempt begins. *)

Loops(w) == w = Ticker \/ (w \in Proc /\ sweep[w])

\* Fault: UpdateConfig cancels the retries of the servers that stay, too.
EveryRecord(c) == {states[s] : s \in {t \in Server : states[t] # None}}

\* The records of the servers that c no longer lists; UpdateConfig cancels their retries.
Dropped(c) == {states[s] : s \in {t \in Server : states[t] # None /\ c[t] = None}}

\* UpdateConfig(c), one critical section of the registry's lock.
UpdateConfig(c) ==
  LET added == {s \in Server : c[s] # None /\ states[s] = None}
      dropped == Dropped(c)
  IN  \E fresh \in [added -> Unreachable] :
        /\ \A s, t \in added : fresh[s] = fresh[t] => s = t
        /\ cfg' = c
        /\ toolCache' = NoEntries
        /\ states' = [s \in Server |->
                        IF s \in added THEN fresh[s]
                        ELSE IF c[s] = None THEN None ELSE states[s]]
        /\ LET garbage == {o \in State \ Held : \A s \in Server : states'[s] # o}
           IN  /\ status' = [o \in State |-> IF o \in garbage THEN "unknown" ELSE status[o]]
               /\ attempts' = [o \in State |-> IF o \in garbage THEN 0 ELSE attempts[o]]
        /\ retryCancel' = [o \in State |-> IF o \in dropped THEN None ELSE retryCancel[o]]
        /\ elapsed' = elapsed \ dropped
        /\ closed' = [r \in Retrier |-> closed[r] \/ r \in CloseChannels(dropped)]
        /\ UNCHANGED due

\* add_server, remove_server or reload: the change is applied, then everything is refreshed.
ChangeRegistry(p, c) ==
  /\ "change" \in Stimuli
  /\ pc[p] = "idle"
  /\ UpdateConfig(c)
  /\ pc' = [pc EXCEPT ![p] = "begin"]
  /\ sweep' = [sweep EXCEPT ![p] = TRUE]
  /\ UNCHANGED <<snap, srv, entry, obj>>

\* set_auth changes the headers of one entry; no refresh follows it.
SetAuth ==
  /\ "auth" \in Stimuli
  /\ \E s \in Server : cfg[s] # None
  /\ UpdateConfig(cfg)
  /\ UNCHANGED <<pc, local>>

\* The startup refresh and `mcpshim refresh' call Refresh.
RequestRefresh(p) ==
  /\ "refresh" \in Stimuli
  /\ pc[p] = "idle"
  /\ pc' = [pc EXCEPT ![p] = "begin"]
  /\ sweep' = [sweep EXCEPT ![p] = TRUE]
  /\ UNCHANGED <<registry, snap, srv, entry, obj, timers>>

\* `mcpshim refresh --server s' calls RefreshServer, `mcpshim login' calls Login.
RequestServer(p, s, how) ==
  /\ how \in Stimuli
  /\ pc[p] = "idle"
  /\ cfg[s] # None
  /\ pc' = [pc EXCEPT ![p] = IF how = "login" THEN "login" ELSE "start"]
  /\ srv' = [srv EXCEPT ![p] = s]
  /\ entry' = [entry EXCEPT ![p] = cfg[s]]
  /\ UNCHANGED <<registry, sweep, snap, obj, timers>>

\* runOAuthLogin returns: Login probes the server, or reports the error.
LoginReturns(p) ==
  /\ pc[p] = "login"
  /\ \/ /\ pc' = [pc EXCEPT ![p] = "start"]
        /\ UNCHANGED <<srv, entry>>
     \/ /\ pc' = [pc EXCEPT ![p] = "idle"]
        /\ srv' = [srv EXCEPT ![p] = None]
        /\ entry' = [entry EXCEPT ![p] = None]
  /\ UNCHANGED <<registry, sweep, snap, obj, timers>>

Tick ==
  /\ "tick" \in Stimuli
  /\ pc[Ticker] = "idle"
  /\ pc' = [pc EXCEPT ![Ticker] = "begin"]
  /\ UNCHANGED <<registry, local, timers>>

-----------------------------------------------------------------------------
(* Refresh and RefreshPeriodic. *)

\* The configuration is read under the lock; a periodic sweep also reads the clock.
Snapshot(w) ==
  /\ pc[w] = "begin"
  /\ pc' = [pc EXCEPT ![w] = "loop"]
  /\ snap' = [snap EXCEPT ![w] = cfg]
  /\ elapsed' = IF w = Ticker THEN {o \in State : DeadlinePassed(o)} ELSE elapsed
  /\ UNCHANGED <<registry, sweep, srv, entry, obj, closed, due>>

\* RefreshPeriodic looks a server's record up ...
LookUp(s) ==
  /\ pc[Ticker] = "loop"
  /\ snap[Ticker][s] # None
  /\ \E o \in State :
       /\ StateFor(s, o)
       /\ obj' = [obj EXCEPT ![Ticker] = o]
  /\ srv' = [srv EXCEPT ![Ticker] = s]
  /\ pc' = [pc EXCEPT ![Ticker] = "check"]
  /\ UNCHANGED <<cfg, toolCache, record, sweep, snap, entry, timers>>

\* ... and asks it whether to leave the server alone.
CheckSkip ==
  /\ pc[Ticker] = "check"
  /\ LET s == srv[Ticker]
     IN  /\ snap' = [snap EXCEPT ![Ticker][s] = None]
         /\ IF SkipPeriodic(obj[Ticker])
              THEN /\ pc' = [pc EXCEPT ![Ticker] = "loop"]
                   /\ srv' = [srv EXCEPT ![Ticker] = None]
                   /\ UNCHANGED entry
              ELSE /\ pc' = [pc EXCEPT ![Ticker] = "start"]
                   /\ entry' = [entry EXCEPT ![Ticker] = snap[Ticker][s]]
                   /\ UNCHANGED srv
         /\ Put(Ticker, status[obj[Ticker]], attempts[obj[Ticker]], retryCancel[obj[Ticker]])
  /\ UNCHANGED <<cfg, toolCache, states, sweep, closed, due>>

\* Refresh attempts the next server of its snapshot whatever its record says.
NextServer(p, s) ==
  /\ pc[p] = "loop"
  /\ snap[p][s] # None
  /\ pc' = [pc EXCEPT ![p] = "start"]
  /\ srv' = [srv EXCEPT ![p] = s]
  /\ entry' = [entry EXCEPT ![p] = snap[p][s]]
  /\ snap' = [snap EXCEPT ![p][s] = None]
  /\ UNCHANGED <<registry, sweep, obj, timers>>

\* After the last server: cacheHTTPServices, and the sweep returns.
EndSweep(w) ==
  /\ pc[w] = "loop"
  /\ \A s \in Server : snap[w][s] = None
  /\ toolCache' = [n \in Name |-> IF n \in Service /\ snap[w][n] # None
                                    THEN snap[w][n] ELSE toolCache[n]]
  /\ snap' = [snap EXCEPT ![w] = NoEntries]
  /\ sweep' = [p \in Proc |-> IF p = w THEN FALSE ELSE sweep[p]]
  /\ pc' = [pc EXCEPT ![w] = "idle"]
  /\ elapsed' = IF w = Ticker THEN {} ELSE elapsed
  /\ UNCHANGED <<cfg, states, record, srv, entry, obj, closed, due>>

-----------------------------------------------------------------------------
(* refreshServer. *)

\* The attempt on w's server is over.
Return(w) ==
  /\ pc' = [pc EXCEPT ![w] = IF Loops(w) THEN "loop" ELSE "idle"]
  /\ srv' = [srv EXCEPT ![w] = None]
  /\ entry' = [entry EXCEPT ![w] = None]

\* The record is looked up; fetchToolsForServer runs without a lock.
StartAttempt(w) ==
  /\ pc[w] = "start"
  /\ \E o \in State :
       /\ StateFor(srv[w], o)
       /\ obj' = [obj EXCEPT ![w] = o]
  /\ pc' = [pc EXCEPT ![w] = "fetch"]
  /\ UNCHANGED <<cfg, toolCache, record, sweep, snap, srv, entry, timers>>

\* The fetch returned tools: recordSuccess.
RecordSuccess(w) ==
  /\ pc[w] = "fetch"
  /\ Put(w, "healthy", 0, None)
  /\ closed' = [r \in Retrier |-> closed[r] \/ r \in CloseChannels({obj[w]})]
  /\ pc' = [pc EXCEPT ![w] = "store"]
  /\ UNCHANGED <<cfg, toolCache, states, sweep, snap, srv, entry, due>>

\* The fetch failed: recordFailure.
RecordFailure(w) ==
  /\ pc[w] = "fetch"
  /\ LET o == obj[w]
     IN  \/ /\ Put(w, "auth_required", CountAttempt(o), retryCancel[o])
            /\ pc' = [pc EXCEPT ![w] = "park"]
         \/ /\ Put(w, FailureStatus(o), CountAttempt(o), retryCancel[o])
            /\ pc' = [pc EXCEPT ![w] = "evict"]
  /\ UNCHANGED <<cfg, toolCache, states, sweep, snap, srv, entry, closed, due>>

\* The fetched tools enter the cache.
StoreTools(w) ==
  /\ pc[w] = "store"
  /\ toolCache' = [toolCache EXCEPT ![srv[w]] = entry[w]]
  /\ Return(w)
  /\ UNCHANGED <<cfg, states, record, sweep, snap, obj, timers>>

\* Fault: a failed attempt leaves the cached tools in place.
KeepTools(w) ==
  /\ pc[w] \in {"evict", "park"}
  /\ IF pc[w] = "park"
       THEN Return(w)
       ELSE /\ pc' = [pc EXCEPT ![w] = "backoff"]
            /\ entry' = [entry EXCEPT ![w] = None]
            /\ UNCHANGED srv
  /\ UNCHANGED <<registry, sweep, snap, obj, timers>>

\* A failed attempt evicts the cached tools; "park" is the case that needs a login.
EvictTools(w) ==
  /\ pc[w] \in {"evict", "park"}
  /\ toolCache' = [toolCache EXCEPT ![srv[w]] = None]
  /\ IF pc[w] = "park"
       THEN Return(w)
       ELSE /\ pc' = [pc EXCEPT ![w] = "backoff"]
            /\ entry' = [entry EXCEPT ![w] = None]
            /\ UNCHANGED srv
  /\ UNCHANGED <<cfg, states, record, sweep, snap, obj, timers>>

\* scheduleBackoffRetry looks the record up again ...
LookUpForRetry(w) ==
  /\ pc[w] = "backoff"
  /\ \E o \in State :
       /\ StateFor(srv[w], o)
       /\ obj' = [obj EXCEPT ![w] = o]
  /\ pc' = [pc EXCEPT ![w] = "schedule"]
  /\ UNCHANGED <<cfg, toolCache, record, sweep, snap, srv, entry, timers>>

\* ... and replaces its pending retry: scheduleRetry, and v is the new goroutine.  A
\* retry that failed returns next, so its own slot may serve for its successor.
ScheduleRetry(w, v) ==
  /\ pc[w] = "schedule"
  /\ pc[v] = "idle" \/ v = w
  /\ Put(w, status[obj[w]], attempts[obj[w]], v)
  /\ closed' = [r \in Retrier |-> r # v /\ (closed[r] \/ r \in CloseChannels({obj[w]}))]
  /\ due' = [due EXCEPT ![v] = FALSE]
  /\ pc' = [pc EXCEPT ![w] = IF Loops(w) THEN "loop" ELSE "idle", ![v] = "wait"]
  /\ srv' = [srv EXCEPT ![w] = None, ![v] = srv[w]]
  /\ UNCHANGED <<cfg, toolCache, states, sweep, snap, entry>>

-----------------------------------------------------------------------------
(* The retry goroutine. *)

TimerExpires(r) ==
  /\ pc[r] = "wait"
  /\ ~due[r]
  /\ due' = [due EXCEPT ![r] = TRUE]
  /\ UNCHANGED <<registry, pc, local, closed, elapsed>>

\* The goroutine leaves its select: the channels that point to it have no listener.
LeaveSelect(r) ==
  /\ retryCancel' = [o \in State |-> IF retryCancel[o] = r THEN Spent ELSE retryCancel[o]]
  /\ closed' = [closed EXCEPT ![r] = FALSE]
  /\ due' = [due EXCEPT ![r] = FALSE]

\* select takes the closed channel.
RetryCancelled(r) ==
  /\ pc[r] = "wait"
  /\ closed[r]
  /\ LeaveSelect(r)
  /\ pc' = [pc EXCEPT ![r] = "idle"]
  /\ srv' = [srv EXCEPT ![r] = None]
  /\ UNCHANGED <<cfg, toolCache, states, status, attempts, sweep, snap, entry, obj, elapsed>>

\* select takes the timer, which it may even if the channel is closed as well; the
\* server is resolved in the configuration of that moment.
RetryFires(r) ==
  /\ pc[r] = "wait"
  /\ due[r]
  /\ LeaveSelect(r)
  /\ IF cfg[srv[r]] # None
       THEN /\ pc' = [pc EXCEPT ![r] = "start"]
            /\ entry' = [entry EXCEPT ![r] = cfg[srv[r]]]
            /\ UNCHANGED srv
       ELSE /\ pc' = [pc EXCEPT ![r] = "idle"]
            /\ srv' = [srv EXCEPT ![r] = None]
            /\ UNCHANGED entry
  /\ UNCHANGED <<cfg, toolCache, states, status, attempts, sweep, snap, obj, elapsed>>

-----------------------------------------------------------------------------

\* NewRegistry with the configuration the daemon was started with.  The goroutine
\* `first' runs the startup refresh.
Init ==
  /\ cfg \in Configs
  /\ toolCache = NoEntries
  /\ states \in [Server -> State \cup {None}]
  /\ \A s \in Server : (states[s] = None) <=> (cfg[s] = None)
  /\ \A s, t \in Server : states[s] = states[t] /\ states[s] # None => s = t
  /\ status = [o \in State |-> "unknown"]
  /\ attempts = [o \in State |-> 0]
  /\ retryCancel = [o \in State |-> None]
  /\ elapsed = {}
  /\ \E first \in Proc :
       /\ pc = [w \in Worker |-> IF w = first THEN "begin" ELSE "idle"]
       /\ sweep = [p \in Proc |-> p = first]
  /\ snap = [w \in Worker |-> NoEntries]
  /\ srv = [w \in Worker |-> None]
  /\ entry = [w \in Worker |-> None]
  /\ obj = [w \in Worker |-> None]
  /\ closed = [r \in Retrier |-> FALSE]
  /\ due = [r \in Retrier |-> FALSE]

\* A step of refreshServer, in any goroutine.
Attempt(w) ==
  \/ StartAttempt(w)
  \/ RecordSuccess(w)
  \/ RecordFailure(w)
  \/ StoreTools(w)
  \/ EvictTools(w)
  \/ LookUpForRetry(w)
  \/ \E v \in Retrier : ScheduleRetry(w, v)

HandlerStep(p) ==
  \/ LoginReturns(p)
  \/ Snapshot(p)
  \/ \E s \in Server : NextServer(p, s)
  \/ EndSweep(p)
  \/ Attempt(p)

TickerStep ==
  \/ Snapshot(Ticker)
  \/ \E s \in Server : LookUp(s)
  \/ CheckSkip
  \/ EndSweep(Ticker)
  \/ Attempt(Ticker)

RetryStep(r) ==
  \/ TimerExpires(r)
  \/ RetryCancelled(r)
  \/ RetryFires(r)
  \/ Attempt(r)

\* What a client of the daemon asks for.
Request(p) ==
  \/ RequestRefresh(p)
  \/ \E s \in Server, how \in {"server", "login"} : RequestServer(p, s, how)
  \/ \E c \in Configs : ChangeRegistry(p, c)

Next ==
  \/ \E p \in Proc : Request(p) \/ HandlerStep(p)
  \/ SetAuth
  \/ Tick \/ TickerStep
  \/ \E r \in Retrier : RetryStep(r)

Spec == Init /\ [][Next]_vars

\* Goroutines are scheduled, contexts bound every fetch and login, timers expire and
\* the ticker ticks.  Nothing makes a client send requests.
Fairness ==
  /\ \A p \in Proc : WF_vars(HandlerStep(p))
  /\ WF_vars(Tick) /\ WF_vars(TickerStep)
  /\ \A r \in Retrier : WF_vars(RetryStep(r))

FairSpec == Spec /\ Fairness

-----------------------------------------------------------------------------
(* Properties. *)

Configured(s) == cfg[s] # None
Healthy(s) == states[s] # None /\ status[states[s]] = "healthy"
AuthRequired(s) == states[s] # None /\ status[states[s]] = "auth_required"
Failing(s) == states[s] # None /\ status[states[s]] \in {"degraded", "failed"}

\* w is inside refreshServer for s.
Attempting(w, s) ==
  /\ srv[w] = s
  /\ pc[w] \in {"start", "fetch", "store", "evict", "park", "backoff", "schedule"}

Quiet(s) == \A w \in Worker : ~Attempting(w, s)

\* A refresh of everything has still to come to s.
SweepWillReach(w, s) ==
  /\ w \in Proc
  /\ sweep[w]
  /\ pc[w] = "begin" \/ snap[w][s] # None

\* w's attempt on s has still to record its outcome in the current record of s, or
\* has recorded a failure and has still to schedule a retry there.
AttemptWillSettle(w, s) ==
  /\ srv[w] = s
  /\ \/ pc[w] \in {"start", "evict", "backoff"}
     \/ pc[w] \in {"fetch", "schedule"} /\ obj[w] = states[s]

\* r waits to retry s on behalf of the current record of s, and is not cancelled.
RetryPending(r, s) ==
  /\ retryCancel[states[s]] = r
  /\ pc[r] = "wait"
  /\ srv[r] = s
  /\ ~closed[r]

\* Something is going to move s out of a failing status.
Covered(s) ==
  \/ \E w \in Worker : SweepWillReach(w, s) \/ AttemptWillSettle(w, s)
  \/ \E r \in Retrier : RetryPending(r, s)

\* README.md:337,342: a failing server has its retry pending, or an attempt is on its
\* way.  Whatever the interleaving of attempts, timers, cancellations and registry
\* changes, no configured server is left in degraded or failed with nothing to move
\* it out of there (scheduleBackoffRetry, cancelRetryLocked and UpdateConfig).
NoLostRetry == \A s \in Server : Configured(s) /\ Failing(s) => Covered(s)

\* The channel in a record belongs to a goroutine that still selects on it and that
\* nobody has cancelled, and to one record: closing it (cancelRetryLocked) neither
\* panics nor cancels the retry of another server.
RetryOwned ==
  \A o \in State : retryCancel[o] \in Retrier =>
    /\ pc[retryCancel[o]] = "wait"
    /\ ~closed[retryCancel[o]]
    /\ \A u \in State : retryCancel[u] = retryCancel[o] => u = o

\* Where a goroutine holds a record, and where it is concerned with a server.
Holding == {"check", "fetch", "schedule"}
Concerned == Holding \cup {"login", "start", "store", "evict", "park", "backoff", "wait"}

Placed ==
  \A w \in Worker :
    /\ obj[w] = None <=> pc[w] \notin Holding
    /\ pc[w] \in Concerned => srv[w] \in Server
    /\ pc[w] = "wait" => w \in Retrier
    /\ pc[w] = "check" => w = Ticker

\* Records are not shared: between servers, or with an attempt on another server.
Separate ==
  \A s \in Server : states[s] # None =>
    /\ \A t \in Server : states[t] = states[s] => t = s
    /\ \A w \in Worker : obj[w] = states[s] => srv[w] = s

GarbageIsBlank == \A o \in Unreachable : status[o] = "unknown"

\* The inductive invariant behind NoLostRetry and RetryOwned.
IInv ==
  /\ TypeOK
  /\ Placed
  /\ Separate
  /\ GarbageIsBlank
  /\ RetryOwned
  /\ NoLostRetry

\* README.md:336-340: what each status says of the attempts behind it, although
\* attempts that overlap record their outcomes in any order.
StatusMatchesAttempts ==
  \A o \in State :
    /\ status[o] \in {"unknown", "healthy"} <=> attempts[o] = 0
    /\ status[o] = "degraded" => attempts[o] = 1
    /\ status[o] = "failed" => attempts[o] >= 2

\* s waits for a login and nothing that was started before is going to touch it.
Parked(s) ==
  /\ Configured(s)
  /\ AuthRequired(s)
  /\ Quiet(s)
  /\ \A w \in Worker : ~SweepWillReach(w, s)
  /\ \A r \in Retrier : ~(pc[r] = "wait" /\ srv[r] = s)
  /\ \A p \in Proc : ~(pc[p] = "login" /\ srv[p] = s)
  /\ pc[Ticker] = "check" /\ srv[Ticker] = s => obj[Ticker] = states[s]

\* mcp.go:223-230, server.go:117-121: once a server is parked in auth_required only a
\* client's request un-parks it.  The ticker, however its sweeps interleave with
\* everything else, never does.
ParkedUntilRequested ==
  [][\A s \in Server : Parked(s) =>
       Parked(s)' \/ \E p \in Proc : pc[p] = "idle" /\ pc'[p] # "idle"]_vars

\* A server that stays configured and whose upstream has stopped failing becomes
\* healthy, with the tools of its endpoint cached, again and again, unless it waits
\* for a login: retries and the ticker repair what earlier interleavings left behind.
Recovers ==
  \A s \in Server, e \in Endpoint :
    (/\ <>[](cfg[s] = e)
     /\ <>[][\A w \in Worker : srv[w] = s => ~RecordFailure(w)]_vars)
    => []<>((Healthy(s) /\ toolCache[s] = e) \/ AuthRequired(s))

=============================================================================
