-------------------------- MODULE RegistryOverlap ---------------------------
(***************************************************************************)
(* Registry with two history variables.  refreshServer records the outcome *)
(* of an attempt in the health record (mcp.go:306,318) and in the tool     *)
(* cache (mcp.go:308-310,321-324) under different locks.  The two can be   *)
(* compared once nothing attempts the server, and an attempt that ran      *)
(* alone must leave them in agreement: `disturbed' remembers which did     *)
(* not.  `stray' remembers the retries that nobody can find any more.      *)
(***************************************************************************)
EXTENDS Registry

VARIABLES
  disturbed,  \* servers whose last attempt was overlapped
  stray       \* waiting retries that were scheduled in a record that had been dropped

Attempts(s) == {w \in Worker : Attempting(w, s)}

\* The cache entry of s changed and no attempt on s moved: UpdateConfig emptied it.
CacheEmptied(s) ==
  /\ toolCache'[s] # toolCache[s]
  /\ \A w \in Attempts(s) : pc'[w] = pc[w]

\* After the step, the attempts on s have met another attempt or a registry change.
Overlapping(s) ==
  \/ \E v, w \in Attempts(s)' : v # w
  \/ cfg'[s] # cfg[s]
  \/ CacheEmptied(s)

BeginsAlone(s) == Attempts(s) = {} /\ \E w \in Worker : Attempts(s)' = {w}

\* r is scheduled by an attempt that holds a record which UpdateConfig has dropped.
GoesAstray(r) ==
  \E w \in Worker : /\ pc[w] = "schedule" /\ pc'[w] # "schedule"
                     /\ pc[r] # "wait" /\ pc'[r] = "wait"
                     /\ states[srv[w]] # obj[w]

OInit == Init /\ disturbed = {} /\ stray = {}

ONext ==
  /\ Next
  /\ disturbed' = {s \in Server : \/ Overlapping(s)
                                  \/ s \in disturbed /\ ~BeginsAlone(s)}
  /\ stray' = {r \in Retrier : (r \in stray /\ pc'[r] = "wait") \/ GoesAstray(r)}

OSpec == OInit /\ [][ONext]_<<vars, disturbed, stray>>

\* manifest.go:113-119 tells a server without tools that it is healthy from one whose
\* cached state was cleared, so a manifest is right only when status and cache agree.
\* They do whenever the last attempt ran alone, however many servers, sweeps and
\* retries are active.
AgreeAfterLoneAttempt ==
  \A s \in Server :
    Configured(s) /\ Quiet(s) /\ s \notin disturbed
      => (Healthy(s) <=> toolCache[s] # None)

\* state.go:65-67,116-126: only one retry of a server waits that is not cancelled, the one
\* its record knows.  Attempts that fail at the same time do not multiply into retries
\* that escape the backoff schedule.  The exception is a retry that was scheduled in a
\* record dropped meanwhile (mcp.go:333-336): a registry change cannot reach that one.
OneRetryPerServer ==
  \A r \in Retrier \ stray :
    pc[r] = "wait" /\ ~closed[r]
      => states[srv[r]] # None /\ retryCancel[states[srv[r]]] = r

-----------------------------------------------------------------------------
(* The inductive invariant. *)

\* Only a sweep is between servers.
Sweeping == \A p \in Proc : pc[p] \in {"begin", "loop"} => sweep[p]

\* A goroutine on its way to an attempt, or in it, has the endpoint it will cache.
Carries ==
  \A w \in Worker :
    /\ pc[w] \in {"login", "start", "fetch", "store"} => entry[w] # None
    /\ pc[w] = "check" => snap[w][srv[w]] # None

\* How far an attempt that nothing has met has brought its server.
Settling(w, s) ==
  /\ pc[w] = "fetch" => obj[w] = states[s]
  /\ pc[w] = "store" => Healthy(s)
  /\ pc[w] \in {"evict", "park", "backoff", "schedule"} => ~Healthy(s)
  /\ pc[w] \in {"backoff", "schedule"} => toolCache[s] = None

Settled ==
  \A s \in Server :
    Configured(s) /\ s \notin disturbed =>
      /\ \A v, w \in Attempts(s) : v = w
      /\ \A w \in Attempts(s) : Settling(w, s)
      /\ Attempts(s) = {} => (Healthy(s) <=> toolCache[s] # None)

OIInv == Sweeping /\ Carries /\ Settled /\ OneRetryPerServer

=============================================================================
