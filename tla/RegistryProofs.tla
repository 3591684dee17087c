--------------------------- MODULE RegistryProofs ---------------------------
(***************************************************************************)
(* Proofs about Registry and RegistryOverlap, for any number of servers,   *)
(* endpoints, records and goroutines.                                      *)
(***************************************************************************)
EXTENDS RegistryOverlap, TLAPS

USE RegistryAssumption DEF Name, Worker, Configs, NoEntries, Statuses, Locations

(* Types.  A step needs to know where its goroutine is placed: what a retry *)
(* resolves is srv[r], and the ticker consumes snap[Ticker][srv[Ticker]].   *)

LEMMA CountTypes ==
  /\ 0 \in Counts
  /\ \A n \in Counts : IF n < AttemptCap THEN n + 1 \in Counts ELSE AttemptCap \in Counts
  BY DEF Counts

LEMMA PutType ==
  ASSUME TypeOK, NEW w \in Worker, NEW st \in Statuses, NEW n \in Counts,
         NEW channel \in Retrier \cup {None, Spent}, Put(w, st, n, channel)
  PROVE  /\ status' \in [State -> Statuses]
         /\ attempts' \in [State -> Counts]
         /\ retryCancel' \in [State -> Retrier \cup {None, Spent}]
         /\ elapsed' \in SUBSET State
         /\ obj' \in [Worker -> State \cup {None}]
  <1> DEFINE o == obj[w]
             kept == (\E s \in Server : states[s] = o) \/ (\E v \in Worker \ {w} : obj[v] = o)
  <1>1. /\ status' = [status EXCEPT ![o] = IF kept THEN st ELSE "unknown"]
        /\ attempts' = [attempts EXCEPT ![o] = IF kept THEN n ELSE 0]
        /\ retryCancel' = [retryCancel EXCEPT ![o] = IF kept THEN channel ELSE None]
        /\ elapsed' = IF kept /\ channel = retryCancel[o] THEN elapsed ELSE elapsed \ {o}
        /\ obj' = [obj EXCEPT ![w] = None]
    BY DEF Put
  <1> HIDE DEF o, kept
  <1>2. status' \in [State -> Statuses]
    BY <1>1 DEF TypeOK
  <1>3. attempts' \in [State -> Counts]
    BY <1>1, CountTypes DEF TypeOK
  <1>4. retryCancel' \in [State -> Retrier \cup {None, Spent}]
    BY <1>1 DEF TypeOK
  <1>5. elapsed' \in SUBSET State
    BY <1>1 DEF TypeOK
  <1>6. obj' \in [Worker -> State \cup {None}]
    BY <1>1 DEF TypeOK
  <1> QED
    BY <1>2, <1>3, <1>4, <1>5, <1>6

LEMMA StateForType ==
  ASSUME TypeOK, NEW s, NEW o \in State, StateFor(s, o)
  PROVE  states' \in [Server -> State \cup {None}]
  BY DEF TypeOK, StateFor

LEMMA CountType ==
  ASSUME TypeOK, NEW o \in State
  PROVE  CountAttempt(o) \in Counts
  BY CountTypes DEF TypeOK, CountAttempt

LEMMA UpdateConfigType ==
  ASSUME TypeOK, NEW c \in Configs, UpdateConfig(c)
  PROVE  /\ cfg' \in Configs
         /\ toolCache' \in Configs
         /\ states' \in [Server -> State \cup {None}]
         /\ status' \in [State -> Statuses]
         /\ attempts' \in [State -> Counts]
         /\ retryCancel' \in [State -> Retrier \cup {None, Spent}]
         /\ elapsed' \in SUBSET State
         /\ closed' \in [Retrier -> BOOLEAN]
         /\ due' = due
  BY CountTypes DEF TypeOK, UpdateConfig, Unreachable

LEMMA InitTyped == Init => TypeOK /\ Placed
  <1> SUFFICES ASSUME Init PROVE TypeOK /\ Placed
    OBVIOUS
  <1>1. TypeOK
    BY CountTypes DEF Init, TypeOK
  <1>2. Placed
    BY DEF Init, Placed, Holding, Concerned
  <1> QED
    BY <1>1, <1>2

\* A goroutine that is placed has a server and, where it holds one, a record.
LEMMA PlacedAt ==
  ASSUME TypeOK, Placed, NEW w \in Worker
  PROVE  /\ pc[w] \in Concerned => srv[w] \in Server
         /\ pc[w] \in Holding => obj[w] \in State
  BY DEF TypeOK, Placed

LEMMA TypeStep ==
  ASSUME TypeOK, Placed, [Next]_vars
  PROVE  TypeOK'
  <1> USE DEF TypeOK
  <1>1. ASSUME NEW p \in Proc, RequestRefresh(p) PROVE TypeOK'
    BY <1>1 DEF RequestRefresh, registry, record, timers
  <1>2. ASSUME NEW p \in Proc, NEW s \in Server, NEW how \in {"server", "login"},
               RequestServer(p, s, how)
        PROVE  TypeOK'
    BY <1>2 DEF RequestServer, registry, record, timers
  <1>3. ASSUME NEW p \in Proc, NEW c \in Configs, ChangeRegistry(p, c) PROVE TypeOK'
    BY <1>3, UpdateConfigType DEF ChangeRegistry
  <1>4. CASE SetAuth
    BY <1>4, UpdateConfigType DEF SetAuth, local
  <1>5. ASSUME NEW p \in Proc, LoginReturns(p) PROVE TypeOK'
    BY <1>5 DEF LoginReturns, registry, record, timers
  <1>6. CASE Tick
    BY <1>6 DEF Tick, registry, record, local, timers
  <1>7. ASSUME NEW w \in Worker, Snapshot(w) PROVE TypeOK'
    BY <1>7 DEF Snapshot, registry, record
  <1>8. ASSUME NEW s \in Server, LookUp(s) PROVE TypeOK'
    <2>1. PICK o \in State : StateFor(s, o) /\ obj' = [obj EXCEPT ![Ticker] = o]
      BY <1>8 DEF LookUp
    <2>2. states' \in [Server -> State \cup {None}]
      BY <2>1, StateForType
    <2> QED
      BY <1>8, <2>1, <2>2 DEF LookUp, record, timers
  <1>9. CASE CheckSkip
    <2> DEFINE o == obj[Ticker]
    <2>1. o \in State /\ srv[Ticker] \in Server
      BY <1>9, PlacedAt DEF CheckSkip, Holding, Concerned
    <2>2. Put(Ticker, status[o], attempts[o], retryCancel[o])
      BY <1>9 DEF CheckSkip
    <2>3. /\ status[o] \in Statuses /\ attempts[o] \in Counts
          /\ retryCancel[o] \in Retrier \cup {None, Spent}
      BY <2>1
    <2>4. /\ status' \in [State -> Statuses]
          /\ attempts' \in [State -> Counts]
          /\ retryCancel' \in [State -> Retrier \cup {None, Spent}]
          /\ elapsed' \in SUBSET State
          /\ obj' \in [Worker -> State \cup {None}]
      <3> HIDE DEF o, TypeOK
      <3> QED BY <2>2, <2>3, PutType
    <2>5. /\ pc' \in [Worker -> Locations]
          /\ snap' \in [Worker -> Configs]
          /\ srv' \in [Worker -> Server \cup {None}]
          /\ entry' \in [Worker -> Endpoint \cup {None}]
      BY <1>9, <2>1 DEF CheckSkip
    <2> QED
      BY <1>9, <2>4, <2>5 DEF CheckSkip
  <1>10. ASSUME NEW p \in Proc, NEW s \in Server, NextServer(p, s) PROVE TypeOK'
    BY <1>10 DEF NextServer, registry, record, timers
  <1>11. ASSUME NEW w \in Worker, EndSweep(w) PROVE TypeOK'
    <2>1. toolCache' \in Configs
      BY <1>11 DEF EndSweep
    <2>2. snap' \in [Worker -> Configs] /\ sweep' \in [Proc -> BOOLEAN]
      BY <1>11 DEF EndSweep
    <2>3. elapsed' \in SUBSET State /\ pc' \in [Worker -> Locations]
      BY <1>11 DEF EndSweep
    <2> QED
      BY <1>11, <2>1, <2>2, <2>3 DEF EndSweep, record
  <1>12. ASSUME NEW w \in Worker, StartAttempt(w) PROVE TypeOK'
    <2>1. PICK o \in State : StateFor(srv[w], o) /\ obj' = [obj EXCEPT ![w] = o]
      BY <1>12 DEF StartAttempt
    <2>2. states' \in [Server -> State \cup {None}]
      BY <2>1, StateForType
    <2> QED
      BY <1>12, <2>1, <2>2 DEF StartAttempt, record, timers
  <1>13. ASSUME NEW w \in Worker, RecordSuccess(w) PROVE TypeOK'
    <2>1. Put(w, "healthy", 0, None)
      BY <1>13 DEF RecordSuccess
    <2>2. "healthy" \in Statuses /\ 0 \in Counts
      BY CountTypes
    <2>3. /\ status' \in [State -> Statuses]
          /\ attempts' \in [State -> Counts]
          /\ retryCancel' \in [State -> Retrier \cup {None, Spent}]
          /\ elapsed' \in SUBSET State
          /\ obj' \in [Worker -> State \cup {None}]
      BY <2>1, <2>2, PutType
    <2> QED
      BY <1>13, <2>3 DEF RecordSuccess
  <1>14. ASSUME NEW w \in Worker, RecordFailure(w) PROVE TypeOK'
    <2> DEFINE o == obj[w]
    <2>1. o \in State
      BY <1>14, PlacedAt DEF RecordFailure, Holding
    <2>2. PICK st \in Statuses : Put(w, st, CountAttempt(o), retryCancel[o])
      BY <1>14 DEF RecordFailure, FailureStatus
    <2>3. /\ CountAttempt(o) \in Counts
          /\ retryCancel[o] \in Retrier \cup {None, Spent}
      BY <2>1, CountType
    <2>4. /\ status' \in [State -> Statuses]
          /\ attempts' \in [State -> Counts]
          /\ retryCancel' \in [State -> Retrier \cup {None, Spent}]
          /\ elapsed' \in SUBSET State
          /\ obj' \in [Worker -> State \cup {None}]
      <3> HIDE DEF o, TypeOK
      <3> QED BY <2>2, <2>3, PutType
    <2>5. pc' \in [Worker -> Locations]
      BY <1>14 DEF RecordFailure
    <2>6. UNCHANGED <<cfg, toolCache, states, sweep, snap, srv, entry, closed, due>>
      BY <1>14 DEF RecordFailure
    <2> QED
      BY <2>4, <2>5, <2>6
  <1>15. ASSUME NEW w \in Worker, StoreTools(w) PROVE TypeOK'
    BY <1>15 DEF StoreTools, Return, record, timers
  <1>16. ASSUME NEW w \in Worker, EvictTools(w) PROVE TypeOK'
    BY <1>16 DEF EvictTools, Return, record, timers
  <1>17. ASSUME NEW w \in Worker, LookUpForRetry(w) PROVE TypeOK'
    <2>1. PICK o \in State : StateFor(srv[w], o) /\ obj' = [obj EXCEPT ![w] = o]
      BY <1>17 DEF LookUpForRetry
    <2>2. states' \in [Server -> State \cup {None}]
      BY <2>1, StateForType
    <2> QED
      BY <1>17, <2>1, <2>2 DEF LookUpForRetry, record, timers
  <1>18. ASSUME NEW w \in Worker, NEW v \in Retrier, ScheduleRetry(w, v) PROVE TypeOK'
    <2> DEFINE o == obj[w]
    <2>1. o \in State
      BY <1>18, PlacedAt DEF ScheduleRetry, Holding
    <2>2. Put(w, status[o], attempts[o], v)
      BY <1>18 DEF ScheduleRetry
    <2>3. status[o] \in Statuses /\ attempts[o] \in Counts
      BY <2>1
    <2>4. /\ status' \in [State -> Statuses]
          /\ attempts' \in [State -> Counts]
          /\ retryCancel' \in [State -> Retrier \cup {None, Spent}]
          /\ elapsed' \in SUBSET State
          /\ obj' \in [Worker -> State \cup {None}]
      <3> HIDE DEF o, TypeOK
      <3> QED BY <2>2, <2>3, PutType
    <2>5. srv[w] \in Server \cup {None}
      OBVIOUS
    <2> QED
      BY <1>18, <2>4, <2>5 DEF ScheduleRetry
  <1>19. ASSUME NEW r \in Retrier, TimerExpires(r) PROVE TypeOK'
    BY <1>19 DEF TimerExpires, registry, record, local
  <1>20. ASSUME NEW r \in Retrier, RetryCancelled(r) PROVE TypeOK'
    BY <1>20 DEF RetryCancelled, LeaveSelect
  <1>21. ASSUME NEW r \in Retrier, RetryFires(r) PROVE TypeOK'
    <2>1. cfg[srv[r]] \in Endpoint \cup {None}
      BY <1>21, PlacedAt DEF RetryFires, Concerned
    <2> QED
      BY <1>21, <2>1 DEF RetryFires, LeaveSelect
  <1>22. CASE UNCHANGED vars
    BY <1>22 DEF vars, registry, record, local, timers
  <1> HIDE DEF TypeOK
  <1> QED
    BY <1>1, <1>2, <1>3, <1>4, <1>5, <1>6, <1>7, <1>8, <1>9, <1>10, <1>11, <1>12, <1>13,
       <1>14, <1>15, <1>16, <1>17, <1>18, <1>19, <1>20, <1>21, <1>22
    DEF Next, Request, HandlerStep, TickerStep, RetryStep, Attempt

(* Where goroutines are placed. *)

LEMMA PutLetsGo ==
  ASSUME NEW w, NEW st, NEW n, NEW channel, Put(w, st, n, channel)
  PROVE  obj' = [obj EXCEPT ![w] = None]
  BY DEF Put

LEMMA PlacedStep ==
  ASSUME TypeOK, Placed, [Next]_vars
  PROVE  Placed'
  <1> USE DEF TypeOK, Placed, Holding, Concerned
  <1>1. ASSUME NEW p \in Proc, RequestRefresh(p) PROVE Placed'
    BY <1>1 DEF RequestRefresh
  <1>2. ASSUME NEW p \in Proc, NEW s \in Server, NEW how \in {"server", "login"},
               RequestServer(p, s, how)
        PROVE  Placed'
    BY <1>2 DEF RequestServer
  <1>3. ASSUME NEW p \in Proc, NEW c \in Configs, ChangeRegistry(p, c) PROVE Placed'
    BY <1>3 DEF ChangeRegistry
  <1>4. CASE SetAuth
    BY <1>4 DEF SetAuth, local
  <1>5. ASSUME NEW p \in Proc, LoginReturns(p) PROVE Placed'
    BY <1>5 DEF LoginReturns
  <1>6. CASE Tick
    BY <1>6 DEF Tick, local
  <1>7. ASSUME NEW w \in Worker, Snapshot(w) PROVE Placed'
    BY <1>7 DEF Snapshot
  <1>8. ASSUME NEW s \in Server, LookUp(s) PROVE Placed'
    <2>1. PICK o \in State : obj' = [obj EXCEPT ![Ticker] = o]
      BY <1>8 DEF LookUp
    <2> QED
      BY <1>8, <2>1 DEF LookUp
  <1>9. CASE CheckSkip
    <2>1. obj' = [obj EXCEPT ![Ticker] = None]
      BY <1>9, PutLetsGo DEF CheckSkip
    <2> QED
      BY <1>9, <2>1 DEF CheckSkip
  <1>10. ASSUME NEW p \in Proc, NEW s \in Server, NextServer(p, s) PROVE Placed'
    BY <1>10 DEF NextServer
  <1>11. ASSUME NEW w \in Worker, EndSweep(w) PROVE Placed'
    BY <1>11 DEF EndSweep
  <1>12. ASSUME NEW w \in Worker, StartAttempt(w) PROVE Placed'
    <2>1. PICK o \in State : obj' = [obj EXCEPT ![w] = o]
      BY <1>12 DEF StartAttempt
    <2> QED
      BY <1>12, <2>1 DEF StartAttempt
  <1>13. ASSUME NEW w \in Worker, RecordSuccess(w) PROVE Placed'
    <2>1. obj' = [obj EXCEPT ![w] = None]
      BY <1>13, PutLetsGo DEF RecordSuccess
    <2> QED
      BY <1>13, <2>1 DEF RecordSuccess
  <1>14. ASSUME NEW w \in Worker, RecordFailure(w) PROVE Placed'
    <2>1. obj' = [obj EXCEPT ![w] = None]
      BY <1>14, PutLetsGo DEF RecordFailure
    <2>2. \/ pc' = [pc EXCEPT ![w] = "park"]
          \/ pc' = [pc EXCEPT ![w] = "evict"]
      BY <1>14 DEF RecordFailure
    <2>3. pc[w] = "fetch" /\ srv' = srv
      BY <1>14 DEF RecordFailure
    <2> QED
      BY <2>1, <2>2, <2>3
  <1>15. ASSUME NEW w \in Worker, StoreTools(w) PROVE Placed'
    BY <1>15 DEF StoreTools, Return
  <1>16. ASSUME NEW w \in Worker, EvictTools(w) PROVE Placed'
    BY <1>16 DEF EvictTools, Return
  <1>17. ASSUME NEW w \in Worker, LookUpForRetry(w) PROVE Placed'
    <2>1. PICK o \in State : obj' = [obj EXCEPT ![w] = o]
      BY <1>17 DEF LookUpForRetry
    <2> QED
      BY <1>17, <2>1 DEF LookUpForRetry
  <1>18. ASSUME NEW w \in Worker, NEW v \in Retrier, ScheduleRetry(w, v) PROVE Placed'
    <2>1. obj' = [obj EXCEPT ![w] = None]
      BY <1>18, PutLetsGo DEF ScheduleRetry
    <2> QED
      BY <1>18, <2>1 DEF ScheduleRetry
  <1>19. ASSUME NEW r \in Retrier, TimerExpires(r) PROVE Placed'
    BY <1>19 DEF TimerExpires, local
  <1>20. ASSUME NEW r \in Retrier, RetryCancelled(r) PROVE Placed'
    BY <1>20 DEF RetryCancelled
  <1>21. ASSUME NEW r \in Retrier, RetryFires(r) PROVE Placed'
    BY <1>21 DEF RetryFires
  <1>22. CASE UNCHANGED vars
    BY <1>22 DEF vars, local
  <1> HIDE DEF TypeOK, Placed, Holding, Concerned
  <1> QED
    BY <1>1, <1>2, <1>3, <1>4, <1>5, <1>6, <1>7, <1>8, <1>9, <1>10, <1>11, <1>12, <1>13,
       <1>14, <1>15, <1>16, <1>17, <1>18, <1>19, <1>20, <1>21, <1>22
    DEF Next, Request, HandlerStep, TickerStep, RetryStep, Attempt

(* What steps do to the records.  Each lemma describes an operation record *)
(* by record, so that the proofs below need not expand it.                 *)

LEMMA PutEffect ==
  ASSUME TypeOK, NEW w \in Worker, obj[w] \in State, NEW st, NEW n, NEW channel,
         Put(w, st, n, channel), NEW u \in State
  PROVE  \/ /\ u # obj[w]
            /\ status'[u] = status[u]
            /\ attempts'[u] = attempts[u]
            /\ retryCancel'[u] = retryCancel[u]
         \/ /\ u = obj[w]
            /\ \/ \E s \in Server : states[s] = u
               \/ \E v \in Worker \ {w} : obj[v] = u
            /\ status'[u] = st
            /\ attempts'[u] = n
            /\ retryCancel'[u] = channel
         \/ /\ u = obj[w]
            /\ \A s \in Server : states[s] # u
            /\ status'[u] = "unknown"
            /\ attempts'[u] = 0
            /\ retryCancel'[u] = None
  <1> DEFINE o == obj[w]
             kept == (\E s \in Server : states[s] = o) \/ (\E v \in Worker \ {w} : obj[v] = o)
  <1>1. /\ status' = [status EXCEPT ![o] = IF kept THEN st ELSE "unknown"]
        /\ attempts' = [attempts EXCEPT ![o] = IF kept THEN n ELSE 0]
        /\ retryCancel' = [retryCancel EXCEPT ![o] = IF kept THEN channel ELSE None]
    BY DEF Put
  <1>2. CASE u # o
    <2> HIDE DEF kept
    <2> QED
      BY <1>1, <1>2 DEF TypeOK
  <1>3. CASE u = o /\ kept
    <2>1. status'[u] = st /\ attempts'[u] = n /\ retryCancel'[u] = channel
      <3> HIDE DEF kept
      <3> QED
        BY <1>1, <1>3 DEF TypeOK
    <2> QED
      BY <2>1, <1>3
  <1>4. CASE u = o /\ ~kept
    <2>1. status'[u] = "unknown" /\ attempts'[u] = 0 /\ retryCancel'[u] = None
      <3> HIDE DEF kept
      <3> QED
        BY <1>1, <1>4 DEF TypeOK
    <2> QED
      BY <2>1, <1>4
  <1> QED
    BY <1>2, <1>3, <1>4

LEMMA StateForEffect ==
  ASSUME TypeOK, NEW s \in Server, NEW o \in State, StateFor(s, o)
  PROVE  /\ states'[s] = o
         /\ \A t \in Server \ {s} : states'[t] = states[t]
         /\ states[s] # o => states[s] = None /\ o \in Unreachable
  BY DEF TypeOK, StateFor

LEMMA UpdateConfigEffect ==
  ASSUME TypeOK, NEW c \in Configs, UpdateConfig(c)
  PROVE  /\ cfg' = c
         /\ \A s \in Server :
              \/ states'[s] = states[s]
              \/ states'[s] = None /\ c[s] = None
              \/ states[s] = None /\ c[s] # None /\ states'[s] \in Unreachable
         /\ \A s, t \in Server :
              states[s] = None /\ states[t] = None /\ states'[s] = states'[t]
                => s = t \/ states'[s] = None
         /\ \A o \in State :
              \/ /\ o \in Dropped(c)
                 /\ retryCancel'[o] = None
              \/ /\ o \notin Dropped(c)
                 /\ retryCancel'[o] = retryCancel[o]
         /\ \A o \in State :
              \/ o \notin Held /\ (\A s \in Server : states'[s] # o)
                 /\ status'[o] = "unknown" /\ attempts'[o] = 0
              \/ (o \in Held \/ \E s \in Server : states'[s] = o)
                 /\ status'[o] = status[o] /\ attempts'[o] = attempts[o]
         /\ \A r \in Retrier : closed'[r] <=> closed[r] \/ r \in CloseChannels(Dropped(c))
  <1> DEFINE added == {s \in Server : c[s] # None /\ states[s] = None}
  <1>1. PICK fresh \in [added -> Unreachable] :
          /\ \A s, t \in added : fresh[s] = fresh[t] => s = t
          /\ states' = [s \in Server |->
                          IF s \in added THEN fresh[s]
                          ELSE IF c[s] = None THEN None ELSE states[s]]
    BY DEF UpdateConfig
  <1>2. /\ \A s \in added : states'[s] = fresh[s] /\ fresh[s] \in Unreachable
        /\ \A s \in Server \ added : states'[s] = IF c[s] = None THEN None ELSE states[s]
    BY <1>1
  <1>3. \A o \in State : o \in Unreachable => o # None
    BY DEF Unreachable
  <1>4. cfg' = c
    BY DEF UpdateConfig
  <1>5. \A s \in Server :
          \/ states'[s] = states[s]
          \/ states'[s] = None /\ c[s] = None
          \/ states[s] = None /\ c[s] # None /\ states'[s] \in Unreachable
    BY <1>2
  <1>6. \A s, t \in Server :
          states[s] = None /\ states[t] = None /\ states'[s] = states'[t]
            => s = t \/ states'[s] = None
    BY <1>1, <1>2
  <1>7. \A o \in State :
          \/ o \in Dropped(c) /\ retryCancel'[o] = None
          \/ o \notin Dropped(c) /\ retryCancel'[o] = retryCancel[o]
    BY DEF UpdateConfig
  <1>8. \A o \in State :
          \/ o \notin Held /\ (\A s \in Server : states'[s] # o)
             /\ status'[o] = "unknown" /\ attempts'[o] = 0
          \/ (o \in Held \/ \E s \in Server : states'[s] = o)
             /\ status'[o] = status[o] /\ attempts'[o] = attempts[o]
    <2> DEFINE garbage == {o \in State \ Held : \A s \in Server : states'[s] # o}
    <2>1. /\ status' = [o \in State |-> IF o \in garbage THEN "unknown" ELSE status[o]]
          /\ attempts' = [o \in State |-> IF o \in garbage THEN 0 ELSE attempts[o]]
      BY DEF UpdateConfig
    <2> QED
      BY <2>1
  <1>9. \A r \in Retrier : closed'[r] <=> closed[r] \/ r \in CloseChannels(Dropped(c))
    BY DEF UpdateConfig
  <1> QED
    BY <1>4, <1>5, <1>6, <1>7, <1>8, <1>9

(* Separate: records are not shared. *)

LEMMA SeparateStep ==
  ASSUME TypeOK, Placed, Separate, [Next]_vars
  PROVE  Separate'
  <1> USE DEF Separate, Placed, Holding, Concerned
  <1>1. ASSUME NEW w \in Worker, NEW s \in Server, NEW o \in State, StateFor(s, o),
               obj' = [obj EXCEPT ![w] = o], srv' = [srv EXCEPT ![w] = s]
        PROVE  Separate'
    <2>1. /\ states'[s] = o
          /\ \A t \in Server \ {s} : states'[t] = states[t]
          /\ states[s] # o => states[s] = None /\ o \in Unreachable
      BY <1>1, StateForEffect
    <2>2. o \in Unreachable => /\ \A t \in Server : states[t] # o
                               /\ \A v \in Worker : obj[v] # o
      BY DEF Unreachable, Held
    <2>3. /\ obj'[w] = o /\ srv'[w] = s
          /\ \A v \in Worker \ {w} : obj'[v] = obj[v] /\ srv'[v] = srv[v]
      BY <1>1 DEF TypeOK
    <2>4. o # None
      OBVIOUS
    <2>5. ASSUME NEW t \in Server, states'[t] # None
          PROVE  \A u \in Server : states'[u] = states'[t] => u = t
      BY <2>1, <2>2, <2>5
    <2>6. ASSUME NEW t \in Server, states'[t] # None, NEW v \in Worker, obj'[v] = states'[t]
          PROVE  srv'[v] = t
      BY <2>1, <2>2, <2>3, <2>6
    <2> QED
      BY <2>5, <2>6
  <1>2. ASSUME NEW w \in Worker, states' = states, obj' = [obj EXCEPT ![w] = None],
               \A v \in Worker : obj'[v] # None => srv'[v] = srv[v]
        PROVE  Separate'
    BY <1>2 DEF TypeOK
  <1>3. ASSUME states' = states, obj' = obj, \A v \in Worker : obj'[v] # None => srv'[v] = srv[v]
        PROVE  Separate'
    BY <1>3
  <1>4. ASSUME NEW c \in Configs, UpdateConfig(c), obj' = obj, srv' = srv
        PROVE  Separate'
    <2>1. /\ \A s \in Server :
               \/ states'[s] = states[s]
               \/ states'[s] = None
               \/ states[s] = None /\ states'[s] \in Unreachable
          /\ \A s, t \in Server :
               states[s] = None /\ states[t] = None /\ states'[s] = states'[t]
                 => s = t \/ states'[s] = None
      BY <1>4, UpdateConfigEffect
    <2>2. \A o \in Unreachable : /\ \A s \in Server : states[s] # o
                                 /\ \A w \in Worker : obj[w] # o
      BY DEF Unreachable, Held
    <2> QED
      BY <1>4, <2>1, <2>2
  <1>5. ASSUME NEW w \in Worker, NEW s \in Server, NEW o \in State, StateFor(s, o),
               obj' = [obj EXCEPT ![w] = o], srv' = srv, srv[w] = s
        PROVE  Separate'
    <2>1. srv' = [srv EXCEPT ![w] = s]
      BY <1>5 DEF TypeOK
    <2> QED
      BY <1>1, <1>5, <2>1
  <1>11. ASSUME NEW p \in Proc, RequestRefresh(p) PROVE Separate'
    BY <1>11, <1>3 DEF RequestRefresh, registry
  <1>12. ASSUME NEW p \in Proc, NEW s \in Server, NEW how \in {"server", "login"},
               RequestServer(p, s, how)
        PROVE  Separate'
    <2>1. obj[p] = None /\ states' = states /\ obj' = obj /\ srv' = [srv EXCEPT ![p] = s]
      BY <1>12 DEF RequestServer, registry
    <2> QED
      BY <2>1, <1>3 DEF TypeOK
  <1>13. ASSUME NEW p \in Proc, NEW c \in Configs, ChangeRegistry(p, c) PROVE Separate'
    BY <1>13, <1>4 DEF ChangeRegistry
  <1>14. CASE SetAuth
    BY <1>14, <1>4 DEF SetAuth, local, TypeOK
  <1>15. ASSUME NEW p \in Proc, LoginReturns(p) PROVE Separate'
    <2>1. obj[p] = None /\ states' = states /\ obj' = obj
      BY <1>15 DEF LoginReturns, registry
    <2>2. srv' = srv \/ srv' = [srv EXCEPT ![p] = None]
      BY <1>15 DEF LoginReturns
    <2> QED
      BY <2>1, <2>2, <1>3 DEF TypeOK
  <1>16. CASE Tick
    BY <1>16, <1>3 DEF Tick, registry, local
  <1>17. ASSUME NEW w \in Worker, Snapshot(w) PROVE Separate'
    BY <1>17, <1>3 DEF Snapshot, registry
  <1>18. ASSUME NEW s \in Server, LookUp(s) PROVE Separate'
    <2>1. PICK o \in State : StateFor(s, o) /\ obj' = [obj EXCEPT ![Ticker] = o]
      BY <1>18 DEF LookUp
    <2>2. srv' = [srv EXCEPT ![Ticker] = s]
      BY <1>18 DEF LookUp
    <2> QED
      BY <2>1, <2>2, <1>1
  <1>19. CASE CheckSkip
    <2>1. obj' = [obj EXCEPT ![Ticker] = None]
      BY <1>19, PutLetsGo DEF CheckSkip
    <2>2. /\ states' = states
          /\ srv' = srv \/ srv' = [srv EXCEPT ![Ticker] = None]
      BY <1>19 DEF CheckSkip
    <2> QED
      BY <2>1, <2>2, <1>2 DEF TypeOK
  <1>20. ASSUME NEW p \in Proc, NEW s \in Server, NextServer(p, s) PROVE Separate'
    <2>1. obj[p] = None /\ states' = states /\ obj' = obj /\ srv' = [srv EXCEPT ![p] = s]
      BY <1>20 DEF NextServer, registry
    <2> QED
      BY <2>1, <1>3 DEF TypeOK
  <1>21. ASSUME NEW w \in Worker, EndSweep(w) PROVE Separate'
    BY <1>21, <1>3 DEF EndSweep
  <1>22. ASSUME NEW w \in Worker, StartAttempt(w) PROVE Separate'
    <2>1. PICK o \in State : StateFor(srv[w], o) /\ obj' = [obj EXCEPT ![w] = o]
      BY <1>22 DEF StartAttempt
    <2>2. srv' = srv /\ srv[w] \in Server
      BY <1>22 DEF StartAttempt
    <2> QED
      BY <2>1, <2>2, <1>5
  <1>23. ASSUME NEW w \in Worker, RecordSuccess(w) PROVE Separate'
    <2>1. obj' = [obj EXCEPT ![w] = None]
      BY <1>23, PutLetsGo DEF RecordSuccess
    <2> QED
      BY <2>1, <1>23, <1>2 DEF RecordSuccess
  <1>24. ASSUME NEW w \in Worker, RecordFailure(w) PROVE Separate'
    <2>1. obj' = [obj EXCEPT ![w] = None]
      BY <1>24, PutLetsGo DEF RecordFailure
    <2> QED
      BY <2>1, <1>24, <1>2 DEF RecordFailure
  <1>25. ASSUME NEW w \in Worker, StoreTools(w) PROVE Separate'
    <2>1. /\ obj[w] = None /\ states' = states /\ obj' = obj
          /\ srv' = [srv EXCEPT ![w] = None]
      BY <1>25 DEF StoreTools, Return
    <2> QED
      BY <2>1, <1>3 DEF TypeOK
  <1>26. ASSUME NEW w \in Worker, EvictTools(w) PROVE Separate'
    <2>1. /\ obj[w] = None /\ states' = states /\ obj' = obj
          /\ srv' = [srv EXCEPT ![w] = None] \/ srv' = srv
      BY <1>26 DEF EvictTools, Return
    <2> QED
      BY <2>1, <1>3 DEF TypeOK
  <1>27. ASSUME NEW w \in Worker, LookUpForRetry(w) PROVE Separate'
    <2>1. PICK o \in State : StateFor(srv[w], o) /\ obj' = [obj EXCEPT ![w] = o]
      BY <1>27 DEF LookUpForRetry
    <2>2. srv' = srv /\ srv[w] \in Server
      BY <1>27 DEF LookUpForRetry
    <2> QED
      BY <2>1, <2>2, <1>5
  <1>28. ASSUME NEW w \in Worker, NEW v \in Retrier, ScheduleRetry(w, v) PROVE Separate'
    <2>1. obj' = [obj EXCEPT ![w] = None]
      BY <1>28, PutLetsGo DEF ScheduleRetry
    <2>2. /\ states' = states
          /\ v # w => obj[v] = None
          /\ srv' = [srv EXCEPT ![w] = None, ![v] = srv[w]]
      BY <1>28 DEF ScheduleRetry
    <2>3. \A u \in Worker : obj'[u] # None => srv'[u] = srv[u]
      BY <2>1, <2>2 DEF TypeOK
    <2> QED
      BY <2>1, <2>2, <2>3, <1>2
  <1>29. ASSUME NEW r \in Retrier, TimerExpires(r) PROVE Separate'
    BY <1>29, <1>3 DEF TimerExpires, registry, local
  <1>30. ASSUME NEW r \in Retrier, RetryCancelled(r) \/ RetryFires(r) PROVE Separate'
    <2>1. /\ obj[r] = None /\ states' = states /\ obj' = obj
          /\ srv' = [srv EXCEPT ![r] = None] \/ srv' = srv
      BY <1>30 DEF RetryCancelled, RetryFires
    <2> QED
      BY <2>1, <1>3 DEF TypeOK
  <1>31. CASE UNCHANGED vars
    BY <1>31, <1>3 DEF vars, registry, local
  <1> HIDE DEF Separate, Placed, Holding, Concerned
  <1> QED
    BY <1>11, <1>12, <1>13, <1>14, <1>15, <1>16, <1>17, <1>18, <1>19, <1>20, <1>21,
       <1>22, <1>23, <1>24, <1>25, <1>26, <1>27, <1>28, <1>29, <1>30, <1>31
    DEF Next, Request, HandlerStep, TickerStep, RetryStep, Attempt

(* GarbageIsBlank. *)

LEMMA GarbageStep ==
  ASSUME TypeOK, Placed, GarbageIsBlank, [Next]_vars
  PROVE  GarbageIsBlank'
  <1> USE DEF GarbageIsBlank, Unreachable, Held
  <1>1. ASSUME status' = status, states' = states, obj' = obj PROVE GarbageIsBlank'
    BY <1>1
  <1>2. ASSUME NEW w \in Worker, NEW s \in Server, NEW o \in State, StateFor(s, o),
               obj[w] = None, obj' = [obj EXCEPT ![w] = o], status' = status
        PROVE  GarbageIsBlank'
    <2>1. /\ states'[s] = o
          /\ \A t \in Server \ {s} : states'[t] = states[t]
          /\ states[s] # o => states[s] = None
      BY <1>2, StateForEffect
    <2>2. /\ obj'[w] = o
          /\ \A v \in Worker \ {w} : obj'[v] = obj[v]
      BY <1>2 DEF TypeOK
    <2>3. ASSUME NEW u \in State, u \in Unreachable' PROVE u \in Unreachable
      <3>1. /\ \A t \in Server : states'[t] # u
            /\ \A v \in Worker : obj'[v] # u
        BY <2>3
      <3>2. \A t \in Server : states[t] # u
        BY <2>1, <3>1
      <3>3. \A v \in Worker : obj[v] # u
        BY <2>2, <3>1, <1>2
      <3> QED
        BY <3>2, <3>3
    <2> QED
      BY <2>3, <1>2
  <1>3. ASSUME NEW w \in Worker, obj[w] \in State, NEW st, NEW n, NEW channel,
               Put(w, st, n, channel), states' = states
        PROVE  GarbageIsBlank'
    <2>1. obj' = [obj EXCEPT ![w] = None]
      BY <1>3, PutLetsGo
    <2>2. ASSUME NEW u \in State, u \in Unreachable' PROVE status'[u] = "unknown"
      <3>1. /\ \A t \in Server : states[t] # u
            /\ \A v \in Worker \ {w} : obj[v] # u
        BY <1>3, <2>1, <2>2 DEF TypeOK
      <3>2. u # obj[w] => u \in Unreachable
        BY <3>1
      <3>3. \/ u # obj[w] /\ status'[u] = status[u]
            \/ status'[u] = "unknown"
        BY <1>3, <3>1, PutEffect
      <3> QED
        BY <3>2, <3>3
    <2> QED
      BY <2>2
  <1>4. ASSUME NEW c \in Configs, UpdateConfig(c), obj' = obj PROVE GarbageIsBlank'
    <2>1. \A o \in State :
            \/ status'[o] = "unknown"
            \/ o \in Held \/ \E s \in Server : states'[s] = o
      BY <1>4, UpdateConfigEffect
    <2> QED
      BY <1>4, <2>1
  <1>5. \A w \in Worker : /\ pc[w] \in Holding => obj[w] \in State
                          /\ pc[w] \notin Holding => obj[w] = None
    BY DEF Placed, TypeOK
  <1> HIDE DEF GarbageIsBlank, Unreachable, Held
  <1>11. ASSUME NEW p \in Proc, Request(p) PROVE GarbageIsBlank'
    <2>1. ASSUME NEW c \in Configs, ChangeRegistry(p, c) PROVE GarbageIsBlank'
      BY <2>1, <1>4 DEF ChangeRegistry
    <2>2. CASE \/ RequestRefresh(p)
               \/ \E s \in Server, how \in {"server", "login"} : RequestServer(p, s, how)
      BY <2>2, <1>1 DEF RequestRefresh, RequestServer, registry, record
    <2> QED
      BY <1>11, <2>1, <2>2 DEF Request
  <1>12. CASE SetAuth
    BY <1>12, <1>4 DEF SetAuth, local, TypeOK
  <1>13. ASSUME NEW w \in Worker,
                \/ LoginReturns(w)
                \/ Snapshot(w)
                \/ \E s \in Server : NextServer(w, s)
                \/ EndSweep(w)
                \/ StoreTools(w)
                \/ EvictTools(w)
         PROVE  GarbageIsBlank'
    BY <1>13, <1>1 DEF LoginReturns, Snapshot, NextServer, EndSweep, StoreTools, EvictTools,
                       registry, record
  <1>14. CASE Tick
    BY <1>14, <1>1 DEF Tick, registry, record, local
  <1>15. ASSUME NEW s \in Server, LookUp(s) PROVE GarbageIsBlank'
    <2>1. PICK o \in State : StateFor(s, o) /\ obj' = [obj EXCEPT ![Ticker] = o]
      BY <1>15 DEF LookUp
    <2>2. obj[Ticker] = None /\ status' = status
      BY <1>15, <1>5 DEF LookUp, Holding, record
    <2> QED
      BY <2>1, <2>2, <1>2
  <1>16. CASE CheckSkip
    <2>1. /\ Put(Ticker, status[obj[Ticker]], attempts[obj[Ticker]], retryCancel[obj[Ticker]])
          /\ states' = states
          /\ obj[Ticker] \in State
      BY <1>16, <1>5 DEF CheckSkip, Holding
    <2> QED
      BY <2>1, <1>3
  <1>17. ASSUME NEW w \in Worker, StartAttempt(w) \/ LookUpForRetry(w) PROVE GarbageIsBlank'
    <2>1. PICK o \in State : StateFor(srv[w], o) /\ obj' = [obj EXCEPT ![w] = o]
      BY <1>17 DEF StartAttempt, LookUpForRetry
    <2>2. obj[w] = None /\ status' = status /\ srv[w] \in Server
      BY <1>17, <1>5, PlacedAt DEF StartAttempt, LookUpForRetry, Holding, Concerned, record
    <2> QED
      BY <2>1, <2>2, <1>2
  <1>18. ASSUME NEW w \in Worker, RecordSuccess(w) PROVE GarbageIsBlank'
    <2>1. Put(w, "healthy", 0, None) /\ states' = states /\ obj[w] \in State
      BY <1>18, <1>5 DEF RecordSuccess, Holding
    <2> QED
      BY <2>1, <1>3
  <1>19. ASSUME NEW w \in Worker, RecordFailure(w) PROVE GarbageIsBlank'
    <2>1. PICK st \in Statuses : Put(w, st, CountAttempt(obj[w]), retryCancel[obj[w]])
      BY <1>19 DEF RecordFailure, FailureStatus
    <2>2. states' = states /\ obj[w] \in State
      BY <1>19, <1>5 DEF RecordFailure, Holding
    <2> QED
      BY <2>1, <2>2, <1>3
  <1>20. ASSUME NEW w \in Worker, NEW v \in Retrier, ScheduleRetry(w, v) PROVE GarbageIsBlank'
    <2>1. /\ Put(w, status[obj[w]], attempts[obj[w]], v)
          /\ states' = states /\ obj[w] \in State
      BY <1>20, <1>5 DEF ScheduleRetry, Holding
    <2> QED
      BY <2>1, <1>3
  <1>21. ASSUME NEW r \in Retrier, TimerExpires(r) \/ RetryCancelled(r) \/ RetryFires(r)
         PROVE  GarbageIsBlank'
    BY <1>21, <1>1 DEF TimerExpires, RetryCancelled, RetryFires, registry, record, local
  <1>22. CASE UNCHANGED vars
    BY <1>22, <1>1 DEF vars, registry, record, local
  <1> QED
    BY <1>11, <1>12, <1>13, <1>14, <1>15, <1>16, <1>17, <1>18, <1>19, <1>20, <1>21, <1>22
    DEF Next, HandlerStep, TickerStep, RetryStep, Attempt

(* RetryOwned. *)

LEMMA OwnedStep ==
  ASSUME TypeOK, Placed, RetryOwned, [Next]_vars
  PROVE  RetryOwned'
  <1> USE DEF RetryOwned
  <1>1. ASSUME retryCancel' = retryCancel, closed' = closed,
               \A r \in Retrier : pc[r] = "wait" => pc'[r] = "wait"
        PROVE  RetryOwned'
    BY <1>1 DEF TypeOK
  \* w records an outcome, or reads the record, and wakes nobody else.
  <1>2. ASSUME NEW w \in Worker, NEW l \in Locations, pc[w] # "wait", pc' = [pc EXCEPT ![w] = l],
               obj[w] \in State, NEW st, NEW n, NEW channel, Put(w, st, n, channel),
               \/ channel = retryCancel[obj[w]] /\ closed' = closed
               \/ channel = None /\ closed' = [r \in Retrier |->
                                                 closed[r] \/ r \in CloseChannels({obj[w]})]
        PROVE  RetryOwned'
    <2> SUFFICES ASSUME NEW o \in State, retryCancel'[o] \in Retrier
                 PROVE  /\ pc'[retryCancel'[o]] = "wait"
                        /\ ~closed'[retryCancel'[o]]
                        /\ \A u \in State : retryCancel'[u] = retryCancel'[o] => u = o
      OBVIOUS
    <2>1. \A u \in State :
            retryCancel'[u] = retryCancel[u] \/ (u = obj[w] /\ retryCancel'[u] = None)
      BY <1>2, PutEffect
    <2>2. retryCancel'[o] = retryCancel[o]
      BY <2>1
    <2>3. \A u \in State : retryCancel'[u] = retryCancel'[o] => u = o
      BY <2>1, <2>2
    <2>4. pc'[retryCancel[o]] = "wait"
      BY <1>2, <2>2 DEF TypeOK
    <2>5. ~closed'[retryCancel[o]]
      <3>1. CASE closed' = closed
        BY <2>2, <3>1
      <3>2. CASE /\ channel = None
                 /\ closed' = [r \in Retrier |-> closed[r] \/ r \in CloseChannels({obj[w]})]
        <4>1. retryCancel'[obj[w]] = None
          BY <1>2, <3>2, PutEffect
        <4>2. o # obj[w]
          BY <4>1, <2>2
        <4>3. retryCancel[o] \notin CloseChannels({obj[w]})
          BY <4>2, <2>2, <1>2 DEF CloseChannels
        <4> QED
          BY <3>2, <4>3, <2>2
      <3> QED
        BY <1>2, <3>1, <3>2
    <2> QED
      BY <2>2, <2>3, <2>4, <2>5
  <1>3. ASSUME NEW c \in Configs, UpdateConfig(c),
               \A r \in Retrier : pc[r] = "wait" => pc'[r] = "wait"
        PROVE  RetryOwned'
    <2> SUFFICES ASSUME NEW o \in State, retryCancel'[o] \in Retrier
                 PROVE  /\ pc'[retryCancel'[o]] = "wait"
                        /\ ~closed'[retryCancel'[o]]
                        /\ \A u \in State : retryCancel'[u] = retryCancel'[o] => u = o
      OBVIOUS
    <2>1. /\ \A u \in State :
               \/ u \in Dropped(c) /\ retryCancel'[u] = None
               \/ u \notin Dropped(c) /\ retryCancel'[u] = retryCancel[u]
          /\ \A r \in Retrier : closed'[r] <=> closed[r] \/ r \in CloseChannels(Dropped(c))
      BY <1>3, UpdateConfigEffect
    <2>2. o \notin Dropped(c) /\ retryCancel'[o] = retryCancel[o]
      BY <2>1
    <2>3. Dropped(c) \subseteq State
      BY DEF Dropped, TypeOK
    <2>4. retryCancel[o] \notin CloseChannels(Dropped(c))
      BY <2>2, <2>3 DEF CloseChannels
    <2>5. \A u \in State : retryCancel'[u] = retryCancel'[o] => u = o
      BY <2>1, <2>2
    <2> QED
      BY <2>1, <2>2, <2>4, <2>5, <1>3
  <1>4. ASSUME NEW r \in Retrier, LeaveSelect(r),
               \A q \in Retrier \ {r} : pc'[q] = pc[q]
        PROVE  RetryOwned'
    BY <1>4 DEF LeaveSelect, TypeOK
  <1>5. \A w \in Worker : pc[w] \in Holding => obj[w] \in State
    BY DEF Placed, TypeOK
  <1> HIDE DEF RetryOwned
  <1>11. ASSUME NEW p \in Proc, Request(p) PROVE RetryOwned'
    <2>1. ASSUME NEW c \in Configs, ChangeRegistry(p, c) PROVE RetryOwned'
      <3>1. \A r \in Retrier : pc[r] = "wait" => pc'[r] = "wait"
        BY <2>1 DEF ChangeRegistry, TypeOK
      <3> QED
        BY <2>1, <3>1, <1>3 DEF ChangeRegistry
    <2>2. CASE \/ RequestRefresh(p)
               \/ \E s \in Server, how \in {"server", "login"} : RequestServer(p, s, how)
      <3>1. \A r \in Retrier : pc[r] = "wait" => pc'[r] = "wait"
        BY <2>2 DEF RequestRefresh, RequestServer, TypeOK
      <3> QED
        BY <2>2, <3>1, <1>1 DEF RequestRefresh, RequestServer, registry, record, timers
    <2> QED
      BY <1>11, <2>1, <2>2 DEF Request
  <1>12. CASE SetAuth
    BY <1>12, <1>3 DEF SetAuth, TypeOK
  <1>13. ASSUME NEW w \in Worker,
                \/ LoginReturns(w)
                \/ Snapshot(w)
                \/ \E s \in Server : NextServer(w, s)
                \/ EndSweep(w)
                \/ StartAttempt(w)
                \/ StoreTools(w)
                \/ EvictTools(w)
                \/ LookUpForRetry(w)
         PROVE  RetryOwned'
    <2>1. retryCancel' = retryCancel /\ closed' = closed
      BY <1>13 DEF LoginReturns, Snapshot, NextServer, EndSweep, StartAttempt, StoreTools,
                   EvictTools, LookUpForRetry, registry, record, timers
    <2>2. pc[w] # "wait" /\ \E l \in Locations : pc' = [pc EXCEPT ![w] = l]
      BY <1>13 DEF LoginReturns, Snapshot, NextServer, EndSweep, StartAttempt, StoreTools,
                   EvictTools, LookUpForRetry, Return
    <2> QED
      BY <2>1, <2>2, <1>1 DEF TypeOK
  <1>14. CASE Tick
    BY <1>14, <1>1 DEF Tick, registry, record, timers, TypeOK
  <1>15. ASSUME NEW s \in Server, LookUp(s) PROVE RetryOwned'
    BY <1>15, <1>1 DEF LookUp, record, timers, TypeOK
  <1>16. CASE CheckSkip
    <2>1. /\ Put(Ticker, status[obj[Ticker]], attempts[obj[Ticker]], retryCancel[obj[Ticker]])
          /\ closed' = closed
          /\ obj[Ticker] \in State
          /\ pc[Ticker] # "wait"
      BY <1>16, <1>5 DEF CheckSkip, Holding
    <2>2. PICK l \in Locations : pc' = [pc EXCEPT ![Ticker] = l]
      BY <1>16 DEF CheckSkip
    <2> QED
      BY <2>1, <2>2, <1>2
  <1>17. ASSUME NEW w \in Worker, RecordSuccess(w) PROVE RetryOwned'
    <2>1. /\ Put(w, "healthy", 0, None)
          /\ closed' = [r \in Retrier |-> closed[r] \/ r \in CloseChannels({obj[w]})]
          /\ obj[w] \in State
          /\ pc[w] # "wait"
          /\ pc' = [pc EXCEPT ![w] = "store"]
      BY <1>17, <1>5 DEF RecordSuccess, Holding
    <2> QED
      BY <2>1, <1>2
  <1>18. ASSUME NEW w \in Worker, RecordFailure(w) PROVE RetryOwned'
    <2>1. PICK st \in Statuses : Put(w, st, CountAttempt(obj[w]), retryCancel[obj[w]])
      BY <1>18 DEF RecordFailure, FailureStatus
    <2>2. closed' = closed /\ obj[w] \in State /\ pc[w] # "wait"
      BY <1>18, <1>5 DEF RecordFailure, Holding
    <2>3. PICK l \in Locations : pc' = [pc EXCEPT ![w] = l]
      BY <1>18 DEF RecordFailure
    <2> QED
      BY <2>1, <2>2, <2>3, <1>2
  <1>19. ASSUME NEW w \in Worker, NEW v \in Retrier, ScheduleRetry(w, v) PROVE RetryOwned'
    <2> SUFFICES ASSUME NEW o \in State, retryCancel'[o] \in Retrier
                 PROVE  /\ pc'[retryCancel'[o]] = "wait"
                        /\ ~closed'[retryCancel'[o]]
                        /\ \A u \in State : retryCancel'[u] = retryCancel'[o] => u = o
      BY DEF RetryOwned
    <2>1. /\ Put(w, status[obj[w]], attempts[obj[w]], v)
          /\ closed' = [r \in Retrier |-> r # v /\ (closed[r] \/ r \in CloseChannels({obj[w]}))]
          /\ obj[w] \in State
          /\ pc[w] # "wait" /\ pc[v] # "wait"
          /\ pc' = [pc EXCEPT ![w] = IF Loops(w) THEN "loop" ELSE "idle", ![v] = "wait"]
      BY <1>19, <1>5 DEF ScheduleRetry, Holding
    <2>2. \A u \in State :
            \/ u # obj[w] /\ retryCancel'[u] = retryCancel[u]
            \/ u = obj[w] /\ retryCancel'[u] \in {v, None}
      BY <2>1, PutEffect
    <2>3. \A u \in State : retryCancel[u] # v
      BY <2>1 DEF RetryOwned
    <2>4. \A u \in State : retryCancel'[u] = retryCancel'[o] => u = o
      BY <2>2, <2>3 DEF RetryOwned
    <2>5. CASE o = obj[w]
      BY <2>1, <2>2, <2>4, <2>5 DEF TypeOK
    <2>6. CASE o # obj[w]
      <3>1. retryCancel'[o] = retryCancel[o] /\ retryCancel[o] # v
        BY <2>2, <2>3, <2>6
      <3>2. pc[retryCancel[o]] = "wait" /\ ~closed[retryCancel[o]]
        BY <3>1 DEF RetryOwned
      <3>3. retryCancel[o] \notin CloseChannels({obj[w]})
        BY <2>1, <2>6, <3>1 DEF CloseChannels, RetryOwned
      <3> QED
        BY <2>1, <2>4, <3>1, <3>2, <3>3 DEF TypeOK
    <2> QED
      BY <2>5, <2>6
  <1>20. ASSUME NEW r \in Retrier, TimerExpires(r) PROVE RetryOwned'
    BY <1>20, <1>1 DEF TimerExpires, registry, record
  <1>21. ASSUME NEW r \in Retrier, RetryCancelled(r) \/ RetryFires(r) PROVE RetryOwned'
    <2>1. /\ LeaveSelect(r)
          /\ \E l \in Locations : pc' = [pc EXCEPT ![r] = l]
      BY <1>21 DEF RetryCancelled, RetryFires
    <2> QED
      BY <2>1, <1>4 DEF TypeOK
  <1>22. CASE UNCHANGED vars
    BY <1>22, <1>1 DEF vars, registry, record, timers
  <1> QED
    BY <1>11, <1>12, <1>13, <1>14, <1>15, <1>16, <1>17, <1>18, <1>19, <1>20, <1>21, <1>22
    DEF Next, HandlerStep, TickerStep, RetryStep, Attempt

(* NoLostRetry: what covers a failing server is passed on from goroutine to *)
(* goroutine.                                                               *)

\* Goroutines outside M do not move.
OthersStay(M) ==
  /\ \A w \in Worker \ M : /\ pc'[w] = pc[w]
                            /\ srv'[w] = srv[w]
                            /\ obj'[w] = obj[w]
                            /\ snap'[w] = snap[w]
  /\ \A p \in Proc \ M : sweep'[p] = sweep[p]

\* Each goroutine of M that covered s passes it on.
LEMMA CoverPassesOn ==
  ASSUME TypeOK, NEW s \in Server, NEW M, Covered(s),
         states'[s] = states[s],
         OthersStay(M),
         \A r \in Retrier \ M :
           RetryPending(r, s) => retryCancel'[states[s]] = r /\ ~closed'[r],
         \A w \in M : SweepWillReach(w, s) \/ AttemptWillSettle(w, s) => Covered(s)',
         \A r \in M : RetryPending(r, s) => Covered(s)'
  PROVE  Covered(s)'
  <1>1. ASSUME NEW w \in Worker \ M, SweepWillReach(w, s) PROVE Covered(s)'
    BY <1>1 DEF Covered, SweepWillReach, OthersStay
  <1>2. ASSUME NEW w \in Worker \ M, AttemptWillSettle(w, s) PROVE Covered(s)'
    BY <1>2 DEF Covered, AttemptWillSettle, OthersStay
  <1>3. ASSUME NEW r \in Retrier \ M, RetryPending(r, s) PROVE Covered(s)'
    BY <1>3 DEF Covered, RetryPending, OthersStay
  <1> QED
    BY <1>1, <1>2, <1>3 DEF Covered

\* A sweep that has read the configuration still has s before it.
LEMMA SweepGoesOn ==
  ASSUME NEW w \in Worker, NEW s \in Server, SweepWillReach(w, s), pc[w] # "begin",
         sweep' = sweep, snap' = snap
  PROVE  Covered(s)'
  BY DEF SweepWillReach, Covered

\* A step that leaves the record of s alone keeps s covered.
LEMMA StillCovered ==
  ASSUME TypeOK, NoLostRetry, NEW s \in Server, NEW M, OthersStay(M),
         cfg[s] # None, states[s] # None => status'[states[s]] = status[states[s]],
         states'[s] = states[s], Failing(s)',
         \A r \in Retrier \ M :
           RetryPending(r, s) => retryCancel'[states[s]] = r /\ ~closed'[r],
         \A w \in M : SweepWillReach(w, s) \/ AttemptWillSettle(w, s) => Covered(s)',
         \A r \in M : RetryPending(r, s) => Covered(s)'
  PROVE  Covered(s)'
  <1>1. Configured(s) /\ Failing(s)
    BY DEF Configured, Failing
  <1>2. Covered(s)
    BY <1>1 DEF NoLostRetry
  <1> QED
    BY <1>2, CoverPassesOn

\* What StateFor returns for another server does not change s; a record that s gets
\* from it is blank.
LEMMA StateForOf ==
  ASSUME TypeOK, GarbageIsBlank, NEW t \in Server, NEW o \in State, StateFor(t, o),
         status' = status, NEW s \in Server, Failing(s)'
  PROVE  states'[s] = states[s]
  <1>1. /\ states'[t] = o
        /\ \A x \in Server \ {t} : states'[x] = states[x]
        /\ states[t] # o => states[t] = None /\ o \in Unreachable
    BY StateForEffect
  <1>2. CASE s = t /\ states[t] # o
    <2>1. status'[states'[s]] = "unknown"
      BY <1>1, <1>2 DEF GarbageIsBlank
    <2> QED
      BY <2>1 DEF Failing
  <1> QED
    BY <1>1, <1>2

\* UpdateConfig keeps the record, the status and the pending retry of a server that
\* stays configured.
LEMMA UpdateConfigOf ==
  ASSUME TypeOK, Separate, GarbageIsBlank, RetryOwned, NEW c \in Configs, UpdateConfig(c),
         NEW s \in Server, c[s] # None, Failing(s)'
  PROVE  /\ states'[s] = states[s]
         /\ status'[states[s]] = status[states[s]]
         /\ \A r \in Retrier :
              RetryPending(r, s) => retryCancel'[states[s]] = r /\ ~closed'[r]
  <1>1. /\ \/ states'[s] = states[s]
           \/ states[s] = None /\ states'[s] \in Unreachable
        /\ \A o \in State : o \notin Dropped(c) => retryCancel'[o] = retryCancel[o]
        /\ \A o \in State : (\E t \in Server : states'[t] = o) => status'[o] = status[o]
        /\ \A r \in Retrier : closed'[r] <=> closed[r] \/ r \in CloseChannels(Dropped(c))
    BY UpdateConfigEffect
  <1>2. states'[s] # None /\ status'[states'[s]] # "unknown"
    BY DEF Failing
  <1>3. states'[s] = states[s]
    <2> SUFFICES ASSUME states'[s] \in Unreachable PROVE FALSE
      BY <1>1
    <2>1. states'[s] \in State /\ status[states'[s]] = "unknown"
      BY DEF GarbageIsBlank, Unreachable
    <2> QED
      BY <1>1, <1>2, <2>1
  <1>4. states[s] \in State
    BY <1>2, <1>3 DEF TypeOK
  <1>5. states[s] \notin Dropped(c)
    BY <1>2, <1>3 DEF Dropped, Separate
  <1>6. ASSUME NEW r \in Retrier, RetryPending(r, s) PROVE ~closed'[r]
    <2>1. retryCancel[states[s]] = r /\ ~closed[r]
      BY <1>6 DEF RetryPending
    <2>2. Dropped(c) \subseteq State
      BY DEF Dropped, TypeOK
    <2>3. r \notin CloseChannels(Dropped(c))
      BY <1>4, <1>5, <2>1, <2>2 DEF CloseChannels, RetryOwned
    <2> QED
      BY <1>1, <2>1, <2>3
  <1>7. status'[states[s]] = status[states[s]]
    BY <1>1, <1>3, <1>4
  <1>8. \A r \in Retrier : RetryPending(r, s) => retryCancel'[states[s]] = r
    BY <1>1, <1>4, <1>5 DEF RetryPending
  <1> QED
    BY <1>3, <1>6, <1>7, <1>8

LEMMA LostStep ==
  ASSUME TypeOK, Placed, Separate, GarbageIsBlank, RetryOwned, NoLostRetry, [Next]_vars
  PROVE  NoLostRetry'
  <1> SUFFICES ASSUME NEW s \in Server, cfg'[s] # None, Failing(s)'
               PROVE  Covered(s)'
    BY DEF NoLostRetry, Configured
  \* The step belongs to w, and the records and retries stay as they are.
  <1>1. ASSUME NEW w \in Worker, OthersStay({w}), cfg' = cfg, states' = states,
               status' = status, retryCancel' = retryCancel, closed' = closed,
               SweepWillReach(w, s) \/ AttemptWillSettle(w, s) => Covered(s)',
               pc[w] # "wait"
        PROVE  Covered(s)'
    <2>1. \A r \in Retrier : RetryPending(r, s) => retryCancel'[states[s]] = r /\ ~closed'[r]
      BY <1>1 DEF RetryPending
    <2>2. ~RetryPending(w, s)
      BY <1>1 DEF RetryPending
    <2> QED
      BY <1>1, <2>1, <2>2, StillCovered
  <1>2. ASSUME NEW w \in Worker, NEW l \in Locations, pc' = [pc EXCEPT ![w] = l],
               \/ srv' = srv
               \/ \E x : srv' = [srv EXCEPT ![w] = x],
               \/ obj' = obj
               \/ \E x : obj' = [obj EXCEPT ![w] = x],
               \/ snap' = snap
               \/ \E x : snap' = [snap EXCEPT ![w] = x],
               \/ sweep' = sweep
               \/ \E x : sweep' = [sweep EXCEPT ![w] = x]
        PROVE  OthersStay({w})
    BY <1>2 DEF OthersStay, TypeOK
  \* w sets the record that it holds, and no retry but the one of that record changes.
  <1>3. ASSUME NEW w \in Worker, obj[w] \in State, states[s] # obj[w],
               NEW st, NEW n, NEW channel, Put(w, st, n, channel)
        PROVE  /\ states[s] # None => status'[states[s]] = status[states[s]]
               /\ states[s] # None => retryCancel'[states[s]] = retryCancel[states[s]]
               /\ \A r \in Retrier :
                    states[s] # None /\ RetryPending(r, s) => r \notin CloseChannels({obj[w]})
    <2>1. states[s] # None =>
            /\ status'[states[s]] = status[states[s]]
            /\ retryCancel'[states[s]] = retryCancel[states[s]]
      <3> SUFFICES ASSUME states[s] # None
                   PROVE  /\ status'[states[s]] = status[states[s]]
                          /\ retryCancel'[states[s]] = retryCancel[states[s]]
        OBVIOUS
      <3>1. states[s] \in State
        BY DEF TypeOK
      <3> QED
        BY <1>3, <3>1, PutEffect
    <2>2. ASSUME NEW r \in Retrier, states[s] # None, RetryPending(r, s)
          PROVE  r \notin CloseChannels({obj[w]})
      <3>1. states[s] \in State /\ retryCancel[states[s]] = r
        BY <2>2 DEF TypeOK, RetryPending
      <3> QED
        BY <1>3, <3>1 DEF CloseChannels, RetryOwned
    <2> QED
      BY <2>1, <2>2
  <1>4. \A w \in Worker : /\ pc[w] \in Holding => obj[w] \in State
                          /\ pc[w] \in Concerned => srv[w] \in Server
    BY PlacedAt
  <1>5. ASSUME NEW w \in Worker, SweepWillReach(w, s), sweep'[w] = sweep[w],
               snap'[w][s] = snap[w][s], pc[w] # "begin"
        PROVE  Covered(s)'
    BY <1>5 DEF SweepWillReach, Covered
  <1>6. ASSUME NEW w \in Worker, srv'[w] = s, pc'[w] \in {"start", "evict", "backoff"}
        PROVE  Covered(s)'
    BY <1>6 DEF AttemptWillSettle, Covered
  <1>7. ASSUME NEW w \in Worker, srv'[w] = s, pc'[w] \in {"fetch", "schedule"},
               obj'[w] = states'[s]
        PROVE  Covered(s)'
    BY <1>7 DEF AttemptWillSettle, Covered
  <1>8. ASSUME NEW p \in Proc, RequestRefresh(p) PROVE Covered(s)'
    <2>1. pc'[p] = "begin" /\ sweep'[p] = TRUE
      BY <1>8 DEF RequestRefresh, TypeOK
    <2>2. SweepWillReach(p, s)'
      BY <2>1 DEF SweepWillReach
    <2>3. Covered(s)'
      BY <2>2 DEF Covered
    <2> QED BY <2>3
  <1>9. ASSUME NEW p \in Proc, NEW t \in Server, NEW how \in {"server", "login"},
               RequestServer(p, t, how)
        PROVE  Covered(s)'
    <2>1. \E l \in Locations : pc' = [pc EXCEPT ![p] = l]
      BY <1>9 DEF RequestServer
    <2>2. OthersStay({p})
      BY <1>9, <2>1, <1>2 DEF RequestServer
    <2>3. ~AttemptWillSettle(p, s)
      BY <1>9 DEF RequestServer, AttemptWillSettle
    <2>4. SweepWillReach(p, s) => Covered(s)'
      BY <1>9, <1>5 DEF RequestServer
    <2> QED
      BY <1>9, <2>2, <2>3, <2>4, <1>1 DEF RequestServer, registry, record, timers
  <1>10. ASSUME NEW p \in Proc, NEW c \in Configs, ChangeRegistry(p, c) PROVE Covered(s)'
    <2>1. pc'[p] = "begin" /\ sweep'[p] = TRUE
      BY <1>10 DEF ChangeRegistry, TypeOK
    <2>2. SweepWillReach(p, s)'
      BY <2>1 DEF SweepWillReach
    <2> QED
      BY <2>2 DEF Covered
  <1>11. CASE SetAuth
    <2>1. UpdateConfig(cfg) /\ cfg \in Configs
      BY <1>11 DEF SetAuth, TypeOK
    <2>2. cfg[s] # None
      BY <2>1, UpdateConfigEffect
    <2>3. /\ states'[s] = states[s]
          /\ status'[states[s]] = status[states[s]]
          /\ \A r \in Retrier :
               RetryPending(r, s) => retryCancel'[states[s]] = r /\ ~closed'[r]
      BY <2>1, <2>2, UpdateConfigOf
    <2>4. OthersStay({})
      BY <1>11 DEF SetAuth, local, OthersStay
    <2> QED
      BY <2>2, <2>3, <2>4, StillCovered
  <1>12. ASSUME NEW p \in Proc, LoginReturns(p) PROVE Covered(s)'
    <2>1. \E l \in Locations : pc' = [pc EXCEPT ![p] = l]
      BY <1>12 DEF LoginReturns
    <2>2. OthersStay({p})
      BY <1>12, <2>1, <1>2 DEF LoginReturns
    <2>3. ~AttemptWillSettle(p, s)
      BY <1>12 DEF LoginReturns, AttemptWillSettle
    <2>4. SweepWillReach(p, s) => Covered(s)'
      BY <1>12, <1>5 DEF LoginReturns
    <2> QED
      BY <1>12, <2>2, <2>3, <2>4, <1>1 DEF LoginReturns, registry, record, timers
  <1>13. CASE Tick
    <2>1. OthersStay({Ticker})
      BY <1>13, <1>2 DEF Tick, local
    <2>2. ~SweepWillReach(Ticker, s) /\ ~AttemptWillSettle(Ticker, s)
      BY <1>13 DEF Tick, SweepWillReach, AttemptWillSettle
    <2> QED
      BY <1>13, <2>1, <2>2, <1>1 DEF Tick, registry, record, timers
  <1>14. ASSUME NEW w \in Worker, Snapshot(w) PROVE Covered(s)'
    <2>1. OthersStay({w})
      BY <1>14, <1>2 DEF Snapshot
    <2>2. ~AttemptWillSettle(w, s)
      BY <1>14 DEF Snapshot, AttemptWillSettle
    <2>3. SweepWillReach(w, s) => SweepWillReach(w, s)'
      BY <1>14 DEF Snapshot, SweepWillReach, TypeOK, registry
    <2>4. SweepWillReach(w, s) => Covered(s)'
      BY <2>3 DEF Covered
    <2> QED
      BY <1>14, <2>1, <2>2, <2>4, <1>1 DEF Snapshot, registry, record
  <1>15. ASSUME NEW t \in Server, LookUp(t) PROVE Covered(s)'
    <2>1. PICK o \in State : StateFor(t, o) /\ obj' = [obj EXCEPT ![Ticker] = o]
      BY <1>15 DEF LookUp
    <2>2. states'[s] = states[s]
      BY <1>15, <2>1, StateForOf DEF LookUp, record
    <2>3. OthersStay({Ticker})
      BY <1>15, <2>1, <1>2 DEF LookUp
    <2>4. /\ ~SweepWillReach(Ticker, s) /\ ~AttemptWillSettle(Ticker, s)
          /\ ~RetryPending(Ticker, s)
      BY <1>15 DEF LookUp, SweepWillReach, AttemptWillSettle, RetryPending
    <2>5. \A r \in Retrier : RetryPending(r, s) => retryCancel'[states[s]] = r /\ ~closed'[r]
      BY <1>15 DEF LookUp, record, timers, RetryPending
    <2> QED
      BY <1>15, <2>2, <2>3, <2>4, <2>5, StillCovered DEF LookUp, record
  <1>16. CASE CheckSkip
    <2> DEFINE o == obj[Ticker]
    <2>1. /\ Put(Ticker, status[o], attempts[o], retryCancel[o])
          /\ o \in State /\ obj' = [obj EXCEPT ![Ticker] = None]
      BY <1>16, <1>4, PutLetsGo DEF CheckSkip, Holding
    <2>2. states[s] # None => /\ status'[states[s]] = status[states[s]]
                              /\ retryCancel'[states[s]] = retryCancel[states[s]]
      <3> SUFFICES ASSUME states[s] # None
                   PROVE  /\ status'[states[s]] = status[states[s]]
                          /\ retryCancel'[states[s]] = retryCancel[states[s]]
        OBVIOUS
      <3>1. states[s] \in State
        BY DEF TypeOK
      <3> QED
        BY <2>1, <3>1, PutEffect
    <2>3. OthersStay({Ticker})
      <3>1. \E l \in Locations : pc' = [pc EXCEPT ![Ticker] = l]
        BY <1>16 DEF CheckSkip
      <3> QED
        BY <1>16, <2>1, <3>1, <1>2 DEF CheckSkip
    <2>4. /\ ~SweepWillReach(Ticker, s) /\ ~AttemptWillSettle(Ticker, s)
          /\ ~RetryPending(Ticker, s)
      BY <1>16 DEF CheckSkip, SweepWillReach, AttemptWillSettle, RetryPending
    <2>5. cfg' = cfg /\ states' = states /\ closed' = closed
      BY <1>16 DEF CheckSkip
    <2>6. \A r \in Retrier : RetryPending(r, s) => retryCancel'[states[s]] = r /\ ~closed'[r]
      BY <2>2, <2>5 DEF RetryPending, Failing
    <2> QED
      BY <2>2, <2>3, <2>4, <2>5, <2>6, StillCovered
  <1>17. ASSUME NEW p \in Proc, NEW t \in Server, NextServer(p, t) PROVE Covered(s)'
    <2>1. OthersStay({p})
      BY <1>17, <1>2 DEF NextServer
    <2>2. ~AttemptWillSettle(p, s)
      BY <1>17 DEF NextServer, AttemptWillSettle
    <2>3. SweepWillReach(p, s) => Covered(s)'
      <3>1. CASE t = s
        BY <1>17, <3>1, <1>6 DEF NextServer, TypeOK
      <3>2. CASE t # s
        BY <1>17, <3>2, <1>5 DEF NextServer, TypeOK
      <3> QED
        BY <3>1, <3>2
    <2> QED
      BY <1>17, <2>1, <2>2, <2>3, <1>1 DEF NextServer, registry, record, timers
  <1>18. ASSUME NEW w \in Worker, EndSweep(w) PROVE Covered(s)'
    <2>1. OthersStay({w})
      BY <1>18 DEF EndSweep, OthersStay, TypeOK
    <2>2. ~AttemptWillSettle(w, s) /\ ~SweepWillReach(w, s)
      BY <1>18 DEF EndSweep, AttemptWillSettle, SweepWillReach
    <2> QED
      BY <1>18, <2>1, <2>2, <1>1 DEF EndSweep, record
  <1>19. ASSUME NEW w \in Worker, StartAttempt(w) \/ LookUpForRetry(w) PROVE Covered(s)'
    <2>1. PICK o \in State : StateFor(srv[w], o) /\ obj' = [obj EXCEPT ![w] = o]
      BY <1>19 DEF StartAttempt, LookUpForRetry
    <2>2. /\ srv[w] \in Server /\ pc[w] # "wait" /\ pc[w] # "begin"
          /\ cfg' = cfg /\ closed' = closed /\ status' = status /\ retryCancel' = retryCancel
          /\ sweep' = sweep /\ snap' = snap /\ srv' = srv
      BY <1>19, <1>4 DEF StartAttempt, LookUpForRetry, Concerned, record, timers
    <2>3. states'[s] = states[s]
      BY <2>1, <2>2, StateForOf
    <2>4. PICK l \in {"fetch", "schedule"} : pc' = [pc EXCEPT ![w] = l]
      BY <1>19 DEF StartAttempt, LookUpForRetry
    <2>5. OthersStay({w})
      BY <2>1, <2>2, <2>4, <1>2
    <2>6. SweepWillReach(w, s) => Covered(s)'
      BY <2>2, <1>5
    <2>7. AttemptWillSettle(w, s) => Covered(s)'
      <3> SUFFICES ASSUME AttemptWillSettle(w, s) PROVE Covered(s)'
        OBVIOUS
      <3>1. srv[w] = s
        BY DEF AttemptWillSettle
      <3>2. obj'[w] = states'[s]
        BY <2>1, <3>1, StateForEffect DEF TypeOK
      <3>3. pc'[w] \in {"fetch", "schedule"} /\ srv'[w] = s
        BY <2>2, <2>4, <3>1 DEF TypeOK
      <3> QED
        BY <3>2, <3>3, <1>7
    <2>8. \A r \in Retrier : RetryPending(r, s) => retryCancel'[states[s]] = r /\ ~closed'[r]
      BY <2>2 DEF RetryPending
    <2>9. ~RetryPending(w, s)
      BY <2>2 DEF RetryPending
    <2> QED
      BY <2>2, <2>3, <2>5, <2>6, <2>7, <2>8, <2>9, StillCovered
  <1>20. ASSUME NEW w \in Worker, RecordSuccess(w) PROVE Covered(s)'
    <2>1. /\ Put(w, "healthy", 0, None) /\ obj[w] \in State
          /\ obj' = [obj EXCEPT ![w] = None]
          /\ closed' = [r \in Retrier |-> closed[r] \/ r \in CloseChannels({obj[w]})]
          /\ cfg' = cfg /\ states' = states /\ sweep' = sweep /\ snap' = snap /\ srv' = srv
          /\ pc[w] = "fetch" /\ pc' = [pc EXCEPT ![w] = "store"]
      BY <1>20, <1>4, PutLetsGo DEF RecordSuccess, Holding
    <2>2. states[s] # obj[w]
      <3> SUFFICES ASSUME states[s] = obj[w] PROVE FALSE
        OBVIOUS
      <3>1. status'[states[s]] \in {"healthy", "unknown"}
        BY <2>1, PutEffect
      <3> QED
        BY <2>1, <3>1 DEF Failing
    <2>3. /\ states[s] # None => status'[states[s]] = status[states[s]]
          /\ states[s] # None => retryCancel'[states[s]] = retryCancel[states[s]]
          /\ \A r \in Retrier :
               states[s] # None /\ RetryPending(r, s) => r \notin CloseChannels({obj[w]})
      BY <2>1, <2>2, <1>3
    <2>4. \A r \in Retrier : RetryPending(r, s) => retryCancel'[states[s]] = r /\ ~closed'[r]
      BY <2>1, <2>3 DEF RetryPending, Failing
    <2>5. OthersStay({w})
      BY <2>1, <1>2
    <2>6. ~AttemptWillSettle(w, s) /\ ~RetryPending(w, s)
      BY <2>1, <2>2 DEF AttemptWillSettle, RetryPending
    <2>7. SweepWillReach(w, s) => Covered(s)'
      BY <2>1, <1>5
    <2> QED
      BY <2>1, <2>3, <2>4, <2>5, <2>6, <2>7, StillCovered
  <1>21. ASSUME NEW w \in Worker, RecordFailure(w) PROVE Covered(s)'
    <2>1. PICK st \in Statuses, l \in {"park", "evict"} :
            /\ Put(w, st, CountAttempt(obj[w]), retryCancel[obj[w]])
            /\ pc' = [pc EXCEPT ![w] = l]
            /\ l = "park" => st = "auth_required"
      BY <1>21 DEF RecordFailure, FailureStatus
    <2>2. /\ obj[w] \in State
          /\ obj' = [obj EXCEPT ![w] = None]
          /\ closed' = closed
          /\ cfg' = cfg /\ states' = states /\ sweep' = sweep /\ snap' = snap /\ srv' = srv
          /\ pc[w] = "fetch"
      BY <1>21, <1>4, <2>1, PutLetsGo DEF RecordFailure, Holding
    <2>3. CASE states[s] = obj[w]
      <3>1. l # "park"
        <4> SUFFICES ASSUME l = "park" PROVE FALSE
          OBVIOUS
        <4>1. status'[states[s]] \in {"auth_required", "unknown"}
          BY <2>1, <2>2, <2>3, PutEffect
        <4> QED
          BY <2>2, <4>1 DEF Failing
      <3>2. srv[w] = s
        BY <2>2, <2>3 DEF Separate
      <3> QED
        BY <2>1, <2>2, <3>1, <3>2, <1>6 DEF TypeOK
    <2>4. CASE states[s] # obj[w]
      <3>1. /\ states[s] # None => status'[states[s]] = status[states[s]]
            /\ states[s] # None => retryCancel'[states[s]] = retryCancel[states[s]]
        BY <2>1, <2>2, <2>4, <1>3
      <3>2. \A r \in Retrier : RetryPending(r, s) => retryCancel'[states[s]] = r /\ ~closed'[r]
        BY <2>2, <3>1 DEF RetryPending, Failing
      <3>3. OthersStay({w})
        BY <2>1, <2>2, <1>2
      <3>4. ~AttemptWillSettle(w, s) /\ ~RetryPending(w, s)
        BY <2>2, <2>4 DEF AttemptWillSettle, RetryPending
      <3>5. SweepWillReach(w, s) => Covered(s)'
        BY <2>2, <1>5
      <3> QED
        BY <2>2, <3>1, <3>2, <3>3, <3>4, <3>5, StillCovered
    <2> QED
      BY <2>3, <2>4
  <1>22. ASSUME NEW w \in Worker, StoreTools(w) PROVE Covered(s)'
    <2>1. OthersStay({w})
      <3>1. \E l \in Locations : pc' = [pc EXCEPT ![w] = l]
        BY <1>22 DEF StoreTools, Return
      <3> QED
        BY <1>22, <3>1, <1>2 DEF StoreTools, Return
    <2>2. ~AttemptWillSettle(w, s)
      BY <1>22 DEF StoreTools, AttemptWillSettle
    <2>3. SweepWillReach(w, s) => Covered(s)'
      BY <1>22, <1>5 DEF StoreTools
    <2> QED
      BY <1>22, <2>1, <2>2, <2>3, <1>1 DEF StoreTools, record, timers
  <1>23. ASSUME NEW w \in Worker, EvictTools(w) PROVE Covered(s)'
    <2>1. OthersStay({w})
      <3>1. \E l \in Locations : pc' = [pc EXCEPT ![w] = l]
        BY <1>23 DEF EvictTools, Return
      <3> QED
        BY <1>23, <3>1, <1>2 DEF EvictTools, Return
    <2>2. AttemptWillSettle(w, s) => srv'[w] = s /\ pc'[w] = "backoff"
      BY <1>23 DEF EvictTools, AttemptWillSettle, TypeOK
    <2>3. SweepWillReach(w, s) => Covered(s)'
      BY <1>23, <1>5 DEF EvictTools
    <2> QED
      BY <1>23, <2>1, <2>2, <2>3, <1>1, <1>6 DEF EvictTools, record, timers
  <1>24. ASSUME NEW w \in Worker, NEW v \in Retrier, ScheduleRetry(w, v) PROVE Covered(s)'
    <2>1. /\ Put(w, status[obj[w]], attempts[obj[w]], v) /\ obj[w] \in State
          /\ obj' = [obj EXCEPT ![w] = None]
          /\ closed' = [r \in Retrier |-> r # v /\ (closed[r] \/ r \in CloseChannels({obj[w]}))]
          /\ cfg' = cfg /\ states' = states /\ sweep' = sweep /\ snap' = snap
          /\ srv' = [srv EXCEPT ![w] = None, ![v] = srv[w]]
          /\ pc[w] = "schedule" /\ (pc[v] = "idle" \/ v = w)
          /\ pc' = [pc EXCEPT ![w] = IF Loops(w) THEN "loop" ELSE "idle", ![v] = "wait"]
      BY <1>24, <1>4, PutLetsGo DEF ScheduleRetry, Holding
    <2>2. CASE states[s] = obj[w]
      <3>1. srv[w] = s
        BY <2>1, <2>2 DEF Separate
      <3>2. retryCancel'[states[s]] = v
        BY <2>1, <2>2, PutEffect
      <3>3. pc'[v] = "wait" /\ srv'[v] = s /\ ~closed'[v]
        BY <2>1, <3>1 DEF TypeOK
      <3>4. RetryPending(v, s)'
        BY <2>1, <3>2, <3>3 DEF RetryPending
      <3> QED
        BY <3>4 DEF Covered
    <2>3. CASE states[s] # obj[w]
      <3>1. /\ states[s] # None => status'[states[s]] = status[states[s]]
            /\ states[s] # None => retryCancel'[states[s]] = retryCancel[states[s]]
            /\ \A r \in Retrier :
                 states[s] # None /\ RetryPending(r, s) => r \notin CloseChannels({obj[w]})
        BY <2>1, <2>3, <1>3
      <3>2. \A r \in Retrier : RetryPending(r, s) => retryCancel'[states[s]] = r /\ ~closed'[r]
        BY <2>1, <3>1 DEF RetryPending, Failing
      <3>3. OthersStay({w, v})
        BY <2>1 DEF OthersStay, TypeOK
      <3>4. /\ ~AttemptWillSettle(w, s) /\ ~RetryPending(w, s)
            /\ ~AttemptWillSettle(v, s) /\ ~RetryPending(v, s) /\ ~SweepWillReach(v, s)
        BY <2>1, <2>3 DEF AttemptWillSettle, RetryPending, SweepWillReach
      <3>5. SweepWillReach(w, s) => Covered(s)'
        BY <2>1, <1>5
      <3> QED
        BY <2>1, <3>1, <3>2, <3>3, <3>4, <3>5, StillCovered
    <2> QED
      BY <2>2, <2>3
  <1>25. ASSUME NEW r \in Retrier, TimerExpires(r) PROVE Covered(s)'
    <2>1. OthersStay({})
      BY <1>25 DEF TimerExpires, local, OthersStay
    <2>2. \A q \in Retrier : RetryPending(q, s) => retryCancel'[states[s]] = q /\ ~closed'[q]
      BY <1>25 DEF TimerExpires, registry, record, RetryPending
    <2> QED
      BY <1>25, <2>1, <2>2, StillCovered DEF TimerExpires, registry, record
  <1>26. ASSUME NEW r \in Retrier, RetryCancelled(r) \/ RetryFires(r) PROVE Covered(s)'
    <2>1. /\ pc[r] = "wait" /\ cfg' = cfg /\ states' = states /\ status' = status
          /\ sweep' = sweep /\ snap' = snap /\ obj' = obj
          /\ LeaveSelect(r)
      BY <1>26 DEF RetryCancelled, RetryFires
    <2>2. OthersStay({r})
      <3>1. /\ \E l \in Locations : pc' = [pc EXCEPT ![r] = l]
            /\ srv' = srv \/ srv' = [srv EXCEPT ![r] = None]
        BY <1>26 DEF RetryCancelled, RetryFires
      <3> QED
        BY <2>1, <3>1, <1>2
    <2>3. RetryPending(r, s) => srv'[r] = s /\ pc'[r] = "start"
      BY <1>26, <2>1 DEF RetryCancelled, RetryFires, RetryPending, TypeOK
    <2>4. ASSUME NEW q \in Retrier \ {r}, RetryPending(q, s)
          PROVE  retryCancel'[states[s]] = q /\ ~closed'[q]
      <3>1. states[s] \in State /\ retryCancel[states[s]] = q /\ ~closed[q]
        BY <2>1, <2>4 DEF Failing, RetryPending, TypeOK
      <3> QED
        BY <2>1, <3>1 DEF LeaveSelect, TypeOK
    <2>5. ~AttemptWillSettle(r, s) /\ ~SweepWillReach(r, s)
      BY <2>1 DEF AttemptWillSettle, SweepWillReach
    <2>6. RetryPending(r, s) => Covered(s)'
      BY <2>3, <1>6
    <2> QED
      BY <2>1, <2>2, <2>4, <2>5, <2>6, StillCovered
  <1>27. CASE UNCHANGED vars
    <2>1. OthersStay({})
      BY <1>27 DEF vars, local, OthersStay
    <2>2. \A q \in Retrier : RetryPending(q, s) => retryCancel'[states[s]] = q /\ ~closed'[q]
      BY <1>27 DEF vars, registry, record, timers, RetryPending
    <2> QED
      BY <1>27, <2>1, <2>2, StillCovered DEF vars, registry, record
  <1> QED
    BY <1>8, <1>9, <1>10, <1>11, <1>12, <1>13, <1>14, <1>15, <1>16, <1>17, <1>18, <1>19,
       <1>20, <1>21, <1>22, <1>23, <1>24, <1>25, <1>26, <1>27
    DEF Next, Request, HandlerStep, TickerStep, RetryStep, Attempt

(* The invariant, and the theorems. *)

LEMMA InitInv == Init => IInv
  <1> SUFFICES ASSUME Init PROVE IInv
    OBVIOUS
  <1>1. TypeOK /\ Placed
    BY InitTyped
  <1>2. Separate
    BY DEF Init, Separate
  <1>3. GarbageIsBlank
    BY DEF Init, GarbageIsBlank, Unreachable
  <1>4. RetryOwned
    BY DEF Init, RetryOwned
  <1>5. NoLostRetry
    BY DEF Init, NoLostRetry, Failing
  <1> QED
    BY <1>1, <1>2, <1>3, <1>4, <1>5 DEF IInv

\* The invariant is inductive.  TypeOK needs Placed, since a retry resolves the server
\* that its goroutine was started for; RetryOwned is what makes a closed channel one
\* record's own business; Separate and GarbageIsBlank say that a registry change
\* neither cancels the retry of a server that stays nor hands out an old record.
THEOREM Invariance == Spec => []IInv
  <1>1. Init => IInv
    BY InitInv
  <1>2. IInv /\ [Next]_vars => IInv'
    BY TypeStep, PlacedStep, SeparateStep, GarbageStep, OwnedStep, LostStep DEF IInv
  <1> QED
    BY <1>1, <1>2, PTL DEF Spec

\* Type correctness: for any number of goroutines and records, the registry's maps,
\* records and channels stay what mcp.go and state.go declare.
THEOREM TypeCorrect == Spec => []TypeOK
  <1>1. IInv => TypeOK
    BY DEF IInv
  <1> QED
    BY <1>1, Invariance, PTL

\* README.md:337,342: in every interleaving of attempts, timers, cancellations and
\* registry changes, a configured server in degraded or failed has a retry pending or
\* an attempt on its way (scheduleBackoffRetry, cancelRetryLocked, UpdateConfig).
THEOREM NoRetryIsLost == Spec => []NoLostRetry
  <1>1. IInv => NoLostRetry
    BY DEF IInv
  <1> QED
    BY <1>1, Invariance, PTL

\* state.go:129-135: cancelRetryLocked never closes a channel twice, nor the channel of
\* a goroutine that has left its select, nor that of another server.
THEOREM RetriesAreOwned == Spec => []RetryOwned
  <1>1. IInv => RetryOwned
    BY DEF IInv
  <1> QED
    BY <1>1, Invariance, PTL

(* StatusMatchesAttempts needs no more than the types of the registry. *)

LEMMA CountAttemptIs ==
  ASSUME TypeOK, NEW o \in State
  PROVE  /\ CountAttempt(o) # 0
         /\ attempts[o] = 0 => CountAttempt(o) = 1
         /\ attempts[o] # 0 => CountAttempt(o) >= 2
  BY DEF TypeOK, CountAttempt, Counts

LEMMA HonestStep ==
  ASSUME TypeOK, Placed, StatusMatchesAttempts, [Next]_vars
  PROVE  StatusMatchesAttempts'
  <1> DEFINE Honest(st, n) == /\ st \in {"unknown", "healthy"} <=> n = 0
                              /\ st = "degraded" => n = 1
                              /\ st = "failed" => n >= 2
  <1>1. ASSUME NEW o \in State PROVE Honest(status[o], attempts[o])
    BY DEF StatusMatchesAttempts
  <1>2. (\A o \in State : Honest(status'[o], attempts'[o])) => StatusMatchesAttempts'
    BY DEF StatusMatchesAttempts
  <1>3. Honest("unknown", 0) /\ Honest("healthy", 0)
    OBVIOUS
  <1>4. ASSUME NEW o \in State
        PROVE  /\ Honest("auth_required", CountAttempt(o))
               /\ Honest(FailureStatus(o), CountAttempt(o))
    BY CountAttemptIs DEF FailureStatus
  <1> HIDE DEF Honest
  <1>5. ASSUME NEW w \in Worker, obj[w] \in State, NEW st, NEW n, NEW channel,
               Put(w, st, n, channel), Honest(st, n)
        PROVE  StatusMatchesAttempts'
    <2>1. ASSUME NEW o \in State PROVE Honest(status'[o], attempts'[o])
      BY <1>5, <1>1, <1>3, PutEffect
    <2> QED
      BY <2>1, <1>2
  <1>6. ASSUME NEW c \in Configs, UpdateConfig(c) PROVE StatusMatchesAttempts'
    <2>1. ASSUME NEW o \in State PROVE Honest(status'[o], attempts'[o])
      BY <1>6, <1>1, <1>3, UpdateConfigEffect
    <2> QED
      BY <2>1, <1>2
  <1>7. ASSUME status' = status, attempts' = attempts PROVE StatusMatchesAttempts'
    BY <1>7, <1>1, <1>2
  <1>8. \A w \in Worker : pc[w] \in Holding => obj[w] \in State
    BY PlacedAt
  <1>11. ASSUME NEW p \in Proc, Request(p) PROVE StatusMatchesAttempts'
    <2>1. ASSUME NEW c \in Configs, ChangeRegistry(p, c) PROVE StatusMatchesAttempts'
      BY <2>1, <1>6 DEF ChangeRegistry
    <2>2. CASE \/ RequestRefresh(p)
               \/ \E s \in Server, how \in {"server", "login"} : RequestServer(p, s, how)
      BY <2>2, <1>7 DEF RequestRefresh, RequestServer, registry, record
    <2> QED
      BY <1>11, <2>1, <2>2 DEF Request
  <1>12. CASE SetAuth
    BY <1>12, <1>6 DEF SetAuth, TypeOK
  <1>13. ASSUME NEW w \in Worker,
                \/ LoginReturns(w)
                \/ Snapshot(w)
                \/ \E s \in Server : NextServer(w, s)
                \/ EndSweep(w)
                \/ StartAttempt(w)
                \/ StoreTools(w)
                \/ EvictTools(w)
                \/ LookUpForRetry(w)
         PROVE  StatusMatchesAttempts'
    BY <1>13, <1>7 DEF LoginReturns, Snapshot, NextServer, EndSweep, StartAttempt, StoreTools,
                       EvictTools, LookUpForRetry, registry, record
  <1>14. CASE Tick \/ \E s \in Server : LookUp(s)
    BY <1>14, <1>7 DEF Tick, LookUp, registry, record
  <1>15. CASE CheckSkip
    <2>1. /\ obj[Ticker] \in State
          /\ Put(Ticker, status[obj[Ticker]], attempts[obj[Ticker]], retryCancel[obj[Ticker]])
      BY <1>15, <1>8 DEF CheckSkip, Holding
    <2> QED
      BY <2>1, <1>1, <1>5
  <1>16. ASSUME NEW w \in Worker, RecordSuccess(w) PROVE StatusMatchesAttempts'
    <2>1. obj[w] \in State /\ Put(w, "healthy", 0, None)
      BY <1>16, <1>8 DEF RecordSuccess, Holding
    <2> QED
      BY <2>1, <1>3, <1>5
  <1>17. ASSUME NEW w \in Worker, RecordFailure(w) PROVE StatusMatchesAttempts'
    <2>1. /\ obj[w] \in State
          /\ \E st \in {"auth_required", FailureStatus(obj[w])} :
               Put(w, st, CountAttempt(obj[w]), retryCancel[obj[w]])
      BY <1>17, <1>8 DEF RecordFailure, Holding
    <2> QED
      BY <2>1, <1>4, <1>5
  <1>18. ASSUME NEW w \in Worker, NEW v \in Retrier, ScheduleRetry(w, v)
         PROVE  StatusMatchesAttempts'
    <2>1. obj[w] \in State /\ Put(w, status[obj[w]], attempts[obj[w]], v)
      BY <1>18, <1>8 DEF ScheduleRetry, Holding
    <2> QED
      BY <2>1, <1>1, <1>5
  <1>19. ASSUME NEW r \in Retrier, TimerExpires(r) \/ RetryCancelled(r) \/ RetryFires(r)
         PROVE  StatusMatchesAttempts'
    BY <1>19, <1>7 DEF TimerExpires, RetryCancelled, RetryFires, registry, record
  <1>20. CASE UNCHANGED vars
    BY <1>20, <1>7 DEF vars, registry, record
  <1> QED
    BY <1>11, <1>12, <1>13, <1>14, <1>15, <1>16, <1>17, <1>18, <1>19, <1>20
    DEF Next, HandlerStep, TickerStep, RetryStep, Attempt

\* README.md:336-340: however overlapping attempts record their outcomes, a server is
\* unknown or healthy with no failure counted, degraded after one and failed after more.
THEOREM StatusIsHonest == Spec => []StatusMatchesAttempts
  <1>1. Init => StatusMatchesAttempts
    BY DEF Init, StatusMatchesAttempts
  <1>2. IInv /\ StatusMatchesAttempts /\ [Next]_vars => StatusMatchesAttempts'
    BY HonestStep DEF IInv
  <1> QED
    BY <1>1, <1>2, Invariance, PTL DEF Spec

-----------------------------------------------------------------------------
(* RegistryOverlap, on the invariant of Registry. *)

overlapVars == <<vars, disturbed, stray>>

(* OneRetryPerServer *)

\* r is the retry that the record of its server knows.
Known(r) == states[srv[r]] # None /\ retryCancel[states[srv[r]]] = r

LEMMA OneRetryStep ==
  ASSUME TypeOK, Placed, OneRetryPerServer, ONext
  PROVE  OneRetryPerServer'
  <1> SUFFICES ASSUME NEW r \in Retrier, r \notin stray', pc'[r] = "wait", ~closed'[r]
               PROVE  Known(r)'
    BY DEF OneRetryPerServer, Known
  \* r waited before, unless it has just been scheduled.
  <1>1. ASSUME pc[r] = "wait", ~closed[r]
        PROVE  /\ srv[r] \in Server
               /\ states[srv[r]] \in State
               /\ retryCancel[states[srv[r]]] = r
    <2>1. r \notin stray
      BY <1>1 DEF ONext
    <2>2. srv[r] \in Server
      BY <1>1, PlacedAt DEF Concerned
    <2> QED
      BY <1>1, <2>1, <2>2 DEF OneRetryPerServer, TypeOK
  <1>2. ASSUME pc[r] = "wait", retryCancel' = retryCancel, closed' = closed, srv'[r] = srv[r],
               states' = states
        PROVE  Known(r)'
    BY <1>1, <1>2 DEF Known, TypeOK
  <1>3. ASSUME pc[r] = "wait", retryCancel' = retryCancel, closed' = closed, srv'[r] = srv[r],
               NEW s \in Server, NEW o \in State, StateFor(s, o)
        PROVE  Known(r)'
    <2>1. states'[srv[r]] = states[srv[r]]
      BY <1>1, <1>3, StateForEffect
    <2> QED
      BY <1>1, <1>3, <2>1 DEF Known, TypeOK
  \* Somebody records an outcome, or reads the record.
  <1>4. ASSUME pc[r] = "wait", srv'[r] = srv[r], states' = states,
               NEW w \in Worker, obj[w] \in State, NEW st, NEW n, NEW channel,
               Put(w, st, n, channel),
               \/ channel = retryCancel[obj[w]] /\ closed' = closed
               \/ closed'[r] <=> closed[r] \/ r \in CloseChannels({obj[w]})
        PROVE  Known(r)'
    <2>1. ~closed[r]
      BY <1>4
    <2>2. retryCancel'[states[srv[r]]] = r
      <3>1. CASE obj[w] = states[srv[r]]
        <4>1. r \in CloseChannels({obj[w]})
          BY <3>1, <2>1, <1>1, <1>4 DEF CloseChannels
        <4>2. channel = retryCancel[obj[w]]
          BY <4>1, <1>4
        <4> QED
          BY <4>2, <3>1, <2>1, <1>1, <1>4, PutEffect
      <3>2. CASE obj[w] # states[srv[r]]
        BY <3>2, <2>1, <1>1, <1>4, PutEffect
      <3> QED
        BY <3>1, <3>2
    <2> QED
      BY <2>1, <2>2, <1>1, <1>4 DEF Known, TypeOK
  <1>5. ASSUME pc[r] = "wait", srv'[r] = srv[r], NEW c \in Configs, UpdateConfig(c)
        PROVE  Known(r)'
    <2>1. ~closed[r] /\ r \notin CloseChannels(Dropped(c))
      BY <1>5, UpdateConfigEffect
    <2>2. PICK s \in Server : s = srv[r] /\ states[s] \in State /\ retryCancel[states[s]] = r
      BY <2>1, <1>1, <1>5
    <2>3. states[s] \notin Dropped(c)
      BY <2>1, <2>2 DEF CloseChannels
    <2>4. c[s] # None
      BY <2>2, <2>3 DEF Dropped
    <2>5. UpdateConfig(c)
      BY <1>5
    <2>6. \/ states'[s] = states[s]
          \/ states'[s] = None /\ c[s] = None
          \/ states[s] = None
      BY <2>5, UpdateConfigEffect
    <2>7. states'[s] = states[s]
      BY <2>2, <2>4, <2>6, RegistryAssumption
    <2>8. retryCancel'[states[s]] = r
      BY <2>2, <2>3, <2>5, UpdateConfigEffect
    <2> QED
      BY <1>5, <2>2, <2>7, <2>8 DEF Known, TypeOK
  <1>6. \A w \in Worker : pc[w] \in Holding => obj[w] \in State
    BY PlacedAt
  <1>11. ASSUME NEW p \in Proc, Request(p) PROVE Known(r)'
    <2>1. p # r
      OBVIOUS
    <2>2. ASSUME NEW c \in Configs, ChangeRegistry(p, c) PROVE Known(r)'
      BY <2>1, <2>2, <1>5 DEF ChangeRegistry, TypeOK
    <2>3. CASE \/ RequestRefresh(p)
               \/ \E s \in Server, how \in {"server", "login"} : RequestServer(p, s, how)
      BY <2>1, <2>3, <1>2 DEF RequestRefresh, RequestServer, registry, record, timers, TypeOK
    <2> QED
      BY <1>11, <2>2, <2>3 DEF Request
  <1>12. CASE SetAuth
    BY <1>12, <1>5 DEF SetAuth, local, TypeOK
  <1>13. ASSUME NEW w \in Worker,
                \/ LoginReturns(w)
                \/ Snapshot(w)
                \/ \E s \in Server : NextServer(w, s)
                \/ EndSweep(w)
                \/ StoreTools(w)
                \/ EvictTools(w)
         PROVE  Known(r)'
    <2>1. /\ pc[w] # "wait" /\ \E l \in Locations \ {"wait"} : pc' = [pc EXCEPT ![w] = l]
          /\ \A v \in Worker \ {w} : srv'[v] = srv[v]
          /\ retryCancel' = retryCancel /\ closed' = closed /\ states' = states
      BY <1>13 DEF LoginReturns, Snapshot, NextServer, EndSweep, StoreTools, EvictTools, Return,
                   registry, record, timers, TypeOK
    <2> QED
      BY <2>1, <1>2 DEF TypeOK
  <1>14. ASSUME NEW w \in Worker, StartAttempt(w) \/ LookUpForRetry(w) PROVE Known(r)'
    <2>1. PICK o \in State : StateFor(srv[w], o)
      BY <1>14 DEF StartAttempt, LookUpForRetry
    <2>2. /\ srv[w] \in Server
          /\ \E l \in Locations \ {"wait"} : pc' = [pc EXCEPT ![w] = l]
          /\ srv' = srv /\ retryCancel' = retryCancel /\ closed' = closed
      BY <1>14, PlacedAt DEF StartAttempt, LookUpForRetry, Concerned, record, timers
    <2>3. pc[r] = "wait"
      BY <2>2 DEF TypeOK
    <2> QED
      BY <2>1, <2>2, <2>3, <1>3
  <1>15. ASSUME NEW s \in Server, LookUp(s) PROVE Known(r)'
    <2>1. PICK o \in State : StateFor(s, o)
      BY <1>15 DEF LookUp
    <2>2. /\ r # Ticker /\ pc' = [pc EXCEPT ![Ticker] = "check"]
          /\ srv' = [srv EXCEPT ![Ticker] = s] /\ retryCancel' = retryCancel /\ closed' = closed
      BY <1>15 DEF LookUp, record, timers
    <2> QED
      BY <2>1, <2>2, <1>3 DEF TypeOK
  <1>16. CASE Tick
    BY <1>16, <1>2 DEF Tick, registry, record, local, timers, TypeOK
  <1>17. CASE CheckSkip
    <2>1. /\ obj[Ticker] \in State
          /\ Put(Ticker, status[obj[Ticker]], attempts[obj[Ticker]], retryCancel[obj[Ticker]])
          /\ closed' = closed /\ states' = states /\ r # Ticker
      BY <1>17, <1>6 DEF CheckSkip, Holding
    <2>2. pc'[r] = pc[r] /\ srv'[r] = srv[r]
      BY <1>17, <2>1 DEF CheckSkip, TypeOK
    <2> QED
      BY <2>1, <2>2, <1>4
  <1>18. ASSUME NEW w \in Worker, RecordSuccess(w) PROVE Known(r)'
    <2>1. /\ obj[w] \in State
          /\ Put(w, "healthy", 0, None)
          /\ closed' = [q \in Retrier |-> closed[q] \/ q \in CloseChannels({obj[w]})]
          /\ states' = states /\ srv' = srv
      BY <1>18, <1>6 DEF RecordSuccess, Holding
    <2>2. pc[r] = "wait"
      BY <1>18 DEF RecordSuccess, TypeOK
    <2> QED
      BY <2>1, <2>2, <1>4
  <1>19. ASSUME NEW w \in Worker, RecordFailure(w) PROVE Known(r)'
    <2>1. PICK st \in Statuses : Put(w, st, CountAttempt(obj[w]), retryCancel[obj[w]])
      BY <1>19 DEF RecordFailure, FailureStatus
    <2>2. obj[w] \in State /\ closed' = closed /\ states' = states /\ srv' = srv
      BY <1>19, <1>6 DEF RecordFailure, Holding
    <2>3. pc[r] = "wait"
      BY <1>19 DEF RecordFailure, TypeOK
    <2> QED
      BY <2>1, <2>2, <2>3, <1>4
  <1>20. ASSUME NEW w \in Worker, NEW v \in Retrier, ScheduleRetry(w, v) PROVE Known(r)'
    <2>1. /\ obj[w] \in State /\ srv[w] \in Server
          /\ Put(w, status[obj[w]], attempts[obj[w]], v)
          /\ closed' = [q \in Retrier |-> q # v /\ (closed[q] \/ q \in CloseChannels({obj[w]}))]
          /\ states' = states
          /\ srv' = [srv EXCEPT ![w] = None, ![v] = srv[w]]
          /\ pc[w] = "schedule" /\ (pc[v] = "idle" \/ v = w)
          /\ pc' = [pc EXCEPT ![w] = IF Loops(w) THEN "loop" ELSE "idle", ![v] = "wait"]
      BY <1>20, <1>6, PlacedAt DEF ScheduleRetry, Holding, Concerned
    <2>2. CASE r = v
      <3>1. ~GoesAstray(v)
        BY <2>2 DEF ONext
      <3>2. pc'[w] # "schedule" /\ pc[v] # "wait"
        BY <2>1 DEF TypeOK
      <3>3. states[srv[w]] = obj[w]
        BY <2>1, <2>2, <3>1, <3>2 DEF GoesAstray
      <3>4. retryCancel'[obj[w]] = v
        BY <2>1, <3>3, PutEffect
      <3>5. srv'[v] = srv[w]
        BY <2>1 DEF TypeOK
      <3> QED
        BY <2>1, <2>2, <3>3, <3>4, <3>5 DEF Known
    <2>3. CASE r # v
      <3>1. r # w /\ pc[r] = "wait" /\ srv'[r] = srv[r]
        BY <2>1, <2>3 DEF TypeOK
      <3>2. closed'[r] <=> closed[r] \/ r \in CloseChannels({obj[w]})
        BY <2>1, <2>3
      <3> QED
        BY <2>1, <3>1, <3>2, <1>4
    <2> QED
      BY <2>2, <2>3
  <1>21. ASSUME NEW q \in Retrier, TimerExpires(q) PROVE Known(r)'
    BY <1>21, <1>2 DEF TimerExpires, registry, record, local
  <1>22. ASSUME NEW q \in Retrier, RetryCancelled(q) \/ RetryFires(q) PROVE Known(r)'
    <2>1. /\ LeaveSelect(q) /\ states' = states
          /\ \E l \in Locations \ {"wait"} : pc' = [pc EXCEPT ![q] = l]
          /\ \A v \in Worker \ {q} : srv'[v] = srv[v]
      BY <1>22 DEF RetryCancelled, RetryFires, TypeOK
    <2>2. r # q /\ pc[r] = "wait" /\ srv'[r] = srv[r]
      BY <2>1 DEF TypeOK
    <2>3. ~closed[r]
      BY <2>1, <2>2 DEF LeaveSelect, TypeOK
    <2>4. retryCancel'[states[srv[r]]] = r
      BY <2>1, <2>2, <2>3, <1>1 DEF LeaveSelect
    <2> QED
      BY <2>1, <2>2, <2>3, <2>4, <1>1 DEF Known
  <1> QED
    BY <1>11, <1>12, <1>13, <1>14, <1>15, <1>16, <1>17, <1>18, <1>19, <1>20, <1>21, <1>22
    DEF ONext, Next, HandlerStep, TickerStep, RetryStep, Attempt

\* The steps of RegistryOverlap are steps of Registry.
LEMMA OverlapInvariance == OSpec => []IInv
  <1>1. OInit => IInv
    BY InitInv DEF OInit
  <1>2. IInv /\ [ONext]_overlapVars => IInv'
    <2>1. [ONext]_overlapVars => [Next]_vars
      BY DEF ONext, overlapVars
    <2> QED
      BY <2>1, TypeStep, PlacedStep, SeparateStep, GarbageStep, OwnedStep, LostStep DEF IInv
  <1> QED
    BY <1>1, <1>2, PTL DEF OSpec, overlapVars

\* state.go:116-126: attempts that fail at the same time do not multiply into retries: of a
\* server's retries only the one that its record knows waits and is not cancelled, but for
\* those that were scheduled in a record dropped meanwhile.
THEOREM RetriesDoNotMultiply == OSpec => []OneRetryPerServer
  <1>1. OInit => OneRetryPerServer
    BY DEF OInit, Init, OneRetryPerServer
  <1>2. IInv /\ OneRetryPerServer /\ [ONext]_overlapVars => OneRetryPerServer'
    <2>1. CASE ONext
      BY <2>1, OneRetryStep DEF IInv
    <2>2. CASE UNCHANGED overlapVars
      BY <2>2 DEF overlapVars, vars, registry, record, local, timers, OneRetryPerServer
    <2> QED
      BY <2>1, <2>2
  <1> QED
    BY <1>1, <1>2, OverlapInvariance, PTL DEF OSpec, overlapVars

(* ParkedUntilRequested *)

LEMMA SweepingStep ==
  ASSUME TypeOK, Placed, Sweeping, [Next]_vars
  PROVE  Sweeping'
  <1> USE DEF Sweeping, TypeOK
  <1>1. ASSUME NEW p \in Proc, Request(p) PROVE Sweeping'
    BY <1>1 DEF Request, ChangeRegistry, RequestRefresh, RequestServer
  <1>2. ASSUME NEW w \in Worker, EndSweep(w) PROVE Sweeping'
    BY <1>2 DEF EndSweep
  <1>3. ASSUME NEW w \in Worker, LoginReturns(w) \/ Snapshot(w) \/ \E s \in Server : NextServer(w, s)
        PROVE  Sweeping'
    BY <1>3 DEF LoginReturns, Snapshot, NextServer
  <1>4. ASSUME NEW w \in Worker, StartAttempt(w) \/ RecordSuccess(w) \/ LookUpForRetry(w)
        PROVE  Sweeping'
    BY <1>4 DEF StartAttempt, RecordSuccess, LookUpForRetry
  <1>5. ASSUME NEW w \in Worker, RecordFailure(w) PROVE Sweeping'
    <2>1. sweep' = sweep /\ \E l \in {"park", "evict"} : pc' = [pc EXCEPT ![w] = l]
      BY <1>5 DEF RecordFailure
    <2> QED
      BY <2>1
  <1>6. ASSUME NEW w \in Worker, StoreTools(w) \/ EvictTools(w) PROVE Sweeping'
    <2>1. /\ sweep' = sweep
          /\ \/ pc' = [pc EXCEPT ![w] = "backoff"]
             \/ pc' = [pc EXCEPT ![w] = IF Loops(w) THEN "loop" ELSE "idle"]
      BY <1>6 DEF StoreTools, EvictTools, Return
    <2> QED
      BY <2>1 DEF Loops
  <1>7. ASSUME NEW w \in Worker, NEW v \in Retrier, ScheduleRetry(w, v) PROVE Sweeping'
    BY <1>7 DEF ScheduleRetry, Loops
  <1>8. ASSUME NEW r \in Retrier, TimerExpires(r) \/ RetryCancelled(r) \/ RetryFires(r)
        PROVE  Sweeping'
    BY <1>8 DEF TimerExpires, RetryCancelled, RetryFires, local
  <1>9. CASE SetAuth \/ Tick
    BY <1>9 DEF SetAuth, Tick, local
  <1>10. CASE CheckSkip \/ \E s \in Server : LookUp(s)
    <2>1. sweep' = sweep /\ \E l \in Locations : pc' = [pc EXCEPT ![Ticker] = l]
      BY <1>10 DEF CheckSkip, LookUp
    <2> QED
      BY <2>1
  <1>11. CASE UNCHANGED vars
    BY <1>11 DEF vars, local
  <1> HIDE DEF Sweeping, TypeOK
  <1> QED
    BY <1>1, <1>2, <1>3, <1>4, <1>5, <1>6, <1>7, <1>8, <1>9, <1>10, <1>11
    DEF Next, HandlerStep, TickerStep, RetryStep, Attempt

\* w leaves s alone, or only looks at its record.
Spares(w, s) ==
  /\ ~Attempting(w, s)
  /\ ~SweepWillReach(w, s)
  /\ pc[w] = "wait" \/ (pc[w] = "login" /\ w \in Proc) => srv[w] # s
  /\ pc[w] = "check" /\ srv[w] = s => obj[w] = states[s]

LEMMA ParkedIs ==
  ASSUME Placed, NEW s \in Server
  PROVE  Parked(s) <=> Configured(s) /\ AuthRequired(s) /\ \A w \in Worker : Spares(w, s)
  BY DEF Parked, Spares, Quiet, SweepWillReach, Placed

\* Goroutines of M go on without touching s, the others stay.
LEMMA ParkedStays ==
  ASSUME Placed, Placed', NEW s \in Server, Parked(s),
         cfg'[s] = cfg[s], states'[s] = states[s], status'[states[s]] = status[states[s]],
         NEW M, OthersStay(M), \A w \in Worker \cap M : Spares(w, s)'
  PROVE  Parked(s)'
  <1>1. \A w \in Worker : Spares(w, s)
    BY ParkedIs
  <1>2. ASSUME NEW w \in Worker \ M PROVE Spares(w, s)'
    BY <1>1, <1>2 DEF Spares, Attempting, SweepWillReach, OthersStay
  <1>3. Configured(s)' /\ AuthRequired(s)'
    BY DEF Parked, Configured, AuthRequired
  <1> QED
    <2>1. \A w \in Worker : Spares(w, s)'
      BY <1>2
    <2>2. Parked(s)' <=> Configured(s)' /\ AuthRequired(s)' /\ \A w \in Worker : Spares(w, s)'
      BY DEF Parked, Spares, Quiet, SweepWillReach, Placed
    <2> QED
      BY <2>1, <2>2, <1>3

LEMMA ParkedStep ==
  ASSUME TypeOK, Placed, Separate, Sweeping, [Next]_vars, NEW s \in Server, Parked(s),
         ~\E p \in Proc : pc[p] = "idle" /\ pc'[p] # "idle"
  PROVE  Parked(s)'
  <1>1. /\ states[s] \in State /\ status[states[s]] = "auth_required" /\ cfg[s] # None
        /\ \A w \in Worker : Spares(w, s)
        /\ \A w \in Worker : obj[w] = states[s] => srv[w] = s
    <2>1. Parked(s) <=> Configured(s) /\ AuthRequired(s) /\ \A w \in Worker : Spares(w, s)
      BY ParkedIs
    <2>2. states[s] \in State /\ status[states[s]] = "auth_required" /\ cfg[s] # None
      BY <2>1 DEF AuthRequired, Configured, TypeOK
    <2>3. \A w \in Worker : obj[w] = states[s] => srv[w] = s
      BY <2>2 DEF Separate, TypeOK
    <2> QED
      BY <2>1, <2>2, <2>3
  <1>2. Placed'
    BY PlacedStep
  <1> DEFINE Same == cfg'[s] = cfg[s] /\ states'[s] = states[s]
                       /\ status'[states[s]] = status[states[s]]
  <1>3. ASSUME NEW w \in Worker, OthersStay({w}), Same, Spares(w, s)'
        PROVE  Parked(s)'
    BY <1>3, <1>2, ParkedStays
  <1>4. ASSUME NEW w \in Worker, srv'[w] # s, pc'[w] # "begin",
               w \in Proc => sweep'[w] = sweep[w] /\ snap'[w][s] \in {snap[w][s], None}
        PROVE  Spares(w, s)'
    BY <1>4, <1>1 DEF Spares, Attempting, SweepWillReach
  <1>5. ASSUME NEW w \in Worker, NEW l, pc' = [pc EXCEPT ![w] = l],
               \/ srv' = srv
               \/ \E t : srv' = [srv EXCEPT ![w] = t],
               \/ obj' = obj
               \/ \E o : obj' = [obj EXCEPT ![w] = o],
               sweep' = sweep, snap' = snap
        PROVE  OthersStay({w})
    BY <1>5 DEF OthersStay, TypeOK
  <1>6. ASSUME NEW w \in Worker, obj[w] \in State, srv[w] # s, NEW st, NEW n, NEW channel,
               Put(w, st, n, channel)
        PROVE  status'[states[s]] = status[states[s]]
    BY <1>6, <1>1, PutEffect
  <1>7. \A w \in Worker : /\ pc[w] \in Holding => obj[w] \in State
                          /\ pc[w] \in Concerned => srv[w] \in Server
    BY PlacedAt
  <1>8. \A w \in Worker :
          pc[w] \in {"start", "fetch", "store", "evict", "park", "backoff", "schedule"} => srv[w] # s
    BY <1>1 DEF Spares, Attempting
  <1>10. ASSUME NEW p \in Proc, Request(p) PROVE FALSE
    <2>1. pc[p] = "idle" /\ pc'[p] # "idle"
      BY <1>10 DEF Request, ChangeRegistry, RequestRefresh, RequestServer, TypeOK
    <2> QED
      BY <2>1
  <1>11. CASE SetAuth
    <2>1. UpdateConfig(cfg) /\ cfg \in Configs /\ UNCHANGED <<pc, local>>
      BY <1>11 DEF SetAuth, TypeOK
    <2>2. /\ cfg' = cfg
          /\ \/ states'[s] = states[s]
             \/ states'[s] = None /\ cfg[s] = None
             \/ states[s] = None /\ cfg[s] # None /\ states'[s] \in Unreachable
      BY <2>1, UpdateConfigEffect
    <2>4. states'[s] = states[s]
      BY <2>2, <1>1
    <2>5. status'[states[s]] = status[states[s]]
      BY <2>1, <2>4, <1>1, UpdateConfigEffect
    <2>3. OthersStay({})
      BY <2>1 DEF OthersStay, local
    <2> QED
      BY <2>2, <2>3, <2>4, <2>5, <1>2, ParkedStays
  <1>12. ASSUME NEW p \in Proc, LoginReturns(p) PROVE Parked(s)'
    <2>1. Same /\ srv[p] # s
      BY <1>12, <1>1 DEF LoginReturns, registry, record, Spares
    <2>2. /\ srv' = srv \/ srv' = [srv EXCEPT ![p] = None]
          /\ \E l \in {"start", "idle"} : pc' = [pc EXCEPT ![p] = l]
          /\ sweep' = sweep /\ snap' = snap /\ obj' = obj
      BY <1>12 DEF LoginReturns
    <2>3. OthersStay({p})
      BY <2>2, <1>5
    <2>4. srv'[p] # s /\ pc'[p] # "begin"
      BY <2>1, <2>2 DEF TypeOK
    <2> QED
      BY <2>1, <2>2, <2>3, <2>4, <1>3, <1>4
  <1>13. CASE Tick
    <2>1. Same /\ OthersStay({Ticker})
      BY <1>13, <1>5 DEF Tick, registry, record, local
    <2>2. Spares(Ticker, s)'
      BY <1>13 DEF Tick, Spares, Attempting, SweepWillReach, TypeOK
    <2> QED
      BY <2>1, <2>2, <1>3
  <1>14. ASSUME NEW w \in Worker, Snapshot(w) PROVE Parked(s)'
    <2>1. Same /\ OthersStay({w})
      BY <1>14 DEF Snapshot, registry, record, OthersStay, TypeOK
    <2>2. w \in Proc => ~sweep[w]
      BY <1>14, <1>1 DEF Snapshot, Spares, SweepWillReach
    <2>3. Spares(w, s)'
      BY <1>14, <2>2 DEF Snapshot, Spares, Attempting, SweepWillReach, TypeOK
    <2> QED
      BY <2>1, <2>3, <1>3
  <1>15. ASSUME NEW t \in Server, LookUp(t) PROVE Parked(s)'
    <2>1. PICK o \in State : StateFor(t, o) /\ obj' = [obj EXCEPT ![Ticker] = o]
      BY <1>15 DEF LookUp
    <2>2. states'[s] = states[s] /\ (t = s => o = states[s])
      BY <2>1, <1>1, StateForEffect
    <2>3. Same
      BY <1>15, <2>2 DEF LookUp, record
    <2>4. OthersStay({Ticker})
      BY <1>15, <2>1, <1>5 DEF LookUp
    <2>5. Spares(Ticker, s)'
      BY <1>15, <2>1, <2>2 DEF LookUp, Spares, Attempting, SweepWillReach, TypeOK
    <2> QED
      BY <2>3, <2>4, <2>5, <1>3
  <1>16. CASE CheckSkip
    <2>1. /\ Put(Ticker, status[obj[Ticker]], attempts[obj[Ticker]], retryCancel[obj[Ticker]])
          /\ pc[Ticker] = "check" /\ obj[Ticker] \in State /\ srv[Ticker] \in Server
          /\ cfg' = cfg /\ states' = states
      BY <1>16, <1>7 DEF CheckSkip, Holding, Concerned
    <2>2. Same
      <3>1. CASE srv[Ticker] = s
        <4>1. obj[Ticker] = states[s]
          BY <3>1, <2>1, <1>1 DEF Spares
        <4> QED
          BY <4>1, <2>1, <1>1, PutEffect
      <3> QED
        BY <3>1, <2>1, <1>6
    <2>3. OthersStay({Ticker})
      <3>1. obj' = [obj EXCEPT ![Ticker] = None]
        BY <2>1, PutLetsGo
      <3> QED
        BY <1>16, <3>1 DEF CheckSkip, OthersStay, TypeOK
    <2>4. Spares(Ticker, s)'
      <3>1. CASE srv[Ticker] = s
        <4>1. SkipPeriodic(obj[Ticker])
          BY <3>1, <2>1, <1>1 DEF Spares, SkipPeriodic
        <4>2. pc'[Ticker] = "loop"
          BY <1>16, <4>1 DEF CheckSkip, TypeOK
        <4> QED
          BY <4>2 DEF Spares, Attempting, SweepWillReach
      <3>2. CASE srv[Ticker] # s
        <4>1. srv'[Ticker] # s /\ pc'[Ticker] # "begin"
          BY <1>16, <3>2 DEF CheckSkip, TypeOK
        <4> QED
          BY <4>1, <1>4
      <3> QED
        BY <3>1, <3>2
    <2> QED
      BY <2>2, <2>3, <2>4, <1>3
  <1>17. ASSUME NEW p \in Proc, NEW t \in Server, NextServer(p, t) PROVE Parked(s)'
    <2>1. t # s
      BY <1>17, <1>1 DEF NextServer, Spares, SweepWillReach, Sweeping
    <2>2. Same /\ OthersStay({p})
      BY <1>17 DEF NextServer, registry, record, OthersStay, TypeOK
    <2>3. /\ srv'[p] # s /\ pc'[p] # "begin" /\ sweep' = sweep
          /\ snap'[p][s] = snap[p][s]
      BY <1>17, <2>1 DEF NextServer, TypeOK
    <2> QED
      BY <2>2, <2>3, <1>3, <1>4
  <1>18. ASSUME NEW w \in Worker, EndSweep(w) PROVE Parked(s)'
    <2>1. Same /\ OthersStay({w})
      BY <1>18 DEF EndSweep, record, OthersStay, TypeOK
    <2>2. pc'[w] = "idle" /\ (w \in Proc => ~sweep'[w])
      BY <1>18 DEF EndSweep, TypeOK
    <2>3. Spares(w, s)'
      BY <2>2 DEF Spares, Attempting, SweepWillReach
    <2> QED
      BY <2>1, <2>3, <1>3
  <1>19. ASSUME NEW w \in Worker, StartAttempt(w) \/ LookUpForRetry(w) PROVE Parked(s)'
    <2>1. PICK o \in State, l \in {"fetch", "schedule"} :
            /\ StateFor(srv[w], o) /\ obj' = [obj EXCEPT ![w] = o]
            /\ pc' = [pc EXCEPT ![w] = l]
      BY <1>19 DEF StartAttempt, LookUpForRetry
    <2>2. /\ pc[w] \in {"start", "backoff"} /\ cfg' = cfg /\ status' = status
          /\ srv' = srv /\ snap' = snap /\ sweep' = sweep
      BY <1>19 DEF StartAttempt, LookUpForRetry, record
    <2>3. srv[w] \in Server /\ srv[w] # s
      BY <2>2, <1>7, <1>8 DEF Concerned
    <2>4. Same
      BY <2>1, <2>2, <2>3, StateForEffect
    <2>5. OthersStay({w})
      BY <2>1, <2>2, <1>5
    <2>6. srv'[w] # s /\ pc'[w] # "begin"
      BY <2>1, <2>2, <2>3 DEF TypeOK
    <2> QED
      BY <2>2, <2>4, <2>5, <2>6, <1>3, <1>4
  \* An outcome is recorded in the record of another server.
  <1>20. ASSUME NEW w \in Worker, RecordSuccess(w) \/ RecordFailure(w),
                NEW st, NEW n, NEW channel, Put(w, st, n, channel),
                NEW l \in {"store", "park", "evict"}, pc' = [pc EXCEPT ![w] = l]
         PROVE  Parked(s)'
    <2>1. /\ pc[w] = "fetch" /\ cfg' = cfg /\ states' = states
          /\ srv' = srv /\ snap' = snap /\ sweep' = sweep
      BY <1>20 DEF RecordSuccess, RecordFailure
    <2>2. obj[w] \in State /\ srv[w] # s
      BY <2>1, <1>7, <1>8 DEF Holding
    <2>3. Same
      BY <1>20, <2>1, <2>2, <1>6
    <2>4. OthersStay({w})
      BY <1>20, <2>1, <1>5, PutLetsGo
    <2>5. srv'[w] # s /\ pc'[w] # "begin"
      BY <1>20, <2>1, <2>2 DEF TypeOK
    <2> QED
      BY <2>1, <2>3, <2>4, <2>5, <1>3, <1>4
  <1>26. ASSUME NEW w \in Worker, RecordSuccess(w) PROVE Parked(s)'
    <2>1. Put(w, "healthy", 0, None) /\ pc' = [pc EXCEPT ![w] = "store"]
      BY <1>26 DEF RecordSuccess
    <2> QED
      BY <1>26, <2>1, <1>20
  <1>27. ASSUME NEW w \in Worker, RecordFailure(w) PROVE Parked(s)'
    <2>1. PICK st \in Statuses, l \in {"park", "evict"} :
            /\ Put(w, st, CountAttempt(obj[w]), retryCancel[obj[w]])
            /\ pc' = [pc EXCEPT ![w] = l]
      BY <1>27 DEF RecordFailure, FailureStatus
    <2> QED
      BY <1>27, <2>1, <1>20
  <1>21. ASSUME NEW w \in Worker, StoreTools(w) \/ EvictTools(w) PROVE Parked(s)'
    <2>1. /\ \E l \in {"loop", "idle", "backoff"} : pc' = [pc EXCEPT ![w] = l]
          /\ srv' = srv \/ srv' = [srv EXCEPT ![w] = None]
          /\ pc[w] \in {"store", "evict", "park"} /\ cfg' = cfg /\ states' = states
          /\ status' = status /\ snap' = snap /\ sweep' = sweep /\ obj' = obj
      BY <1>21 DEF StoreTools, EvictTools, Return, record
    <2>2. OthersStay({w})
      BY <2>1, <1>5
    <2>3. srv'[w] # s /\ pc'[w] # "begin"
      BY <2>1, <1>8 DEF TypeOK
    <2> QED
      BY <2>1, <2>2, <2>3, <1>3, <1>4
  <1>22. ASSUME NEW w \in Worker, NEW v \in Retrier, ScheduleRetry(w, v) PROVE Parked(s)'
    <2>1. /\ Put(w, status[obj[w]], attempts[obj[w]], v)
          /\ obj' = [obj EXCEPT ![w] = None]
          /\ pc' = [pc EXCEPT ![w] = IF Loops(w) THEN "loop" ELSE "idle", ![v] = "wait"]
          /\ srv' = [srv EXCEPT ![w] = None, ![v] = srv[w]]
          /\ pc[w] = "schedule" /\ cfg' = cfg /\ states' = states /\ snap' = snap /\ sweep' = sweep
      BY <1>22, PutLetsGo DEF ScheduleRetry
    <2>2. obj[w] \in State /\ srv[w] # s
      BY <2>1, <1>7, <1>8 DEF Holding
    <2>3. Same
      BY <2>1, <2>2, <1>6
    <2>4. OthersStay({w, v})
      BY <2>1 DEF OthersStay, TypeOK
    <2>5. \A u \in {w, v} : srv'[u] # s /\ pc'[u] # "begin"
      BY <2>1, <2>2 DEF TypeOK
    <2>6. \A u \in Worker \cap {w, v} : Spares(u, s)'
      BY <2>1, <2>5, <1>4
    <2> QED
      BY <2>3, <2>4, <2>6, <1>2, ParkedStays
  <1>23. ASSUME NEW r \in Retrier, TimerExpires(r) PROVE Parked(s)'
    <2>1. Same /\ OthersStay({})
      BY <1>23 DEF TimerExpires, registry, record, local, OthersStay
    <2> QED
      BY <2>1, <1>2, ParkedStays
  <1>24. ASSUME NEW r \in Retrier, RetryCancelled(r) \/ RetryFires(r) PROVE Parked(s)'
    <2>1. /\ \E l \in {"start", "idle"} : pc' = [pc EXCEPT ![r] = l]
          /\ srv' = srv \/ srv' = [srv EXCEPT ![r] = None]
          /\ pc[r] = "wait" /\ cfg' = cfg /\ states' = states
          /\ status' = status /\ snap' = snap /\ sweep' = sweep /\ obj' = obj
      BY <1>24 DEF RetryCancelled, RetryFires
    <2>2. OthersStay({r})
      BY <2>1, <1>5
    <2>3. srv'[r] # s /\ pc'[r] # "begin"
      BY <2>1, <1>1 DEF TypeOK, Spares
    <2> QED
      BY <2>1, <2>2, <2>3, <1>3, <1>4
  <1>25. CASE UNCHANGED vars
    <2>1. Same /\ OthersStay({})
      BY <1>25 DEF vars, registry, record, local, OthersStay
    <2> QED
      BY <2>1, <1>2, ParkedStays
  <1> HIDE DEF Same
  <1> QED
    BY <1>10, <1>11, <1>12, <1>13, <1>14, <1>15, <1>16, <1>17, <1>18, <1>19, <1>21,
       <1>22, <1>23, <1>24, <1>25, <1>26, <1>27
    DEF Next, HandlerStep, TickerStep, RetryStep, Attempt

\* mcp.go:223-230, server.go:117-121: only a client's request un-parks a server that waits
\* for a login and that nothing was on its way to.
THEOREM TickerRespectsParked == Spec => ParkedUntilRequested
  <1>1. Init => Sweeping
    <2> SUFFICES ASSUME Init PROVE Sweeping
      OBVIOUS
    <2>1. PICK first \in Proc : /\ pc = [w \in Worker |-> IF w = first THEN "begin" ELSE "idle"]
                                /\ sweep = [p \in Proc |-> p = first]
      BY DEF Init
    <2> QED
      BY <2>1 DEF Sweeping
  <1>2. IInv /\ Sweeping /\ [Next]_vars => Sweeping'
    BY SweepingStep DEF IInv
  <1>3. IInv /\ Sweeping /\ [Next]_vars =>
          [\A s \in Server : Parked(s) =>
             Parked(s)' \/ \E p \in Proc : pc[p] = "idle" /\ pc'[p] # "idle"]_vars
    BY ParkedStep DEF IInv
  <1> QED
    BY <1>1, <1>2, <1>3, Invariance, PTL DEF Spec, ParkedUntilRequested

(* AgreeAfterLoneAttempt *)

LEMMA CarriesStep ==
  ASSUME TypeOK, Placed, Carries, [Next]_vars
  PROVE  Carries'
  <1> USE DEF Carries, TypeOK
  <1>1. ASSUME NEW p \in Proc, Request(p) PROVE Carries'
    <2>1. CASE RequestRefresh(p) \/ \E c \in Configs : ChangeRegistry(p, c)
      <3>1. /\ pc' = [pc EXCEPT ![p] = "begin"]
            /\ entry' = entry /\ snap' = snap /\ srv' = srv
        BY <2>1 DEF ChangeRegistry, RequestRefresh
      <3> QED
        BY <3>1
    <2>2. ASSUME NEW s \in Server, NEW how \in {"server", "login"}, RequestServer(p, s, how)
          PROVE  Carries'
      BY <2>2 DEF RequestServer
    <2> HIDE DEF Carries, TypeOK
    <2> QED
      BY <1>1, <2>1, <2>2 DEF Request
  <1>2. ASSUME NEW w \in Worker, EndSweep(w) PROVE Carries'
    BY <1>2 DEF EndSweep
  <1>3. ASSUME NEW w \in Worker, LoginReturns(w) \/ Snapshot(w) \/ \E s \in Server : NextServer(w, s)
        PROVE  Carries'
    BY <1>3 DEF LoginReturns, Snapshot, NextServer
  <1>4. ASSUME NEW w \in Worker, StartAttempt(w) \/ RecordSuccess(w) \/ LookUpForRetry(w)
        PROVE  Carries'
    BY <1>4 DEF StartAttempt, RecordSuccess, LookUpForRetry
  <1>5. ASSUME NEW w \in Worker, RecordFailure(w) PROVE Carries'
    <2>1. /\ entry' = entry /\ snap' = snap /\ srv' = srv
          /\ \E l \in {"park", "evict"} : pc' = [pc EXCEPT ![w] = l]
      BY <1>5 DEF RecordFailure
    <2> QED
      BY <2>1
  <1>6. ASSUME NEW w \in Worker, StoreTools(w) \/ EvictTools(w) PROVE Carries'
    <2>1. /\ snap' = snap /\ entry' = [entry EXCEPT ![w] = None]
          /\ srv' = srv \/ srv' = [srv EXCEPT ![w] = None]
          /\ \E l \in {"loop", "idle", "backoff"} : pc' = [pc EXCEPT ![w] = l]
      BY <1>6 DEF StoreTools, EvictTools, Return
    <2> QED
      BY <2>1
  <1>7. ASSUME NEW w \in Worker, NEW v \in Retrier, ScheduleRetry(w, v) PROVE Carries'
    BY <1>7 DEF ScheduleRetry
  <1>8. ASSUME NEW r \in Retrier, TimerExpires(r) \/ RetryCancelled(r) PROVE Carries'
    BY <1>8 DEF TimerExpires, RetryCancelled, local
  <1>13. ASSUME NEW r \in Retrier, RetryFires(r) PROVE Carries'
    <2>1. /\ snap' = snap
          /\ \/ /\ pc' = [pc EXCEPT ![r] = "start"] /\ srv' = srv
                /\ cfg[srv[r]] # None /\ entry' = [entry EXCEPT ![r] = cfg[srv[r]]]
             \/ /\ pc' = [pc EXCEPT ![r] = "idle"] /\ entry' = entry
                /\ srv' = [srv EXCEPT ![r] = None]
      BY <1>13 DEF RetryFires
    <2> QED
      BY <2>1
  <1>9. CASE SetAuth \/ Tick
    BY <1>9 DEF SetAuth, Tick, local
  <1>10. CASE CheckSkip
    BY <1>10 DEF CheckSkip
  <1>11. ASSUME NEW s \in Server, LookUp(s) PROVE Carries'
    <2>1. /\ pc' = [pc EXCEPT ![Ticker] = "check"] /\ srv' = [srv EXCEPT ![Ticker] = s]
          /\ snap[Ticker][s] # None /\ snap' = snap /\ entry' = entry
      BY <1>11 DEF LookUp
    <2> QED
      BY <2>1
  <1>12. CASE UNCHANGED vars
    BY <1>12 DEF vars, local
  <1> HIDE DEF Carries, TypeOK
  <1> QED
    BY <1>1, <1>2, <1>3, <1>4, <1>5, <1>6, <1>7, <1>8, <1>9, <1>10, <1>11, <1>12, <1>13
    DEF Next, HandlerStep, TickerStep, RetryStep, Attempt

\* An attempt on s begins with its first step.
LEMMA AttemptsBegin ==
  ASSUME TypeOK, Placed, Next, NEW s \in Server, NEW u \in Worker, Attempting(u, s)'
  PROVE  Attempting(u, s) \/ pc'[u] = "start"
  <1> DEFINE Begins == Attempting(u, s) \/ pc'[u] = "start"
  <1> SUFFICES Begins
    OBVIOUS
  <1>1. ASSUME NEW w \in Worker, NEW l, pc' = [pc EXCEPT ![w] = l],
               \A v \in Worker \ {w} : srv'[v] = srv[v],
               \/ l \in {"idle", "begin", "loop", "check", "login", "start", "wait"}
               \/ srv'[w] = srv[w] /\ pc[w] \in {"start", "fetch", "evict", "backoff"}
        PROVE  Begins
    BY <1>1 DEF Attempting, TypeOK
  <1>2. ASSUME UNCHANGED <<pc, srv>> PROVE Begins
    BY <1>2 DEF Attempting
  <1> HIDE DEF Begins
  <1>11. ASSUME NEW p \in Proc, Request(p) PROVE Begins
    <2>1. /\ \E l \in {"begin", "login", "start"} : pc' = [pc EXCEPT ![p] = l]
          /\ \A v \in Worker \ {p} : srv'[v] = srv[v]
      BY <1>11 DEF Request, ChangeRegistry, RequestRefresh, RequestServer, TypeOK
    <2> QED
      BY <2>1, <1>1
  <1>12. ASSUME NEW w \in Worker,
                \/ LoginReturns(w) \/ Snapshot(w) \/ EndSweep(w)
                \/ \E t \in Server : NextServer(w, t)
         PROVE  Begins
    <2>1. /\ \E l \in {"start", "idle", "loop"} : pc' = [pc EXCEPT ![w] = l]
          /\ \A v \in Worker \ {w} : srv'[v] = srv[v]
      BY <1>12 DEF LoginReturns, Snapshot, EndSweep, NextServer, TypeOK
    <2> QED
      BY <2>1, <1>1
  <1>13. ASSUME NEW w \in Worker,
                StartAttempt(w) \/ RecordSuccess(w) \/ RecordFailure(w) \/ LookUpForRetry(w)
         PROVE  Begins
    <2>1. /\ \E l \in Locations : pc' = [pc EXCEPT ![w] = l]
          /\ srv' = srv /\ pc[w] \in {"start", "fetch", "backoff"}
      BY <1>13 DEF StartAttempt, RecordSuccess, RecordFailure, LookUpForRetry
    <2> QED
      BY <2>1, <1>1
  <1>14. ASSUME NEW w \in Worker, StoreTools(w) \/ EvictTools(w) PROVE Begins
    <2>1. \/ /\ \E l \in {"loop", "idle"} : pc' = [pc EXCEPT ![w] = l]
             /\ srv' = [srv EXCEPT ![w] = None]
          \/ pc[w] = "evict" /\ srv' = srv /\ pc' = [pc EXCEPT ![w] = "backoff"]
      BY <1>14 DEF StoreTools, EvictTools, Return
    <2>2. \A v \in Worker \ {w} : srv'[v] = srv[v]
      BY <2>1 DEF TypeOK
    <2> QED
      BY <2>1, <2>2, <1>1
  <1>15. ASSUME NEW w \in Worker, NEW v \in Retrier, ScheduleRetry(w, v) PROVE Begins
    BY <1>15 DEF ScheduleRetry, Attempting, Begins, TypeOK
  <1>16. ASSUME NEW r \in Retrier, TimerExpires(r) PROVE Begins
    BY <1>16, <1>2 DEF TimerExpires, local
  <1>17. ASSUME NEW r \in Retrier, RetryCancelled(r) \/ RetryFires(r) PROVE Begins
    <2>1. /\ \E l \in {"start", "idle"} : pc' = [pc EXCEPT ![r] = l]
          /\ \A v \in Worker \ {r} : srv'[v] = srv[v]
      BY <1>17 DEF RetryCancelled, RetryFires, TypeOK
    <2> QED
      BY <2>1, <1>1
  <1>18. CASE SetAuth
    <2>1. UNCHANGED <<pc, srv>>
      BY <1>18 DEF SetAuth, local
    <2> QED
      BY <2>1, <1>2
  <1>19. CASE Tick \/ CheckSkip \/ \E t \in Server : LookUp(t)
    <2>1. /\ \E l \in {"begin", "check", "start", "loop"} : pc' = [pc EXCEPT ![Ticker] = l]
          /\ \A v \in Worker \ {Ticker} : srv'[v] = srv[v]
      BY <1>19 DEF Tick, local, CheckSkip, LookUp, TypeOK
    <2> QED
      BY <2>1, <1>1
  <1> QED
    BY <1>11, <1>12, <1>13, <1>14, <1>15, <1>16, <1>17, <1>18, <1>19
    DEF Next, HandlerStep, TickerStep, RetryStep, Attempt, Begins

\* What Settled says of s.
Calm(s) ==
  /\ \A v, w \in Attempts(s) : v = w
  /\ \A w \in Attempts(s) : Settling(w, s)
  /\ Attempts(s) = {} => (Healthy(s) <=> toolCache[s] # None)

\* The record of s stays, or s gets a blank one.
SameHealth(s) ==
  \/ states'[s] = states[s] /\ (states[s] # None => status'[states[s]] = status[states[s]])
  \/ states[s] = None /\ (states'[s] # None => status'[states'[s]] = "unknown")

LEMMA HealthStays ==
  ASSUME NEW s \in Server, SameHealth(s)
  PROVE  Healthy(s)' <=> Healthy(s)
  BY DEF SameHealth, Healthy

LEMMA StateForKeepsHealth ==
  ASSUME TypeOK, GarbageIsBlank, NEW t \in Server, NEW o \in State, StateFor(t, o),
         status' = status, NEW s \in Server
  PROVE  SameHealth(s)
  <1>1. CASE states'[s] = states[s]
    BY <1>1 DEF SameHealth
  <1>2. CASE states'[s] # states[s]
    <2>1. s = t /\ states'[s] = o /\ states[s] = None /\ o \in Unreachable
      BY <1>2, StateForEffect
    <2> QED
      BY <2>1 DEF SameHealth, GarbageIsBlank
  <1> QED
    BY <1>1, <1>2

LEMMA PutKeepsHealth ==
  ASSUME TypeOK, Separate, NEW w \in Worker, obj[w] \in State, NEW st, NEW n, NEW channel,
         Put(w, st, n, channel), states' = states, NEW s \in Server,
         srv[w] # s \/ st = status[obj[w]]
  PROVE  SameHealth(s)
  <1> SUFFICES ASSUME states[s] # None PROVE status'[states[s]] = status[states[s]]
    BY DEF SameHealth
  <1>1. states[s] \in State
    BY DEF TypeOK
  <1>2. CASE obj[w] = states[s]
    <2>1. st = status[obj[w]]
      BY <1>2 DEF Separate
    <2> QED
      BY <1>1, <1>2, <2>1, PutEffect
  <1>3. CASE obj[w] # states[s]
    BY <1>1, <1>3, PutEffect
  <1> QED
    BY <1>2, <1>3

LEMMA UpdateConfigKeepsHealth ==
  ASSUME TypeOK, GarbageIsBlank, NEW c \in Configs, UpdateConfig(c), NEW s \in Server, c[s] # None
  PROVE  SameHealth(s)
  <1>1. \/ states'[s] = states[s]
        \/ states[s] = None /\ states'[s] \in Unreachable
    BY UpdateConfigEffect
  <1>2. CASE states'[s] = states[s]
    <2>1. ASSUME states[s] # None PROVE status'[states[s]] = status[states[s]]
      <3>1. states[s] \in State
        BY <2>1 DEF TypeOK
      <3>2. \/ \A t \in Server : states'[t] # states[s]
            \/ status'[states[s]] = status[states[s]]
        BY <3>1, UpdateConfigEffect
      <3> QED
        BY <1>2, <3>2
    <2> QED
      BY <1>2, <2>1 DEF SameHealth
  <1>3. CASE states[s] = None /\ states'[s] \in Unreachable
    <2>1. states'[s] \in State /\ status[states'[s]] = "unknown"
      BY <1>3 DEF GarbageIsBlank, Unreachable
    <2>2. status'[states'[s]] = status[states'[s]]
      BY <2>1, UpdateConfigEffect
    <2> QED
      BY <1>3, <2>1, <2>2 DEF SameHealth
  <1> QED
    BY <1>1, <1>2, <1>3

\* Goroutines of M, which do not attempt s, do no more than begin to; the others stay.
LEMMA CalmStays ==
  ASSUME NEW s \in Server, Calm(s), \A v, w \in Attempts(s)' : v = w,
         toolCache'[s] = toolCache[s], SameHealth(s),
         NEW M, \A w \in Worker \ M : pc'[w] = pc[w] /\ srv'[w] = srv[w] /\ obj'[w] = obj[w],
         \A w \in Worker \cap M : ~Attempting(w, s) /\ (Attempting(w, s)' => pc'[w] = "start"),
         \A w \in Worker : pc[w] = "fetch" => obj[w] # None
  PROVE  Calm(s)'
  <1>1. Healthy(s)' <=> Healthy(s)
    BY HealthStays
  <1>2. \A w \in Worker \ M : Attempting(w, s)' <=> Attempting(w, s)
    BY DEF Attempting
  <1>3. ASSUME NEW w \in Attempts(s)' PROVE Settling(w, s)'
    <2>1. w \in Worker /\ Attempting(w, s)'
      BY DEF Attempts
    <2>2. CASE w \in M
      BY <2>1, <2>2 DEF Settling
    <2>3. CASE w \notin M
      <3>1. Settling(w, s)
        BY <2>1, <2>3, <1>2 DEF Attempts, Calm
      <3>2. pc[w] = "fetch" => states'[s] = states[s]
        BY <3>1, <2>1 DEF Settling, SameHealth
      <3> QED
        BY <2>1, <2>3, <3>1, <3>2, <1>1 DEF Settling
    <2> QED
      BY <2>2, <2>3
  <1>4. Attempts(s)' = {} => Attempts(s) = {}
    BY <1>2 DEF Attempts
  <1> QED
    BY <1>1, <1>3, <1>4 DEF Calm

LEMMA SettledStep ==
  ASSUME TypeOK, Placed, Separate, GarbageIsBlank, Carries, Settled, ONext
  PROVE  Settled'
  <1> SUFFICES ASSUME NEW s \in Server, Configured(s)', s \notin disturbed'
               PROVE  Calm(s)'
    BY DEF Settled, Calm
  <1>1. /\ cfg'[s] = cfg[s] /\ cfg[s] # None
        /\ \A v, w \in Attempts(s)' : v = w
        /\ ~CacheEmptied(s)
        /\ s \in disturbed => BeginsAlone(s)
    BY DEF ONext, Overlapping, Configured
  \* An attempt that begins alone may have anything behind it.
  <1>2. CASE BeginsAlone(s)
    <2>1. \A w \in Attempts(s)' : pc'[w] = "start"
      BY <1>2, AttemptsBegin DEF BeginsAlone, Attempts, ONext
    <2>2. Attempts(s)' # {}
      BY <1>2 DEF BeginsAlone
    <2>3. \A w \in Attempts(s)' : Settling(w, s)'
      BY <2>1 DEF Settling
    <2> QED
      BY <2>2, <2>3, <1>1 DEF Calm
  <1> SUFFICES ASSUME Calm(s) PROVE Calm(s)'
    BY <1>1, <1>2 DEF Settled, Calm, Configured
  <1>3. \A w \in Worker : /\ pc[w] \in Holding => obj[w] \in State
                          /\ pc[w] \in Concerned => srv[w] \in Server
    BY PlacedAt
  <1>4. \A w \in Worker : pc[w] = "fetch" => obj[w] # None
    BY <1>3 DEF Holding
  \* Only w moves.
  <1>5. ASSUME NEW w \in Worker, NEW l, pc' = [pc EXCEPT ![w] = l],
               \A v \in Worker \ {w} : srv'[v] = srv[v],
               \A v \in Worker \ {w} : obj'[v] = obj[v],
               toolCache'[s] = toolCache[s], SameHealth(s),
               ~Attempting(w, s), Attempting(w, s)' => l = "start"
        PROVE  Calm(s)'
    <2> DEFINE M == {w}
    <2>1. \A v \in Worker \ M : pc'[v] = pc[v] /\ srv'[v] = srv[v] /\ obj'[v] = obj[v]
      BY <1>5 DEF TypeOK
    <2>2. \A v \in Worker \cap M : ~Attempting(v, s) /\ (Attempting(v, s)' => pc'[v] = "start")
      BY <1>5 DEF TypeOK
    <2> HIDE DEF M
    <2> QED
      BY <1>1, <1>4, <1>5, <2>1, <2>2, CalmStays
  \* The attempt on s goes on.
  <1>6. ASSUME NEW w \in Attempts(s)', Settling(w, s)' PROVE Calm(s)'
    BY <1>6, <1>1 DEF Calm
  \* The attempt on s ends.
  <1>7. ASSUME NEW w \in Worker, Attempting(w, s), ~Attempting(w, s)',
               \A v \in Worker \ {w} : Attempting(v, s)' => Attempting(v, s),
               Healthy(s)' <=> toolCache'[s] # None
        PROVE  Calm(s)'
    <2>1. Attempts(s)' = {}
      BY <1>7 DEF Calm, Attempts
    <2> QED
      BY <1>7, <2>1 DEF Calm
  <1>8. ASSUME NEW w \in Worker, Attempting(w, s) PROVE Settling(w, s)
    BY <1>8 DEF Calm, Attempts
  \* An attempt on another server goes on.
  <1>9. ASSUME NEW w \in Worker, NEW l, pc' = [pc EXCEPT ![w] = l],
               pc[w] \in Concerned, srv[w] # s,
               srv' = srv \/ srv' = [srv EXCEPT ![w] = None],
               obj' = obj \/ \E o : obj' = [obj EXCEPT ![w] = o],
               toolCache'[s] = toolCache[s], SameHealth(s)
        PROVE  Calm(s)'
    <2>1. /\ \A v \in Worker \ {w} : srv'[v] = srv[v]
          /\ \A v \in Worker \ {w} : obj'[v] = obj[v]
      BY <1>9 DEF TypeOK
    <2>2. srv'[w] # s
      BY <1>9 DEF TypeOK
    <2>3. ~Attempting(w, s) /\ ~Attempting(w, s)'
      BY <1>9, <2>2 DEF Attempting
    <2> QED
      BY <1>5, <1>9, <2>1, <2>3
  \* Nobody moves within attempts on s.
  <1>10. ASSUME NEW c \in Configs, UpdateConfig(c), srv' = srv, obj' = obj,
                \A w \in Attempts(s) : pc'[w] = pc[w]
         PROVE  SameHealth(s) /\ toolCache'[s] = toolCache[s]
    <2>1. c[s] # None
      BY <1>1, <1>10 DEF UpdateConfig
    <2>2. toolCache'[s] = toolCache[s]
      BY <1>1, <1>10 DEF CacheEmptied
    <2> QED
      BY <1>10, <2>1, <2>2, UpdateConfigKeepsHealth
  <1>11. ASSUME NEW p \in Proc, Request(p) PROVE Calm(s)'
    <2>1. ASSUME NEW c \in Configs, ChangeRegistry(p, c) PROVE Calm(s)'
      <3>1. /\ UpdateConfig(c) /\ srv' = srv /\ obj' = obj
            /\ pc[p] = "idle" /\ pc' = [pc EXCEPT ![p] = "begin"]
        BY <2>1 DEF ChangeRegistry
      <3>2. ~Attempting(p, s) /\ ~Attempting(p, s)'
        BY <3>1 DEF Attempting, TypeOK
      <3>3. \A w \in Attempts(s) : pc'[w] = pc[w]
        BY <3>1, <3>2 DEF Attempts, TypeOK
      <3>4. SameHealth(s) /\ toolCache'[s] = toolCache[s]
        BY <3>1, <3>3, <1>10
      <3> QED
        BY <3>1, <3>2, <3>4, <1>5
    <2>2. CASE \/ RequestRefresh(p)
               \/ \E t \in Server, how \in {"server", "login"} : RequestServer(p, t, how)
      <3>1. /\ pc[p] = "idle" /\ \E l \in {"begin", "login", "start"} : pc' = [pc EXCEPT ![p] = l]
            /\ srv' = srv \/ \E t \in Server : srv' = [srv EXCEPT ![p] = t]
            /\ obj' = obj /\ toolCache' = toolCache /\ states' = states /\ status' = status
        BY <2>2 DEF RequestRefresh, RequestServer, registry, record
      <3>2. PICK l \in {"begin", "login", "start"} : pc' = [pc EXCEPT ![p] = l]
        BY <3>1
      <3>3. ~Attempting(p, s) /\ (Attempting(p, s)' => l = "start")
        BY <3>1, <3>2 DEF Attempting, TypeOK
      <3>4. SameHealth(s) /\ \A v \in Worker \ {p} : srv'[v] = srv[v]
        BY <3>1 DEF SameHealth, TypeOK
      <3> QED
        BY <3>1, <3>2, <3>3, <3>4, <1>5
    <2> QED
      BY <1>11, <2>1, <2>2 DEF Request
  <1>12. CASE SetAuth
    <2>1. UpdateConfig(cfg) /\ cfg \in Configs /\ pc' = pc /\ srv' = srv /\ obj' = obj
      BY <1>12 DEF SetAuth, local, TypeOK
    <2>2. SameHealth(s) /\ toolCache'[s] = toolCache[s]
      BY <2>1, <1>10
    <2> QED
      BY <1>1, <1>4, <2>1, <2>2, CalmStays
  \* Steps outside refreshServer.
  <1>13. ASSUME NEW w \in Worker,
                \/ LoginReturns(w) \/ Snapshot(w) \/ EndSweep(w)
                \/ \E t \in Server : NextServer(w, t)
         PROVE  Calm(s)'
    <2>1. PICK l \in {"start", "idle", "loop"} : pc' = [pc EXCEPT ![w] = l]
      BY <1>13 DEF LoginReturns, Snapshot, EndSweep, NextServer
    <2>2. /\ pc[w] \in {"login", "begin", "loop"}
          /\ obj' = obj /\ states' = states /\ status' = status
          /\ \A v \in Worker \ {w} : srv'[v] = srv[v]
      BY <1>13 DEF LoginReturns, Snapshot, EndSweep, NextServer, registry, record, TypeOK
    <2>3. toolCache'[s] = toolCache[s]
      BY <1>13 DEF LoginReturns, Snapshot, EndSweep, NextServer, registry
    <2>4. ~Attempting(w, s) /\ (Attempting(w, s)' => l = "start")
      BY <2>1, <2>2 DEF Attempting, TypeOK
    <2>5. SameHealth(s)
      BY <2>2 DEF SameHealth
    <2> QED
      BY <2>1, <2>2, <2>3, <2>4, <2>5, <1>5
  <1>14. CASE Tick
    <2>1. /\ pc[Ticker] = "idle" /\ pc' = [pc EXCEPT ![Ticker] = "begin"]
          /\ srv' = srv /\ obj' = obj /\ toolCache' = toolCache /\ SameHealth(s)
      BY <1>14 DEF Tick, registry, record, local, SameHealth
    <2>2. ~Attempting(Ticker, s) /\ ~Attempting(Ticker, s)'
      BY <2>1 DEF Attempting, TypeOK
    <2> QED
      BY <2>1, <2>2, <1>5
  <1>15. ASSUME NEW t \in Server, LookUp(t) PROVE Calm(s)'
    <2>1. PICK o \in State : StateFor(t, o) /\ obj' = [obj EXCEPT ![Ticker] = o]
      BY <1>15 DEF LookUp
    <2>2. /\ pc[Ticker] = "loop" /\ pc' = [pc EXCEPT ![Ticker] = "check"]
          /\ srv' = [srv EXCEPT ![Ticker] = t] /\ toolCache' = toolCache /\ status' = status
      BY <1>15 DEF LookUp, record
    <2>3. SameHealth(s)
      BY <2>1, <2>2, StateForKeepsHealth
    <2>4. ~Attempting(Ticker, s) /\ ~Attempting(Ticker, s)'
      BY <2>2 DEF Attempting, TypeOK
    <2>5. /\ \A v \in Worker \ {Ticker} : srv'[v] = srv[v]
          /\ \A v \in Worker \ {Ticker} : obj'[v] = obj[v]
      BY <2>1, <2>2 DEF TypeOK
    <2> QED
      BY <2>2, <2>3, <2>4, <2>5, <1>5
  <1>16. CASE CheckSkip
    <2>1. /\ Put(Ticker, status[obj[Ticker]], attempts[obj[Ticker]], retryCancel[obj[Ticker]])
          /\ obj' = [obj EXCEPT ![Ticker] = None]
          /\ pc[Ticker] = "check" /\ toolCache' = toolCache /\ states' = states
          /\ srv' = srv \/ srv' = [srv EXCEPT ![Ticker] = None]
      BY <1>16, PutLetsGo DEF CheckSkip
    <2>2. PICK l \in {"loop", "start"} : pc' = [pc EXCEPT ![Ticker] = l]
      BY <1>16 DEF CheckSkip
    <2>3. SameHealth(s)
      BY <2>1, <1>3, PutKeepsHealth DEF Holding
    <2>4. ~Attempting(Ticker, s) /\ (Attempting(Ticker, s)' => l = "start")
      BY <2>1, <2>2 DEF Attempting, TypeOK
    <2>5. /\ \A v \in Worker \ {Ticker} : srv'[v] = srv[v]
          /\ \A v \in Worker \ {Ticker} : obj'[v] = obj[v]
      BY <2>1 DEF TypeOK
    <2> QED
      BY <2>1, <2>2, <2>3, <2>4, <2>5, <1>5
  \* Steps of refreshServer.
  <1>17. ASSUME NEW w \in Worker, StartAttempt(w) \/ LookUpForRetry(w) PROVE Calm(s)'
    <2>1. PICK o \in State, l \in {"fetch", "schedule"} :
            /\ StateFor(srv[w], o) /\ obj' = [obj EXCEPT ![w] = o]
            /\ pc' = [pc EXCEPT ![w] = l]
            /\ l = "schedule" => pc[w] = "backoff"
      BY <1>17 DEF StartAttempt, LookUpForRetry
    <2>2. /\ pc[w] \in {"start", "backoff"} /\ toolCache' = toolCache /\ status' = status
          /\ srv' = srv
      BY <1>17 DEF StartAttempt, LookUpForRetry, record
    <2>3. srv[w] \in Server
      BY <2>2, <1>3 DEF Concerned
    <2>4. SameHealth(s)
      BY <2>1, <2>2, <2>3, StateForKeepsHealth
    <2>5. CASE srv[w] = s
      <3>1. /\ w \in Attempts(s)' /\ Attempting(w, s)
            /\ pc'[w] = l /\ obj'[w] = o
        BY <2>1, <2>2, <2>5 DEF Attempts, Attempting, TypeOK
      <3>2. states'[s] = o
        BY <2>1, <2>3, <2>5, StateForEffect
      <3>3. l = "schedule" => ~Healthy(s)' /\ toolCache'[s] = None
        BY <2>1, <2>2, <2>4, <3>1, <1>8, HealthStays DEF Settling
      <3>4. Settling(w, s)'
        BY <3>1, <3>2, <3>3 DEF Settling
      <3> QED
        BY <3>1, <3>4, <1>6
    <2>6. CASE srv[w] # s
      BY <2>1, <2>2, <2>4, <2>6, <1>9 DEF Concerned
    <2> QED
      BY <2>5, <2>6
  <1>18. ASSUME NEW w \in Worker, NEW st, NEW n, NEW channel, Put(w, st, n, channel),
                NEW l \in {"store", "evict", "park"}, pc' = [pc EXCEPT ![w] = l],
                pc[w] = "fetch", states' = states, srv' = srv, toolCache' = toolCache,
                l = "store" <=> st = "healthy"
         PROVE  Calm(s)'
    <2>1. obj[w] \in State /\ obj' = [obj EXCEPT ![w] = None]
      BY <1>3, <1>18, PutLetsGo DEF Holding
    <2>2. CASE srv[w] = s
      <3>1. w \in Attempts(s)' /\ Attempting(w, s) /\ pc'[w] = l
        BY <1>18, <2>2 DEF Attempts, Attempting, TypeOK
      <3>2. states[s] = obj[w]
        BY <3>1, <1>8, <1>18 DEF Settling
      <3>3. status'[states[s]] = st
        BY <2>1, <3>2, <1>18, PutEffect
      <3>4. Healthy(s)' <=> st = "healthy"
        BY <2>1, <3>2, <3>3, <1>18 DEF Healthy
      <3>5. Settling(w, s)'
        BY <3>1, <3>4, <1>18 DEF Settling
      <3> QED
        BY <3>1, <3>5, <1>6
    <2>3. CASE srv[w] # s
      <3>1. SameHealth(s)
        BY <2>1, <2>3, <1>18, PutKeepsHealth
      <3>2. pc[w] \in Concerned
        BY <1>18 DEF Concerned, Holding
      <3>3. srv' = srv \/ srv' = [srv EXCEPT ![w] = None]
        BY <1>18
      <3>4. obj' = obj \/ \E o : obj' = [obj EXCEPT ![w] = o]
        BY <2>1
      <3>5. pc' = [pc EXCEPT ![w] = l] /\ toolCache'[s] = toolCache[s]
        BY <1>18
      <3> QED
        BY <2>3, <3>1, <3>2, <3>3, <3>4, <3>5, <1>9
    <2> QED
      BY <2>2, <2>3
  <1>19. ASSUME NEW w \in Worker, RecordSuccess(w) PROVE Calm(s)'
    <2>1. /\ Put(w, "healthy", 0, None) /\ pc' = [pc EXCEPT ![w] = "store"]
          /\ pc[w] = "fetch" /\ states' = states /\ srv' = srv /\ toolCache' = toolCache
      BY <1>19 DEF RecordSuccess
    <2> QED
      BY <2>1, <1>18
  <1>20. ASSUME NEW w \in Worker, RecordFailure(w) PROVE Calm(s)'
    <2>1. PICK st \in Statuses \ {"healthy"}, l \in {"park", "evict"} :
            /\ Put(w, st, CountAttempt(obj[w]), retryCancel[obj[w]])
            /\ pc' = [pc EXCEPT ![w] = l]
      BY <1>20 DEF RecordFailure, FailureStatus
    <2>2. pc[w] = "fetch" /\ states' = states /\ srv' = srv /\ toolCache' = toolCache
      BY <1>20 DEF RecordFailure
    <2> QED
      BY <2>1, <2>2, <1>18
  <1>21. ASSUME NEW w \in Worker, StoreTools(w) PROVE Calm(s)'
    <2>1. /\ pc[w] = "store" /\ toolCache' = [toolCache EXCEPT ![srv[w]] = entry[w]]
          /\ srv' = [srv EXCEPT ![w] = None] /\ states' = states /\ status' = status /\ obj' = obj
      BY <1>21 DEF StoreTools, Return, record
    <2>2. PICK l \in {"loop", "idle"} : pc' = [pc EXCEPT ![w] = l]
      BY <1>21 DEF StoreTools, Return
    <2>3. SameHealth(s) /\ (Healthy(s)' <=> Healthy(s))
      BY <2>1 DEF SameHealth, Healthy
    <2>4. CASE srv[w] = s
      <3>1. Attempting(w, s) /\ ~Attempting(w, s)'
        BY <2>1, <2>2, <2>4 DEF Attempting, TypeOK
      <3>2. \A v \in Worker \ {w} : Attempting(v, s)' => Attempting(v, s)
        BY <2>1, <2>2 DEF Attempting, TypeOK
      <3>3. Healthy(s)
        BY <2>1, <3>1, <1>8 DEF Settling
      <3>4. toolCache'[s] = entry[w] /\ entry[w] # None
        BY <2>1, <2>4 DEF Carries, TypeOK
      <3> QED
        BY <2>3, <3>1, <3>2, <3>3, <3>4, <1>7
    <2>5. CASE srv[w] # s
      <3>1. toolCache'[s] = toolCache[s]
        BY <2>1, <2>5 DEF TypeOK
      <3> QED
        BY <2>1, <2>2, <2>3, <2>5, <3>1, <1>9 DEF Concerned
    <2> QED
      BY <2>4, <2>5
  <1>22. ASSUME NEW w \in Worker, EvictTools(w) PROVE Calm(s)'
    <2>1. /\ pc[w] \in {"evict", "park"} /\ toolCache' = [toolCache EXCEPT ![srv[w]] = None]
          /\ states' = states /\ status' = status /\ obj' = obj
      BY <1>22 DEF EvictTools, record
    <2>2. PICK l \in {"loop", "idle", "backoff"} :
            /\ pc' = [pc EXCEPT ![w] = l]
            /\ srv' = IF l = "backoff" THEN srv ELSE [srv EXCEPT ![w] = None]
      BY <1>22 DEF EvictTools, Return
    <2>3. SameHealth(s) /\ (Healthy(s)' <=> Healthy(s))
      BY <2>1 DEF SameHealth, Healthy
    <2>4. CASE srv[w] = s
      <3>1. Attempting(w, s)
        BY <2>1, <2>4 DEF Attempting
      <3>2. ~Healthy(s)' /\ toolCache'[s] = None
        BY <2>1, <2>3, <2>4, <3>1, <1>8 DEF Settling, TypeOK
      <3>3. CASE l = "backoff"
        <4>1. w \in Attempts(s)' /\ pc'[w] = "backoff"
          BY <2>2, <2>4, <3>3 DEF Attempts, Attempting, TypeOK
        <4>2. Settling(w, s)'
          BY <3>2, <4>1 DEF Settling
        <4> QED
          BY <4>1, <4>2, <1>6
      <3>4. CASE l # "backoff"
        <4>1. ~Attempting(w, s)'
          BY <2>2, <3>4 DEF Attempting, TypeOK
        <4>2. \A v \in Worker \ {w} : Attempting(v, s)' => Attempting(v, s)
          BY <2>2, <3>4 DEF Attempting, TypeOK
        <4> QED
          BY <3>1, <3>2, <4>1, <4>2, <1>7
      <3> QED
        BY <3>3, <3>4
    <2>5. CASE srv[w] # s
      <3>1. toolCache'[s] = toolCache[s]
        BY <2>1, <2>5 DEF TypeOK
      <3> QED
        BY <2>1, <2>2, <2>3, <2>5, <3>1, <1>9 DEF Concerned
    <2> QED
      BY <2>4, <2>5
  <1>23. ASSUME NEW w \in Worker, NEW v \in Retrier, ScheduleRetry(w, v) PROVE Calm(s)'
    <2>1. /\ Put(w, status[obj[w]], attempts[obj[w]], v)
          /\ obj' = [obj EXCEPT ![w] = None]
          /\ pc' = [pc EXCEPT ![w] = IF Loops(w) THEN "loop" ELSE "idle", ![v] = "wait"]
          /\ srv' = [srv EXCEPT ![w] = None, ![v] = srv[w]]
          /\ pc[w] = "schedule" /\ (pc[v] = "idle" \/ v = w)
          /\ states' = states /\ toolCache' = toolCache
      BY <1>23, PutLetsGo DEF ScheduleRetry
    <2>2. SameHealth(s)
      BY <2>1, <1>3, PutKeepsHealth DEF Holding
    <2>3. ~Attempting(w, s)' /\ ~Attempting(v, s)'
      BY <2>1 DEF Attempting, TypeOK
    <2>4. \A u \in Worker \ {w, v} : pc'[u] = pc[u] /\ srv'[u] = srv[u] /\ obj'[u] = obj[u]
      BY <2>1 DEF TypeOK
    <2>5. CASE srv[w] = s
      <3>1. Attempting(w, s)
        BY <2>1, <2>5 DEF Attempting
      <3>2. ~Healthy(s)' /\ toolCache'[s] = None
        BY <2>1, <2>2, <3>1, <1>8, HealthStays DEF Settling
      <3>3. \A u \in Worker \ {w} : Attempting(u, s)' => Attempting(u, s)
        BY <2>3, <2>4 DEF Attempting
      <3> QED
        BY <2>3, <3>1, <3>2, <3>3, <1>7
    <2>6. CASE srv[w] # s
      <3>1. ~Attempting(w, s) /\ ~Attempting(v, s)
        BY <2>1, <2>6 DEF Attempting
      <3> DEFINE M == {w, v}
      <3>2. \A u \in Worker \cap M : ~Attempting(u, s) /\ (Attempting(u, s)' => pc'[u] = "start")
        BY <2>3, <3>1
      <3>3. \A u \in Worker \ M : pc'[u] = pc[u] /\ srv'[u] = srv[u] /\ obj'[u] = obj[u]
        BY <2>4
      <3> HIDE DEF M
      <3> QED
        BY <1>1, <1>4, <2>1, <2>2, <3>2, <3>3, CalmStays
    <2> QED
      BY <2>5, <2>6
  <1>24. ASSUME NEW r \in Retrier, TimerExpires(r) PROVE Calm(s)'
    <2>1. /\ pc' = pc /\ srv' = srv /\ obj' = obj /\ toolCache' = toolCache /\ SameHealth(s)
      BY <1>24 DEF TimerExpires, registry, record, local, SameHealth
    <2> QED
      BY <1>1, <1>4, <2>1, CalmStays
  <1>25. ASSUME NEW r \in Retrier, RetryCancelled(r) \/ RetryFires(r) PROVE Calm(s)'
    <2>1. PICK l \in {"start", "idle"} : pc' = [pc EXCEPT ![r] = l]
      BY <1>25 DEF RetryCancelled, RetryFires
    <2>2. /\ pc[r] = "wait" /\ obj' = obj /\ toolCache' = toolCache /\ states' = states
          /\ status' = status /\ \A v \in Worker \ {r} : srv'[v] = srv[v]
      BY <1>25 DEF RetryCancelled, RetryFires, TypeOK
    <2>3. SameHealth(s) /\ ~Attempting(r, s) /\ (Attempting(r, s)' => l = "start")
      BY <2>1, <2>2 DEF SameHealth, Attempting, TypeOK
    <2> QED
      BY <2>1, <2>2, <2>3, <1>5
  <1> QED
    BY <1>11, <1>12, <1>13, <1>14, <1>15, <1>16, <1>17, <1>19, <1>20, <1>21, <1>22, <1>23,
       <1>24, <1>25
    DEF ONext, Next, HandlerStep, TickerStep, RetryStep, Attempt

\* manifest.go:113-119: after an attempt that ran alone a server is healthy just when it has
\* tools in the cache, whatever goes on at other servers.
THEOREM LoneAttemptsAgree == OSpec => []AgreeAfterLoneAttempt
  <1>1. OInit => Carries /\ Settled
    <2> SUFFICES ASSUME OInit PROVE Carries /\ Settled
      OBVIOUS
    <2>1. \A w \in Worker : pc[w] \in {"begin", "idle"}
      BY DEF OInit, Init
    <2>2. \A s \in Server : ~Healthy(s) /\ toolCache[s] = None /\ Attempts(s) = {}
      BY <2>1 DEF OInit, Init, Healthy, Attempts, Attempting
    <2> QED
      BY <2>1, <2>2 DEF Carries, Settled
  <1>2. IInv /\ Carries /\ Settled /\ [ONext]_overlapVars => Carries' /\ Settled'
    <2> SUFFICES ASSUME IInv, Carries, Settled, [ONext]_overlapVars PROVE Carries' /\ Settled'
      OBVIOUS
    <2>1. CASE ONext
      BY <2>1, CarriesStep, SettledStep DEF IInv, ONext
    <2>2. CASE UNCHANGED overlapVars
      BY <2>2 DEF overlapVars, vars, registry, record, local, timers, Carries, Settled, Configured,
                  Attempts, Attempting, Settling, Healthy
    <2> QED
      BY <2>1, <2>2
  <1>3. Settled => AgreeAfterLoneAttempt
    BY DEF Settled, AgreeAfterLoneAttempt, Quiet, Attempts
  <1> QED
    BY <1>1, <1>2, <1>3, OverlapInvariance, PTL DEF OSpec, overlapVars

=============================================================================
