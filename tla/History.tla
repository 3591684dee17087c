------------------------------ MODULE History ------------------------------
(***************************************************************************)
(* The call history: the call, history, clear_history and reload actions   *)
(* of internal/server/server.go and InsertHistory, ListHistory and         *)
(* ClearHistory of internal/store/sqlite.go.                               *)
(*                                                                         *)
(* A call takes the configuration and the store as they are when it        *)
(* arrives and records itself, with those, when it is over.  Meanwhile a   *)
(* reload may change the size of the history, what an alias stands for and *)
(* the database; the previous one is closed.  A statement of the store is  *)
(* atomic: it holds the store's lock, and inserting and pruning are one    *)
(* transaction.                                                            *)
(***************************************************************************)
EXTENDS Integers, FiniteSetsExt, SequencesExt

CONSTANTS
  Handler,   \* connections
  Server,    \* names of servers
  Alias,     \* the alias of one of them, or of none
  Tool,
  Db,        \* database files
  Sizes,     \* values of server.history_size
  Limits,    \* values of --limit
  Every,       \* no filter, no configured target
  DefaultLimit, MaxLimit,  \* 50 and 500 in the code
  MaxCalls   \* bound: calls that are recorded

\* config.Load replaces 0 by a default and refuses less (config.go:130, 269).
ASSUME HistoryAssumption ==
  /\ Sizes \subseteq Nat \ {0} /\ Limits \subseteq Int /\ MaxCalls \in Nat
  /\ DefaultLimit \in Nat \ {0} /\ MaxLimit \in Nat /\ DefaultLimit <= MaxLimit
  /\ Alias \notin Server /\ Every \notin Server \cup {Alias} \cup Tool

VARIABLES
  size, target, db,  \* the configuration: history_size, the alias's server, db_path
  rows,      \* call_history of each database
  nextId,    \* the next id; AUTOINCREMENT never uses one twice in a database
  call,      \* the call of each connection
  lost       \* history: the newest row of each that went without having been cleared

vars == <<size, target, db, rows, nextId, call, lost>>

Ident == Server \cup {Alias}
NoCall == [at |-> "idle"]
Row == [id : 1..MaxCalls, server : Ident, tool : Tool]

TypeOK ==
  /\ size \in Sizes /\ target \in Server \cup {Every} /\ db \in Db
  /\ rows \in [Db -> SUBSET Row] /\ nextId \in 1..MaxCalls + 1
  /\ call \in [Handler -> {NoCall} \cup
       [at : {"calling"}, server : Ident, tool : Tool, size : Sizes, db : Db, open : BOOLEAN]]
  /\ lost \in [Db -> 0..MaxCalls]

Init ==
  /\ size \in Sizes /\ target \in Server \cup {Every} /\ db \in Db
  /\ rows = [d \in Db |-> {}] /\ nextId = 1
  /\ call = [h \in Handler |-> NoCall]
  /\ lost = [d \in Db |-> 0]

\* canonicalServerName: an alias becomes the server's name, any other name stays.
Canonical(i) == IF i = Alias /\ target # Every THEN target ELSE i

Newer(R, r) == {x \in R : x.id > r.id}

\* Fault: one row too few.
NewestButOne(R, n) == {r \in R : Cardinality(Newer(R, r)) < n - 1}

\* SELECT ... ORDER BY id DESC LIMIT n.
Newest(R, n) == {r \in R : Cardinality(Newer(R, r)) < n}

\* WHERE server = s AND tool = t, each of them only if it is given.
Matching(R, s, t) == {r \in R : s \in {Every, r.server} /\ t \in {Every, r.tool}}

\* Of the rows R of d those are lost that are neither there any more nor asked to go.
Loses(d, R, asked) ==
  lost' = [lost EXCEPT ![d] = Max({@} \cup {r.id : r \in R \ (rows'[d] \cup asked)})]

-----------------------------------------------------------------------------
(* Calls. *)

Call(h, i, t) ==
  /\ call[h] = NoCall
  /\ call' = [call EXCEPT ![h] = [at |-> "calling", server |-> Canonical(i), tool |-> t,
                                  size |-> size, db |-> db, open |-> TRUE]]
  /\ UNCHANGED <<size, target, db, rows, nextId, lost>>

\* InsertHistory; its error, the database being closed, is ignored.
Record(h) ==
  /\ call[h] # NoCall
  /\ LET c == call[h]
         r == [id |-> nextId, server |-> c.server, tool |-> c.tool]
     IN IF c.open
          THEN /\ nextId <= MaxCalls
               /\ rows' = [rows EXCEPT ![c.db] = Newest(@ \cup {r}, c.size)]
               /\ nextId' = nextId + 1
               /\ Loses(c.db, rows[c.db] \cup {r}, {})
          ELSE UNCHANGED <<rows, nextId, lost>>
  /\ call' = [call EXCEPT ![h] = NoCall]
  /\ UNCHANGED <<size, target, db>>

-----------------------------------------------------------------------------
(* Clearing and listing. *)

Filter(i) == IF i = Every THEN Every ELSE Canonical(i)

\* What the user asked to be cleared: these rows and no others.
Asked(i, t, all) ==
  {r \in rows[db] : \/ all /\ i = Every /\ t = Every
                    \/ /\ ~all /\ <<i, t>> # <<Every, Every>>
                       /\ i # Every => r.server = Canonical(i)
                       /\ t # Every => r.tool = t}

\* Fault: --all is not asked for.
ClearUnasked(i, t, all) == TRUE

\* ClearHistory refuses to combine --all with a filter, and to do without both.
MayClear(i, t, all) == all <=> (i = Every /\ t = Every)

ClearHistory(i, t, all) ==
  /\ MayClear(i, t, all)
  /\ rows' = [rows EXCEPT ![db] = @ \ Matching(@, Filter(i), t)]
  /\ Loses(db, rows[db], Asked(i, t, all))
  /\ UNCHANGED <<size, target, db, nextId, call>>

\* Fault: a limit beyond the maximum falls back to the default.
EffectiveLimitOrDefault(n) == IF n \in 1..MaxLimit THEN n ELSE DefaultLimit

EffectiveLimit(n) == IF n <= 0 THEN DefaultLimit ELSE IF n > MaxLimit THEN MaxLimit ELSE n

\* ORDER BY id DESC: the k-th row is the one that k - 1 rows are newer than.
NewestFirst(R) ==
  [k \in 1..Cardinality(R) |-> CHOOSE r \in R : Cardinality(Newer(R, r)) = k - 1]

\* ListHistory: the newest first, as the query yields them, and then turned round.
ListHistory(i, t, n) ==
  Reverse(NewestFirst(Newest(Matching(rows[db], Filter(i), t), EffectiveLimit(n))))

-----------------------------------------------------------------------------
(* Reload and crash. *)

\* A reload with another db_path opens that database and closes the present one.
Reload(n, s, d) ==
  /\ <<n, s, d>> # <<size, target, db>>
  /\ size' = n /\ target' = s /\ db' = d
  /\ IF d = db
       THEN UNCHANGED call
       ELSE call' = [h \in Handler |->
                       IF call[h] = NoCall THEN NoCall ELSE [call[h] EXCEPT !.open = FALSE]]
  /\ UNCHANGED <<rows, nextId, lost>>

\* The daemon dies and starts again, with the configuration that is in the file.
Restart ==
  /\ call' = [h \in Handler |-> NoCall]
  /\ UNCHANGED <<size, target, db, rows, nextId, lost>>

Next ==
  \/ \E h \in Handler, i \in Ident, t \in Tool : Call(h, i, t)
  \/ \E h \in Handler : Record(h)
  \/ \E i \in Ident \cup {Every}, t \in Tool \cup {Every}, all \in BOOLEAN : ClearHistory(i, t, all)
  \/ \E n \in Sizes, s \in Server \cup {Every}, d \in Db : Reload(n, s, d)
  \/ Restart

Spec == Init /\ [][Next]_vars

-----------------------------------------------------------------------------
(* Properties. *)

\* What is missing from a database was cleared or is older than all that is there.
NewestSurvive == \A d \in Db : \A r \in rows[d] : lost[d] < r.id

\* Rows are numbered in the order of insertion.
Numbered ==
  \A d \in Db :
    /\ \A r, x \in rows[d] : r.id = x.id => r = x
    /\ lost[d] < nextId /\ \A r \in rows[d] : r.id < nextId

\* A call whose database has not been closed has the one that is configured.
OpenIsPresent ==
  \A h \in Handler : call[h] # NoCall /\ call[h].open => call[h].db = db

\* README.md:409-414 with calls that are recorded while others clear, reload and switch
\* databases: the history is the newest calls, without gaps but for those that were asked
\* to be cleared, and no call is recorded in a database that has been left.
IInv == TypeOK /\ NewestSurvive /\ Numbered /\ OpenIsPresent

\* README.md:413-414, sqlite.go:129-141: a call that is recorded drives out another one
\* only when the history is full, by the size that is configured or, for a call that
\* began under another configuration, by the size it began with.
DropsOnlyWhenFull ==
  [][\A d \in Db :
       rows[d] \subseteq rows'[d] \/ (\A h \in Handler : call'[h] = call[h])
         \/ Cardinality(rows'[d]) >= size
         \/ \E h \in Handler : call[h] # NoCall /\ call'[h] = NoCall
                                 /\ Cardinality(rows'[d]) >= call[h].size]_vars

\* server.go:257-271: a call that is over is in the history of the database it began
\* with, unless a reload has closed that, and that history is no longer than the size the
\* call began with.
AnsweredIsRecorded ==
  [][\A h \in Handler :
       Record(h) /\ call[h].open =>
         /\ Cardinality(rows'[db]) <= call[h].size
         /\ \E r \in rows'[db] \ rows[db] :
              r.server = call[h].server /\ r.tool = call[h].tool]_vars

\* sqlite.go:149-229, README.md:406-408: a listing is the end of the matching part of the
\* history, oldest first; a limit of 0 or less is the default and one beyond the maximum is it.
ListsTheEnd ==
  \A i \in Ident \cup {Every}, t \in Tool \cup {Every}, n \in Limits :
    LET match == {r \in rows[db] : /\ i = Every \/ r.server = Canonical(i)
                                   /\ t = Every \/ r.tool = t}
        list == ListHistory(i, t, n)
    IN  /\ Len(list) = Min({Cardinality(match), MaxLimit, IF n <= 0 THEN DefaultLimit ELSE n})
        /\ \A a \in 1..Len(list) : list[a] \in match
        /\ \A a, b \in 1..Len(list) : a < b => list[a].id < list[b].id
        /\ \A r \in match, a \in 1..Len(list) :
             (\A b \in 1..Len(list) : list[b] # r) => r.id < list[a].id

=============================================================================
