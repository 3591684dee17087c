---------------------------- MODULE OAuthProofs -----------------------------
(***************************************************************************)
(* Proofs about OAuth, for any number of operations, logins and clients.   *)
(***************************************************************************)
EXTENDS OAuth, FiniteSetTheorems, TLAPS

-----------------------------------------------------------------------------
(* Records of operations and logins. *)

LEMMA IdleFits ==
  ASSUME NEW t, NEW c
  PROVE  Fits(Idle, t, c)
<1>1. Idle \in OpType
  BY DEF Idle, OpType
<1>2. Paths(Idle) /\ Operates(Idle, t, c) /\ LogsIn(Idle, t, c)
  BY DEF Idle, Paths, Operates, LogsIn
<1>3. Names(Idle)
  BY DEF Idle, Names, Resource
<1> QED  BY <1>1, <1>2, <1>3 DEF Fits

LEMMA OverFields ==
  ASSUME NEW r \in OpType, NEW result \in {"ok", "login", "failed"}
  PROVE  \E over \in OpType :
           /\ over = Over(r, result)
           /\ over.at = "done" /\ over.login = r.login /\ over.performed = r.performed
           /\ over.result = result
           /\ over.sent = IF r.login /\ result = "ok" THEN r.sent ELSE {}
           /\ over.steady = IF (r.login /\ result = "ok") \/ result = "login" THEN r.steady ELSE FALSE
<1> DEFINE over == Over(r, result)
<1> DEFINE renewable == r.login /\ result = "ok"
           sent == IF renewable THEN r.sent ELSE {}
           steady == r.steady /\ (renewable \/ result = "login")
<1>1. sent \in SUBSET Resource /\ steady \in BOOLEAN
  BY DEF OpType
<1>2. over = [Idle EXCEPT !.at = "done", !.login = r.login, !.performed = r.performed,
                          !.result = result, !.sent = sent, !.steady = steady]
  BY DEF Over
<1>3. sent = (IF r.login /\ result = "ok" THEN r.sent ELSE {})
      /\ steady = IF (r.login /\ result = "ok") \/ result = "login" THEN r.steady ELSE FALSE
  BY DEF OpType
<1>5. over = Over(r, result)
  OBVIOUS
<1> HIDE DEF sent, steady, over
<1>4. /\ over \in OpType
      /\ over.at = "done" /\ over.login = r.login /\ over.performed = r.performed
      /\ over.result = result /\ over.sent = sent /\ over.steady = steady
  BY <1>1, <1>2 DEF Idle, OpType
<1> QED  BY <1>3, <1>4, <1>5

\* An end: with a failure, or as the operation or the login has earned it.
LEMMA OverFits ==
  ASSUME NEW r \in OpType, NEW result \in {"ok", "login", "failed"}, NEW t, NEW c,
         Names(r),
         result = "ok" => r.performed = IF r.login THEN 0 ELSE 1,
         result = "login" => r.performed = 0 /\ ~r.login /\ ~r.steady,
         r.login /\ r.steady /\ result = "ok"
           => t # None /\ t.live /\ r.sent = {t.resource} /\ t.client = c
  PROVE  Fits(Over(r, result), t, c)
<1>1. PICK over \in OpType :
      /\ over = Over(r, result)
      /\ over.at = "done" /\ over.login = r.login /\ over.performed = r.performed
      /\ over.result = result
      /\ over.sent = IF r.login /\ result = "ok" THEN r.sent ELSE {}
      /\ over.steady = IF (r.login /\ result = "ok") \/ result = "login" THEN r.steady ELSE FALSE
  BY OverFields
<1>2. Paths(over)
  BY <1>1 DEF Paths
<1>3. Names(over)
  BY <1>1 DEF Names
<1>4. Operates(over, t, c)
  BY <1>1 DEF Operates
<1>5. LogsIn(over, t, c)
  <2> SUFFICES ASSUME over.login, over.steady
               PROVE  /\ over.at = "done" /\ over.result = "ok"
                      /\ t # None /\ t.live /\ over.sent = {t.resource}
                      /\ t.client = c
    BY <1>1 DEF LogsIn
  <2>1. r.login /\ r.steady /\ result = "ok"
    BY <1>1
  <2> QED  BY <1>1, <2>1
<1> QED  BY <1>1, <1>2, <1>3, <1>4, <1>5 DEF Fits

\* An authorization is required of an operation that is not steady, or is excused.
LEMMA RequiredFits ==
  ASSUME NEW r \in OpType, NEW excused \in BOOLEAN, NEW t, NEW c, Names(r),
         r.performed = 0, r.result = "none", r.at \in {"send", "renew"},
         r.steady => excused
  PROVE  Fits(Required(r, excused), t, c)
<1> DEFINE asks == [r EXCEPT !.at = "flow", !.held = None, !.steady = r.steady /\ ~excused]
<1>1. (r.steady /\ ~excused) = FALSE
  BY DEF OpType
<1>2. asks = [r EXCEPT !.at = "flow", !.held = None, !.steady = FALSE]
  BY <1>1
<1>3. Required(r, excused) = IF r.login THEN asks ELSE Over(asks, "login")
  BY DEF Required
<1> HIDE DEF asks
<1>4. /\ asks \in OpType /\ asks.at = "flow" /\ asks.login = r.login /\ asks.sent = r.sent
      /\ asks.resolved = r.resolved /\ asks.performed = 0 /\ asks.result = "none"
      /\ asks.steady = FALSE
  BY <1>2 DEF OpType
<1>5. Names(asks)
  BY <1>4 DEF Names
<1>6. CASE r.login
  <2>1. Paths(asks) /\ Operates(asks, t, c) /\ LogsIn(asks, t, c)
    BY <1>4, <1>6 DEF Paths, Operates, LogsIn
  <2> QED  BY <1>3, <1>4, <1>5, <1>6, <2>1 DEF Fits
<1>7. CASE ~r.login
  <2>1. Fits(Over(asks, "login"), t, c)
    BY <1>4, <1>5, <1>7, OverFits
  <2> QED  BY <1>3, <1>7, <2>1
<1> QED  BY <1>6, <1>7

\* The store changes under somebody who is not steady from now on.
Disturbed(r, t) ==
  [r EXCEPT !.steady = FALSE, !.held = IF r.held # None /\ r.held = t THEN UsedUp(r.held) ELSE r.held]

LEMMA UsedUpToken ==
  ASSUME NEW t \in Token
  PROVE  UsedUp(t) \in Token /\ UsedUp(t).resource = t.resource /\ UsedUp(t).client = t.client
  BY DEF UsedUp, Token

LEMMA DisturbedFits ==
  ASSUME NEW r, NEW t, NEW c, Fits(r, t, c), NEW s, NEW tt, NEW cc
  PROVE  Fits(Disturbed(r, s), tt, cc)
<1> DEFINE held == IF r.held # None /\ r.held = s THEN UsedUp(r.held) ELSE r.held
           d == Disturbed(r, s)
<1>1. r \in OpType /\ r.held \in Token \cup {None}
  BY DEF Fits, OpType
<1>2. held \in Token \cup {None} /\ (r.held # None => held # None)
  BY <1>1, UsedUpToken, NoneAssumption
<1>3. d = [r EXCEPT !.steady = FALSE, !.held = held]
  BY DEF Disturbed
<1> HIDE DEF held, d
<1>4. /\ d \in OpType /\ d.at = r.at /\ d.login = r.login /\ d.sent = r.sent
      /\ d.resolved = r.resolved /\ d.performed = r.performed /\ d.result = r.result
      /\ d.steady = FALSE /\ d.held = held
  BY <1>1, <1>2, <1>3 DEF OpType
<1>5. Paths(d) /\ Names(d)
  BY <1>4 DEF Fits, Paths, Names
<1>6. Operates(d, tt, cc) /\ LogsIn(d, tt, cc)
  BY <1>2, <1>4 DEF Fits, Operates, LogsIn
<1> QED  BY <1>4, <1>5, <1>6 DEF Fits, d

-----------------------------------------------------------------------------
(* Steps of one operation or login. *)

LEMMA GoesStep ==
  ASSUME IInv, NEW o \in Op, NEW now, Goes(o, now), Fits(now, token, client),
         UNCHANGED <<server, token, client>>
  PROVE  IInv'
<1>1. op \in [Op -> OpType] /\ now \in OpType
  BY DEF IInv, Fits
<1>2. op' \in [Op -> OpType] /\ op'[o] = now /\ \A p \in Op \ {o} : op'[p] = op[p]
  BY <1>1 DEF Goes
<1>3. \A p \in Op : Fits(op'[p], token, client)
  BY <1>2 DEF IInv
<1> QED  BY <1>2, <1>3 DEF IInv

LEMMA WritesStep ==
  ASSUME IInv, NEW o \in Op, NEW now, NEW t, Writes(o, now, t),
         UNCHANGED server, token' \in Token \cup {None}, client' \in Client \cup {None},
         Fits(now, token', client')
  PROVE  IInv'
<1>1. op \in [Op -> OpType] /\ now \in OpType
  BY DEF IInv, Fits
<1>2. op' = [p \in Op |-> IF p = o THEN now ELSE Disturbed(op[p], t)]
  BY DEF Writes, Disturbed
<1>3. \A p \in Op : Fits(op'[p], token', client')
  BY <1>2, DisturbedFits DEF IInv
<1>4. op' \in [Op -> OpType]
  BY <1>2, <1>3 DEF Fits
<1> QED  BY <1>3, <1>4 DEF IInv

LEMMA DisturbStep ==
  ASSUME IInv, NEW t, Disturb(t),
         UNCHANGED server, token' \in Token \cup {None}, client' \in Client \cup {None}
  PROVE  IInv'
<1>1. op' = [p \in Op |-> Disturbed(op[p], t)]
  BY DEF Disturb, Disturbed
<1>2. \A p \in Op : Fits(op'[p], token', client')
  BY <1>1, DisturbedFits DEF IInv
<1>3. op' \in [Op -> OpType]
  BY <1>1, <1>2 DEF Fits
<1> QED  BY <1>2, <1>3 DEF IInv

\* What the invariant says of one of them.
LEMMA OpFacts ==
  ASSUME IInv, NEW o \in Op
  PROVE  /\ op[o] \in OpType /\ Fits(op[o], token, client)
         /\ Paths(op[o]) /\ Names(op[o]) /\ Operates(op[o], token, client)
         /\ LogsIn(op[o], token, client)
         /\ token \in Token \cup {None} /\ client \in Client \cup {None}
  BY DEF IInv, Fits

\* A failure is possible anywhere.
LEMMA FailureStep ==
  ASSUME IInv, NEW o \in Op, Ends(o, "failed"), UNCHANGED <<server, token, client>>
  PROVE  IInv'
<1>1. Fits(Over(op[o], "failed"), token, client)
  BY OpFacts, OverFits
<1> QED  BY <1>1, GoesStep DEF Ends

LEMMA IdleStep ==
  ASSUME IInv, NEW o \in Op, Goes(o, Idle), UNCHANGED <<server, token, client>>
  PROVE  IInv'
  BY IdleFits, GoesStep

\* The resolver keeps what it has found.
LEMMA ResolveKeeps ==
  ASSUME NEW known \in Resource \cup {None}, NEW r \in Resolve(known)
  PROVE  r \in Resource /\ r # None /\ (known # None => r = known)
  BY NoneAssumption DEF Resolve, Published, Resource, Fetches

\* Naming what the resolver says.
LEMMA NamesMore ==
  ASSUME NEW x \in OpType, Names(x), x.at # "done", NEW r \in Resolve(x.resolved)
  PROVE  x.sent \cup {r} = {r} /\ r \in Resource /\ r # None
<1>1. x.resolved \in Resource \cup {None}
  BY DEF OpType
<1>2. r \in Resource /\ r # None /\ (x.resolved # None => r = x.resolved)
  BY <1>1, ResolveKeeps
<1>3. x.sent \subseteq {r}
  BY <1>2 DEF Names
<1> QED  BY <1>2, <1>3

-----------------------------------------------------------------------------
(* Operations. *)

LEMMA BeginOperationStep ==
  ASSUME IInv, NEW o \in Op, BeginOperation(o)
  PROVE  IInv'
<1> DEFINE direct == server.auth # "plain" \/ ~hasOAuthState
           usable == Usable
           now == [Idle EXCEPT !.at = IF direct THEN "direct" ELSE "connect", !.steady = usable]
<1>1. Goes(o, now) /\ UNCHANGED <<server, token, client>>
  BY DEF BeginOperation
<1>2. /\ usable \in BOOLEAN
      /\ usable => token # None /\ token.live /\ token.client = client
  BY DEF Usable
<1> HIDE DEF direct, usable
<1>3. /\ now \in OpType /\ now.at \in {"direct", "connect"} /\ now.login = FALSE /\ now.sent = {}
      /\ now.performed = 0 /\ now.result = "none" /\ now.steady = usable
  BY <1>2 DEF Idle, OpType
<1> HIDE DEF now
<1>4. Paths(now) /\ LogsIn(now, token, client) /\ Operates(now, token, client)
  BY <1>2, <1>3 DEF Paths, LogsIn, Operates
<1>5. Names(now)
  BY <1>3 DEF Names, Resource
<1> QED  BY <1>1, <1>3, <1>4, <1>5, GoesStep DEF Fits

LEMMA UnauthorizedStep ==
  ASSUME IInv, NEW o \in Op, Unauthorized(o)
  PROVE  IInv'
<1> DEFINE now == [op[o] EXCEPT !.at = "connect"]
<1>1. op[o].at = "direct" /\ UNCHANGED <<server, token, client>>
  BY DEF Unauthorized
<1>2. CASE server.auth = "plain"
  <2>1. Goes(o, now)
    BY <1>2 DEF Unauthorized
  <2>2. /\ now \in OpType /\ now.at = "connect" /\ now.login = op[o].login
        /\ now.sent = op[o].sent /\ now.resolved = op[o].resolved
        /\ now.performed = op[o].performed /\ now.result = op[o].result
        /\ now.steady = op[o].steady
    BY OpFacts DEF OpType
  <2> HIDE DEF now
  <2>3. Paths(now) /\ Names(now)
    BY <1>1, <2>2, OpFacts DEF Paths, Names
  <2>4. Operates(now, token, client) /\ LogsIn(now, token, client)
    BY <1>1, <2>2, OpFacts DEF Paths, Operates, LogsIn
  <2> QED  BY <1>1, <2>1, <2>2, <2>3, <2>4, GoesStep DEF Fits
<1>3. CASE server.auth # "plain"
  BY <1>1, <1>3, FailureStep DEF Unauthorized
<1> QED  BY <1>2, <1>3

\* An operation that is over has been performed if it says so.
LEMMA PerformedStep ==
  ASSUME IInv, NEW o \in Op, ~op[o].login, op[o].at \notin {"idle", "done"},
         NEW done \in {0, 1}, NEW result \in {"ok", "failed"}, result = "ok" => done = 1,
         Goes(o, Over([op[o] EXCEPT !.performed = @ + done], result)),
         UNCHANGED <<server, token, client>>
  PROVE  IInv'
<1> DEFINE now == [op[o] EXCEPT !.performed = @ + done]
<1>1. op[o] \in OpType /\ op[o].performed = 0 /\ op[o].performed + done = done
  BY OpFacts DEF Paths
<1>2. now = [op[o] EXCEPT !.performed = done]
  BY <1>1
<1>3. Goes(o, Over(now, result))
  OBVIOUS
<1> HIDE DEF now
<1>4. /\ now \in OpType /\ now.login = FALSE /\ now.performed = done /\ now.at = op[o].at
      /\ now.sent = op[o].sent /\ now.resolved = op[o].resolved
  BY <1>1, <1>2 DEF OpType
<1>5. Names(now)
  BY <1>4, OpFacts DEF Names
<1>6. Fits(Over(now, result), token, client)
  BY <1>4, <1>5, OverFits
<1> QED  BY <1>3, <1>6, GoesStep

LEMMA DirectStep ==
  ASSUME IInv, NEW o \in Op, DirectFails(o) \/ DirectSucceeds(o)
  PROVE  IInv'
<1>1. ~op[o].login /\ op[o].at = "direct" /\ UNCHANGED <<server, token, client>>
  BY OpFacts DEF Paths, DirectFails, DirectSucceeds
<1>2. CASE DirectFails(o)
  <2>1. PICK done \in {0, 1} : Goes(o, Over([op[o] EXCEPT !.performed = @ + done], "failed"))
    BY <1>2 DEF DirectFails
  <2> QED  BY <1>1, <2>1, PerformedStep
<1>3. CASE DirectSucceeds(o)
  <2>1. Goes(o, Over([op[o] EXCEPT !.performed = @ + 1], "ok"))
    BY <1>3 DEF DirectSucceeds
  <2> QED  BY <1>1, <2>1, PerformedStep
<1> QED  BY <1>2, <1>3

LEMMA PerformStep ==
  ASSUME IInv, NEW o \in Op, Perform(o)
  PROVE  IInv'
<1>1. ~op[o].login /\ op[o].at = "open" /\ UNCHANGED <<server, token, client>>
  BY DEF Perform
<1>2. PICK result \in {"ok", "failed"} : Goes(o, Over([op[o] EXCEPT !.performed = @ + 1], result))
  BY DEF Perform
<1> QED  BY <1>1, <1>2, PerformedStep

\* The stored client goes along.
LEMMA ConnectStep ==
  ASSUME IInv, NEW o \in Op, Connect(o)
  PROVE  IInv'
<1> DEFINE now == [op[o] EXCEPT !.at = "send", !.client = client]
<1>1. op[o].at = "connect" /\ Goes(o, now) /\ UNCHANGED <<server, token, client>>
  BY DEF Connect
<1>2. /\ now \in OpType /\ now.at = "send" /\ now.login = op[o].login
      /\ now.sent = op[o].sent /\ now.resolved = op[o].resolved
      /\ now.performed = op[o].performed /\ now.result = op[o].result
      /\ now.steady = op[o].steady /\ now.client = client
  BY OpFacts DEF OpType
<1> HIDE DEF now
<1>3. Paths(now) /\ Names(now)
  BY <1>1, <1>2, OpFacts DEF Paths, Names
<1>4. Operates(now, token, client) /\ LogsIn(now, token, client)
  BY <1>1, <1>2, OpFacts DEF Operates, LogsIn
<1> QED  BY <1>1, <1>2, <1>3, <1>4, GoesStep DEF Fits

LEMMA AcceptedStep ==
  ASSUME IInv, NEW o \in Op, Accepted(o)
  PROVE  IInv'
<1> DEFINE now == [op[o] EXCEPT !.at = "open"]
<1>1. op[o].at = "send" /\ Goes(o, now) /\ UNCHANGED <<server, token, client>>
  BY DEF Accepted
<1>2. /\ now \in OpType /\ now.at = "open" /\ now.login = op[o].login
      /\ now.sent = op[o].sent /\ now.resolved = op[o].resolved
      /\ now.performed = op[o].performed /\ now.result = op[o].result
      /\ now.steady = op[o].steady /\ now.client = op[o].client
  BY OpFacts DEF OpType
<1> HIDE DEF now
<1>3. Paths(now) /\ Names(now)
  BY <1>1, <1>2, OpFacts DEF Paths, Names
<1>4. Operates(now, token, client) /\ LogsIn(now, token, client)
  BY <1>1, <1>2, OpFacts DEF Operates, LogsIn
<1> QED  BY <1>1, <1>2, <1>3, <1>4, GoesStep DEF Fits

LEMMA TokenExpiredStep ==
  ASSUME IInv, NEW o \in Op, TokenExpired(o)
  PROVE  IInv'
<1> DEFINE now == [op[o] EXCEPT !.at = "renew", !.held = token]
<1>1. op[o].at = "send" /\ Goes(o, now) /\ token # None /\ UNCHANGED <<server, token, client>>
  BY DEF TokenExpired
<1>2. /\ now \in OpType /\ now.at = "renew" /\ now.login = op[o].login
      /\ now.sent = op[o].sent /\ now.resolved = op[o].resolved
      /\ now.performed = op[o].performed /\ now.result = op[o].result
      /\ now.steady = op[o].steady /\ now.client = op[o].client /\ now.held = token
  BY OpFacts DEF OpType
<1> HIDE DEF now
<1>3. Paths(now) /\ Names(now)
  BY <1>1, <1>2, OpFacts DEF Paths, Names
<1>4. Operates(now, token, client) /\ LogsIn(now, token, client)
  BY <1>1, <1>2, OpFacts DEF Operates, LogsIn
<1> QED  BY <1>1, <1>2, <1>3, <1>4, GoesStep DEF Fits

LEMMA AuthorizationRequiredStep ==
  ASSUME IInv, NEW o \in Op, AuthorizationRequired(o)
  PROVE  IInv'
<1> DEFINE r == op[o]
<1>1. r.at = "send" /\ UNCHANGED <<server, token, client>>
  BY DEF AuthorizationRequired
<1>2. r \in OpType /\ Names(r) /\ r.performed = 0 /\ r.result = "none"
  BY <1>1, OpFacts DEF Paths
<1>3. r.steady => token # None /\ token.live
  BY <1>1, OpFacts DEF Operates, LogsIn
<1>4. CASE token = None /\ Goes(o, Required(r, FALSE))
  BY <1>1, <1>2, <1>3, <1>4, RequiredFits, GoesStep
<1>5. CASE token # None /\ Goes(o, Required(r, token.live))
  <2>1. token.live \in BOOLEAN
    BY <1>5, OpFacts DEF Token
  <2> QED  BY <1>1, <1>2, <1>3, <1>5, <2>1, RequiredFits, GoesStep
<1> QED  BY <1>4, <1>5 DEF AuthorizationRequired

LEMMA RenewStep ==
  ASSUME IInv, NEW o \in Op, Renew(o)
  PROVE  IInv'
<1> DEFINE x == op[o]
<1>1. PICK r \in Resolve(x.resolved), rotates \in BOOLEAN :
        /\ x.held.live /\ x.held.client = x.client /\ x.held.resource = r
        /\ token' = NewToken(x.client, r)
        /\ Writes(o, [x EXCEPT !.at = "open", !.held = None, !.resolved = r,
                               !.sent = x.sent \cup {r}],
                  IF rotates THEN x.held ELSE None)
  BY DEF Renew
<1>2. x \in OpType /\ x.at = "renew" /\ UNCHANGED <<server, client>>
  BY OpFacts DEF Renew
<1>3. x.sent \cup {r} = {r} /\ r \in Resource /\ r # None
  BY <1>2, OpFacts, NamesMore
<1> DEFINE now == [x EXCEPT !.at = "open", !.held = None, !.resolved = r, !.sent = {r}]
<1>4. Writes(o, now, IF rotates THEN x.held ELSE None)
  BY <1>1, <1>3
<1>5. /\ now \in OpType /\ now.at = "open" /\ now.login = x.login /\ now.sent = {r}
      /\ now.resolved = r /\ now.performed = x.performed /\ now.result = x.result
      /\ now.steady = x.steady /\ now.client = x.client
  BY <1>2, <1>3 DEF OpType
<1> HIDE DEF now
<1>6. token' \in Token /\ token' # None /\ token'.live /\ token'.client = x.client
  <2>1. x.client \in Client \cup {None}
    BY <1>2 DEF OpType
  <2>2. token' = [access |-> "good", client |-> x.client, resource |-> r, live |-> TRUE]
    BY <1>1 DEF NewToken
  <2> HIDE DEF x
  <2>3. token' \in Token /\ token'.live /\ token'.client = x.client
    BY <1>3, <2>1, <2>2 DEF Token
  <2> QED  BY <2>3, NoneAssumption
<1>7. Paths(now) /\ Names(now)
  BY <1>2, <1>3, <1>5, OpFacts DEF Paths, Names
<1>8. Operates(now, token', client') /\ LogsIn(now, token', client')
  BY <1>2, <1>5, <1>6, OpFacts DEF Operates, LogsIn
<1>9. client' \in Client \cup {None} /\ Fits(now, token', client')
  BY <1>2, <1>5, <1>7, <1>8, OpFacts DEF Fits
<1> HIDE DEF x
<1> QED  BY <1>2, <1>4, <1>6, <1>9, WritesStep

LEMMA RenewRefusedStep ==
  ASSUME IInv, NEW o \in Op, RenewRefused(o)
  PROVE  IInv'
<1> DEFINE x == op[o]
<1>1. PICK r \in Resolve(x.resolved) :
        /\ ~x.held.live \/ x.held.client # x.client \/ x.held.resource # r
        /\ Goes(o, Required([x EXCEPT !.resolved = r, !.sent = x.sent \cup {r}],
                            x.held.resource # r))
  BY DEF RenewRefused
<1>2. x \in OpType /\ x.at = "renew" /\ UNCHANGED <<server, token, client>>
  BY OpFacts DEF RenewRefused
<1>3. x.sent \cup {r} = {r} /\ r \in Resource /\ r # None
  BY <1>2, OpFacts, NamesMore
<1>4. ~x.login /\ x.steady => x.held.live /\ x.held.client = x.client
  BY <1>2, OpFacts DEF Operates
<1>5. x.performed = 0 /\ x.result = "none" /\ (x.login => ~x.steady)
  BY <1>2, OpFacts DEF Paths, LogsIn
<1> DEFINE now == [x EXCEPT !.resolved = r, !.sent = {r}]
           other == x.held.resource # r
<1>6. Goes(o, Required(now, other)) /\ other \in BOOLEAN /\ (x.steady => other)
  BY <1>1, <1>3, <1>4, <1>5
<1>7. /\ now \in OpType /\ now.at = "renew" /\ now.sent = {r} /\ now.resolved = r
      /\ now.performed = 0 /\ now.result = "none" /\ now.steady = x.steady
  BY <1>2, <1>3, <1>5 DEF OpType
<1> HIDE DEF now, other, x
<1>8. Names(now)
  BY <1>3, <1>7 DEF Names
<1>9. Fits(Required(now, other), token, client)
  BY <1>6, <1>7, <1>8, RequiredFits
<1> QED  BY <1>2, <1>6, <1>9, GoesStep

LEMMA RenewLostStep ==
  ASSUME IInv, NEW o \in Op, RenewLost(o)
  PROVE  IInv'
<1> DEFINE x == op[o]
           named(r) == [x EXCEPT !.resolved = r, !.sent = {r}]
<1>1. x \in OpType /\ x.at = "renew" /\ UNCHANGED <<server, client>>
  BY OpFacts DEF RenewLost
<1>2. x.performed = 0 /\ x.result = "none" /\ (x.login => ~x.steady)
  BY <1>1, OpFacts DEF Paths, LogsIn
<1>3. x.held \in Token /\ Names(x)
  BY <1>1, OpFacts DEF Operates, OpType
<1>4. CASE Goes(o, Required(x, TRUE)) /\ UNCHANGED token
  <2>1. Fits(Required(x, TRUE), token, client)
    BY <1>1, <1>2, <1>3, RequiredFits
  <2> QED  BY <1>1, <1>4, <2>1, GoesStep
<1>5. ASSUME NEW r \in Resolve(x.resolved),
             \/ Goes(o, Required(named(r), TRUE)) /\ UNCHANGED token
             \/ /\ Writes(o, Required(named(r), TRUE), x.held)
                /\ token' = IF token = x.held THEN UsedUp(token) ELSE token
      PROVE  IInv'
  <2>1. r \in Resource /\ r # None
    BY <1>1, OpFacts, NamesMore
  <2> DEFINE now == named(r)
  <2>2. /\ now \in OpType /\ now.at = "renew" /\ now.sent = {r} /\ now.resolved = r
        /\ now.performed = 0 /\ now.result = "none" /\ now.steady = x.steady
    BY <1>1, <1>2, <2>1 DEF OpType
  <2>3. \/ Goes(o, Required(now, TRUE)) /\ UNCHANGED token
        \/ /\ Writes(o, Required(now, TRUE), x.held)
           /\ token' = IF token = x.held THEN UsedUp(token) ELSE token
    BY <1>5
  <2> HIDE DEF now, x
  <2>4. Names(now)
    BY <2>1, <2>2 DEF Names
  <2>5. \A t, c : Fits(Required(now, TRUE), t, c)
    BY <2>2, <2>4, RequiredFits
  <2>6. CASE Goes(o, Required(now, TRUE)) /\ UNCHANGED token
    BY <1>1, <2>5, <2>6, GoesStep
  <2>7. CASE /\ Writes(o, Required(now, TRUE), x.held)
             /\ token' = IF token = x.held THEN UsedUp(token) ELSE token
    <3>1. token' \in Token \cup {None} /\ client' \in Client \cup {None}
      BY <1>1, <1>3, <2>7, OpFacts, UsedUpToken
    <3> QED  BY <1>1, <2>5, <2>7, <3>1, WritesStep
  <2> QED  BY <2>3, <2>6, <2>7
<1>6. \A r \in Resolve(x.resolved) : x.sent \cup {r} = {r}
  BY <1>1, OpFacts, NamesMore
<1> QED  BY <1>4, <1>5, <1>6 DEF RenewLost

LEMMA LoginNotNeededStep ==
  ASSUME IInv, NEW o \in Op, LoginNotNeeded(o)
  PROVE  IInv'
<1>1. op[o].at = "open" /\ op[o].login /\ Ends(o, "ok") /\ UNCHANGED <<server, token, client>>
  BY DEF LoginNotNeeded
<1>2. op[o] \in OpType /\ Names(op[o]) /\ op[o].performed = 0 /\ ~op[o].steady
  BY <1>1, OpFacts DEF Paths, LogsIn
<1>3. Fits(Over(op[o], "ok"), token, client)
  BY <1>1, <1>2, OverFits
<1> QED  BY <1>1, <1>3, GoesStep DEF Ends

-----------------------------------------------------------------------------
(* Logins. *)

LEMMA BeginLoginStep ==
  ASSUME IInv, NEW o \in Op, NEW manual \in BOOLEAN, BeginLogin(o, manual)
  PROVE  IInv'
<1> DEFINE now == [Idle EXCEPT !.at = "connect", !.login = TRUE, !.manual = manual]
           refused == [Idle EXCEPT !.login = TRUE]
<1>1. UNCHANGED <<server, token, client>>
  BY DEF BeginLogin
<1>2. CASE Goes(o, now)
  <2>1. /\ now \in OpType /\ now.at = "connect" /\ now.login = TRUE /\ now.sent = {}
        /\ now.performed = 0 /\ now.result = "none" /\ now.steady = FALSE
    BY DEF Idle, OpType
  <2> HIDE DEF now
  <2>2. Paths(now) /\ Operates(now, token, client) /\ LogsIn(now, token, client)
    BY <2>1 DEF Paths, Operates, LogsIn
  <2>3. Names(now)
    BY <2>1 DEF Names, Resource
  <2> QED  BY <1>1, <1>2, <2>1, <2>2, <2>3, GoesStep DEF Fits
<1>3. CASE Goes(o, Over(refused, "failed"))
  <2>1. refused \in OpType /\ refused.at = "idle" /\ refused.sent = {}
    BY DEF Idle, OpType
  <2> HIDE DEF refused
  <2>2. Names(refused)
    BY <2>1 DEF Names, Resource
  <2>3. Fits(Over(refused, "failed"), token, client)
    BY <2>1, <2>2, OverFits
  <2> QED  BY <1>1, <1>3, <2>3, GoesStep
<1> QED  BY <1>2, <1>3 DEF BeginLogin

\* A login that has no token yet.
LEMMA FlowStep ==
  ASSUME IInv, NEW o \in Op, op[o].at \in {"flow", "wait", "exchange"},
         NEW now \in OpType, now.at \in {"flow", "wait", "exchange"}, Names(now),
         now.login = op[o].login, now.performed = op[o].performed,
         now.result = op[o].result, now.steady = op[o].steady,
         Goes(o, now), UNCHANGED <<server, token, client>>
  PROVE  IInv'
<1>1. op[o].login /\ ~op[o].steady
  BY OpFacts DEF Paths, LogsIn
<1>2. Paths(now) /\ Operates(now, token, client) /\ LogsIn(now, token, client)
  BY <1>1, OpFacts DEF Paths, Operates, LogsIn
<1> QED  BY <1>2, GoesStep DEF Fits

LEMMA RegisterStep ==
  ASSUME IInv, NEW o \in Op, Register(o)
  PROVE  IInv'
<1>1. PICK c \in Client : Goes(o, [op[o] EXCEPT !.client = c])
  BY DEF Register
<1> DEFINE now == [op[o] EXCEPT !.client = c]
<1>2. op[o].at = "flow" /\ Goes(o, now) /\ UNCHANGED <<server, token, client>>
  BY <1>1 DEF Register
<1>3. /\ now \in OpType /\ now.at = "flow" /\ now.login = op[o].login
      /\ now.sent = op[o].sent /\ now.resolved = op[o].resolved
      /\ now.performed = op[o].performed /\ now.result = op[o].result
      /\ now.steady = op[o].steady
  BY <1>2, OpFacts DEF OpType
<1> HIDE DEF now
<1>4. Names(now)
  BY <1>2, <1>3, OpFacts DEF Names
<1> QED  BY <1>2, <1>3, <1>4, FlowStep

LEMMA AuthorizeStep ==
  ASSUME IInv, NEW o \in Op, Authorize(o)
  PROVE  IInv'
<1> DEFINE x == op[o]
<1>1. x.at = "flow" /\ x \in OpType /\ Names(x) /\ UNCHANGED <<server, token, client>>
  BY OpFacts DEF Authorize
<1>2. PICK r \in Resolve(x.resolved) :
        Goes(o, [x EXCEPT !.at = "wait", !.resolved = r, !.sent = x.sent \cup {r}])
  BY DEF Authorize
<1>3. x.sent \cup {r} = {r} /\ r \in Resource /\ r # None
  BY <1>1, NamesMore
<1> DEFINE now == [x EXCEPT !.at = "wait", !.resolved = r, !.sent = {r}]
<1>4. Goes(o, now)
  BY <1>2, <1>3
<1>5. /\ now \in OpType /\ now.at = "wait" /\ now.login = x.login /\ now.sent = {r}
      /\ now.resolved = r /\ now.performed = x.performed /\ now.result = x.result
      /\ now.steady = x.steady
  BY <1>1, <1>3 DEF OpType
<1> HIDE DEF now
<1>6. Names(now)
  BY <1>3, <1>5 DEF Names
<1> QED  BY <1>1, <1>4, <1>5, <1>6, FlowStep

LEMMA CallbackStep ==
  ASSUME IInv, NEW o \in Op, NEW p \in Params, Callback(o, p)
  PROVE  IInv'
<1> DEFINE now == [op[o] EXCEPT !.inbox = p]
<1>1. Goes(o, now) /\ UNCHANGED <<server, token, client>>
  BY DEF Callback
<1>2. /\ now \in OpType /\ now.at = op[o].at /\ now.login = op[o].login
      /\ now.sent = op[o].sent /\ now.resolved = op[o].resolved
      /\ now.performed = op[o].performed /\ now.result = op[o].result
      /\ now.steady = op[o].steady /\ now.client = op[o].client /\ now.held = op[o].held
  BY OpFacts DEF OpType
<1> HIDE DEF now
<1>3. Paths(now) /\ Names(now)
  BY <1>2, OpFacts DEF Paths, Names
<1>4. Operates(now, token, client) /\ LogsIn(now, token, client)
  BY <1>2, OpFacts DEF Operates, LogsIn
<1> QED  BY <1>1, <1>2, <1>3, <1>4, GoesStep DEF Fits

LEMMA ReceivesStep ==
  ASSUME IInv, NEW o \in Op, NEW p \in Params, op[o].at = "wait", Receives(o, p),
         UNCHANGED <<server, token, client>>
  PROVE  IInv'
<1> DEFINE now == [op[o] EXCEPT !.at = "exchange", !.inbox = p]
<1>1. CASE p \in {"code", "other code"}
  <2>1. Goes(o, now)
    BY <1>1 DEF Receives
  <2>2. /\ now \in OpType /\ now.at = "exchange" /\ now.login = op[o].login
        /\ now.sent = op[o].sent /\ now.resolved = op[o].resolved
        /\ now.performed = op[o].performed /\ now.result = op[o].result
        /\ now.steady = op[o].steady
    BY OpFacts DEF OpType
  <2> HIDE DEF now
  <2>3. Names(now)
    BY <2>2, OpFacts DEF Names
  <2> QED  BY <2>1, <2>2, <2>3, FlowStep
<1>2. CASE p \notin {"code", "other code"}
  BY <1>2, FailureStep DEF Receives
<1> QED  BY <1>1, <1>2

LEMMA ReadStep ==
  ASSUME IInv, NEW o \in Op, ReadCallback(o) \/ \E p \in Params : ReadManual(o, p)
  PROVE  IInv'
<1>1. op[o].at = "wait" /\ UNCHANGED <<server, token, client>>
  BY DEF ReadCallback, ReadManual
<1>2. CASE ReadCallback(o)
  <2>1. op[o].inbox \in Params /\ Receives(o, op[o].inbox)
    BY <1>2, OpFacts DEF ReadCallback, OpType
  <2> QED  BY <1>1, <2>1, ReceivesStep
<1>3. CASE \E p \in Params : ReadManual(o, p)
  BY <1>1, <1>3, ReceivesStep DEF ReadManual
<1> QED  BY <1>2, <1>3

\* The token is for the client and the resource of the authorization.
LEMMA ExchangeStep ==
  ASSUME IInv, NEW o \in Op, Exchange(o)
  PROVE  IInv'
<1> DEFINE x == op[o]
<1>1. /\ x.at = "exchange" /\ x \in OpType /\ Names(x) /\ x.login
      /\ x.performed = 0 /\ x.result = "none" /\ UNCHANGED <<server, client>>
  BY OpFacts DEF Exchange, Paths
<1>2. PICK r \in Resolve(x.resolved) :
        /\ token' = NewToken(x.client, r)
        /\ Writes(o, [x EXCEPT !.at = "persist", !.sent = x.sent \cup {r}, !.steady = TRUE], None)
  BY DEF Exchange
<1>3. x.sent \cup {r} = {r} /\ r \in Resource /\ r # None
  BY <1>1, NamesMore
<1>4. r = x.resolved
  <2>1. x.resolved # None /\ x.resolved \in Resource
    BY <1>1 DEF Names, OpType
  <2> QED  BY <2>1, ResolveKeeps
<1> DEFINE now == [x EXCEPT !.at = "persist", !.sent = {r}, !.steady = TRUE]
<1>5. Writes(o, now, None)
  BY <1>2, <1>3
<1>6. /\ now \in OpType /\ now.at = "persist" /\ now.login = x.login /\ now.sent = {r}
      /\ now.resolved = r /\ now.performed = x.performed /\ now.result = x.result
      /\ now.steady = TRUE /\ now.client = x.client
  BY <1>1, <1>3, <1>4 DEF OpType
<1>7. /\ token' \in Token /\ token' # None /\ token'.live /\ token'.client = x.client
      /\ token'.resource = r
  <2>1. x.client \in Client \cup {None}
    BY <1>1 DEF OpType
  <2>2. token' = [access |-> "good", client |-> x.client, resource |-> r, live |-> TRUE]
    BY <1>2 DEF NewToken
  <2> HIDE DEF x
  <2>3. token' \in Token /\ token'.live /\ token'.client = x.client /\ token'.resource = r
    BY <1>3, <2>1, <2>2 DEF Token
  <2> QED  BY <2>3, NoneAssumption
<1> HIDE DEF now
<1>8. Paths(now) /\ Names(now)
  BY <1>1, <1>3, <1>6 DEF Paths, Names
<1>9. Operates(now, token', client') /\ LogsIn(now, token', client')
  BY <1>1, <1>6, <1>7 DEF Operates, LogsIn
<1>10. client' \in Client \cup {None} /\ Fits(now, token', client')
  BY <1>1, <1>6, <1>8, <1>9, OpFacts DEF Fits
<1> HIDE DEF x
<1> QED  BY <1>1, <1>5, <1>7, <1>10, WritesStep

LEMMA ExchangeFailsStep ==
  ASSUME IInv, NEW o \in Op, ExchangeFails(o)
  PROVE  IInv'
<1> DEFINE x == op[o]
<1>1. x.at = "exchange" /\ x \in OpType /\ Names(x) /\ UNCHANGED <<server, token, client>>
  BY OpFacts DEF ExchangeFails
<1>2. PICK r \in Resolve(x.resolved) : Goes(o, Over([x EXCEPT !.sent = x.sent \cup {r}], "failed"))
  BY DEF ExchangeFails
<1>3. x.sent \cup {r} = {r} /\ r \in Resource /\ r # None
  BY <1>1, NamesMore
<1>4. r = x.resolved
  <2>1. x.resolved # None /\ x.resolved \in Resource
    BY <1>1 DEF Names, OpType
  <2> QED  BY <2>1, ResolveKeeps
<1> DEFINE now == [x EXCEPT !.sent = {r}]
<1>5. Goes(o, Over(now, "failed"))
  BY <1>2, <1>3
<1>6. now \in OpType /\ now.at = "exchange" /\ now.sent = {r} /\ now.resolved = r
  BY <1>1, <1>3, <1>4 DEF OpType
<1> HIDE DEF now
<1>7. Names(now)
  BY <1>3, <1>6 DEF Names
<1>8. Fits(Over(now, "failed"), token, client)
  BY <1>6, <1>7, OverFits
<1> QED  BY <1>1, <1>5, <1>8, GoesStep

LEMMA PersistStep ==
  ASSUME IInv, NEW o \in Op, Persist(o)
  PROVE  IInv'
<1>1. /\ op[o].at = "persist" /\ client' = op[o].client /\ UNCHANGED <<server, token>>
      /\ Writes(o, Over(op[o], "ok"), None)
  BY DEF Persist
<1>2. op[o] \in OpType /\ Names(op[o]) /\ op[o].login /\ op[o].performed = 0
  BY <1>1, OpFacts DEF Paths
<1>3. op[o].steady => /\ token # None /\ token.live /\ op[o].sent = {token.resource}
                      /\ token.client = op[o].client
  BY <1>1, <1>2, OpFacts DEF LogsIn
<1>4. Fits(Over(op[o], "ok"), token', client')
  BY <1>1, <1>2, <1>3, OverFits
<1>5. token' \in Token \cup {None} /\ client' \in Client \cup {None}
  BY <1>1, <1>2, OpFacts DEF OpType
<1> QED  BY <1>1, <1>4, <1>5, WritesStep

LEMMA PersistFailsStep ==
  ASSUME IInv, NEW o \in Op, PersistFails(o)
  PROVE  IInv'
<1> DEFINE now == [op[o] EXCEPT !.steady = FALSE]
<1>1. /\ op[o].at = "persist" /\ Goes(o, Over(now, "ok")) /\ UNCHANGED <<server, token, client>>
  BY DEF PersistFails
<1>2. Names(op[o]) /\ op[o].login /\ op[o].performed = 0
  BY <1>1, OpFacts DEF Paths
<1>3. /\ now \in OpType /\ now.at = "persist" /\ now.login = op[o].login
      /\ now.sent = op[o].sent /\ now.resolved = op[o].resolved
      /\ now.performed = op[o].performed /\ now.steady = FALSE
  BY <1>1, OpFacts DEF OpType
<1> HIDE DEF now
<1>4. Names(now)
  BY <1>1, <1>2, <1>3 DEF Names
<1>5. Fits(Over(now, "ok"), token, client)
  BY <1>2, <1>3, <1>4, OverFits
<1> QED  BY <1>1, <1>5, GoesStep

-----------------------------------------------------------------------------
(* The rest of the world. *)

LEMMA ExpiresStep ==
  ASSUME IInv, Expires
  PROVE  IInv'
<1>1. token \in Token /\ token # None /\ UNCHANGED <<server, client, op>>
  BY DEF IInv, Expires
<1>2. /\ token' \in Token /\ token'.client = token.client /\ token'.resource = token.resource
      /\ token'.live = token.live
  BY <1>1 DEF Expires, Token
<1>3. token' # None
  BY <1>2, NoneAssumption
<1>4. ASSUME NEW o \in Op
      PROVE  Fits(op[o], token', client)
  <2>1. Operates(op[o], token', client)
    BY <1>1, <1>2, <1>3, OpFacts DEF Operates
  <2>2. LogsIn(op[o], token', client)
    BY <1>1, <1>2, <1>3, OpFacts DEF LogsIn
  <2> QED  BY <2>1, <2>2, OpFacts DEF Fits
<1> QED  BY <1>1, <1>2, <1>4 DEF IInv

LEMMA WorldStep ==
  ASSUME IInv, World
  PROVE  IInv'
<1>1. token \in Token \cup {None} /\ client \in Client \cup {None}
  BY DEF IInv
<1>2. CASE Expires
  BY <1>2, ExpiresStep
<1>3. CASE Revoked
  <2>1. token' \in Token
    BY <1>1, <1>3, UsedUpToken DEF Revoked
  <2> QED  BY <1>1, <1>3, <2>1, DisturbStep DEF Revoked
<1>4. CASE Logout
  BY <1>1, <1>4, DisturbStep DEF Logout
<1>5. CASE \E c \in Client : SetAuth(c)
  BY <1>1, <1>5, DisturbStep DEF SetAuth
<1> QED  BY <1>2, <1>3, <1>4, <1>5 DEF World

-----------------------------------------------------------------------------
(* The theorems. *)

\* Nothing is stored and nothing under way.
THEOREM InvariantInit == Init => IInv
<1> SUFFICES ASSUME Init
             PROVE  IInv
  OBVIOUS
<1>1. \A o \in Op : op[o] = Idle
  BY DEF Init
<1>2. op \in [Op -> OpType]
  BY IdleFits DEF Init, Fits
<1> QED  BY <1>1, <1>2, IdleFits DEF Init, IInv

\* Every step of an operation, a login or the rest of the world keeps the invariant.
THEOREM InvariantStep == IInv /\ [Next]_vars => IInv'
<1> SUFFICES ASSUME IInv, [Next]_vars
             PROVE  IInv'
  OBVIOUS
<1>1. CASE World
  BY <1>1, WorldStep
<1>2. ASSUME NEW o \in Op, BeginOperation(o)
      PROVE  IInv'
  BY <1>2, BeginOperationStep
<1>3. ASSUME NEW o \in Op, NEW manual \in BOOLEAN, BeginLogin(o, manual)
      PROVE  IInv'
  BY <1>3, BeginLoginStep
<1>4. ASSUME NEW o \in Op, Fallback(o)
      PROVE  IInv'
  <2>1. CASE ConnectionFails(o)
    BY <2>1, FailureStep DEF ConnectionFails
  <2> QED  BY <1>4, <2>1, UnauthorizedStep, DirectStep, ConnectStep, AuthorizationRequiredStep,
              AcceptedStep, TokenExpiredStep, RenewStep, RenewRefusedStep, RenewLostStep,
              PerformStep, LoginNotNeededStep DEF Fallback
<1>5. ASSUME NEW o \in Op, Flow(o)
      PROVE  IInv'
  <2>1. CASE FlowFails(o) \/ WaitFails(o)
    BY <2>1, FailureStep DEF FlowFails, WaitFails
  <2> QED  BY <1>5, <2>1, RegisterStep, AuthorizeStep, CallbackStep, ReadStep, ExchangeStep,
              ExchangeFailsStep, PersistStep, PersistFailsStep DEF Flow
<1>6. ASSUME NEW o \in Op, Return(o) \/ Dies(o)
      PROVE  IInv'
  BY <1>6, IdleStep DEF Return, Dies
<1>7. CASE UNCHANGED vars
  BY <1>7 DEF vars, IInv
<1> QED  BY <1>1, <1>2, <1>3, <1>4, <1>5, <1>6, <1>7 DEF Next

\* Operations, logins and the store stay in order.
THEOREM Invariance == Spec => []IInv
  BY InvariantInit, InvariantStep, PTL DEF Spec

\* An operation is performed once, and not at all before a login it asks for.
THEOREM OperationsArePerformedOnce == Spec => []PerformedOnce
<1>1. IInv => PerformedOnce
  <2> SUFFICES ASSUME IInv, NEW o \in Op
               PROVE  /\ op[o].performed <= 1
                      /\ op[o].result = "ok" => op[o].performed = IF op[o].login THEN 0 ELSE 1
                      /\ op[o].result = "login" => op[o].performed = 0
    BY DEF PerformedOnce
  <2>1. op[o].performed \in {0, 1}
    BY OpFacts DEF OpType
  <2> QED  BY <2>1, OpFacts DEF Paths
<1> QED  BY <1>1, Invariance, PTL

\* One operation names one resource.
THEOREM OperationsNameOneResource == Spec => []OneResource
<1>1. IInv => OneResource
  <2> SUFFICES ASSUME IInv, NEW o \in Op
               PROVE  op[o].sent \subseteq Resource /\ Cardinality(op[o].sent) <= 1
    BY DEF OneResource
  <2>1. op[o].sent \subseteq Resource
    BY OpFacts DEF OpType
  <2>2. PICK x \in Resource : op[o].sent \subseteq {x}
    BY OpFacts DEF Names
  <2>3. op[o].sent = {} \/ op[o].sent = {x}
    BY <2>2
  <2>4. Cardinality(op[o].sent) <= 1
    <3>1. Cardinality({}) = 0 /\ Cardinality({x}) = 1
      BY FS_EmptySet, FS_Singleton
    <3> QED  BY <2>3, <3>1
  <2> QED  BY <2>1, <2>4
<1> QED  BY <1>1, Invariance, PTL

\* A login that had the store for itself leaves a token that can be renewed.
THEOREM LoginsAreRenewable == Spec => []LoginIsRenewable
<1>1. IInv => LoginIsRenewable
  <2> SUFFICES ASSUME IInv, NEW o \in Op, op[o].login, op[o].result = "ok", op[o].steady
               PROVE  /\ token # None /\ token.live
                      /\ token.client = client
                      /\ op[o].sent = {token.resource}
    BY DEF LoginIsRenewable
  <2>1. op[o].at = "done"
    BY OpFacts DEF Paths
  <2> QED  BY <2>1, OpFacts DEF LogsIn
<1> QED  BY <1>1, Invariance, PTL

\* An operation that has the store for itself asks for a login only if it needs one.
THEOREM NoLoginIsNeedless == Spec => []NoNeedlessLogin
<1>1. IInv => NoNeedlessLogin
  BY OpFacts DEF NoNeedlessLogin, Operates
<1> QED  BY <1>1, Invariance, PTL

=============================================================================
