-------------------------- MODULE CredentialsProofs --------------------------
(***************************************************************************)
(* Proofs about Credentials, for any endpoints and any number of operations. *)
(***************************************************************************)
EXTENDS Credentials, TLAPS

USE CredentialsAssumption
    DEF config, store, ghosts, Maybe, NoJob, NoOp, NoLogout, JobStep, OpStep

\* An operation that does not run has loaded no client.
LEMMA NobodyHasAClient ==
  ASSUME TypeOK, Runners = {}, NEW o \in Op
  PROVE  op[o].cred = None
  BY DEF TypeOK, Runners

LEMMA AddServerStep ==
  ASSUME IInv, NEW e \in Endpoint, NEW b \in BOOLEAN, AddServer(e, b)
  PROVE  IInv'
  <1> USE DEF IInv, AddServer, ChangeBegins
  <1>1. TypeOK'
    BY DEF TypeOK
  <1>2. Formed'
    BY DEF Formed
  <1>3. TokenLine'
    BY DEF TokenLine
  <1>4. ClientLine'
    BY DEF ClientLine
  <1>5. LogoutLine'
    BY DEF LogoutLine, Runners
  <1> QED
    BY <1>1, <1>2, <1>3, <1>4, <1>5

LEMMA RemoveServerStep ==
  ASSUME IInv, RemoveServer
  PROVE  IInv'
  <1> USE DEF IInv, RemoveServer, ChangeBegins
  <1>1. TypeOK'
    BY DEF TypeOK
  <1>2. Formed'
    BY DEF Formed
  <1>3. TokenLine'
    BY DEF TokenLine
  <1>4. ClientLine'
    BY DEF ClientLine
  <1>5. LogoutLine'
    BY DEF LogoutLine, Runners
  <1> QED
    BY <1>1, <1>2, <1>3, <1>4, <1>5

LEMMA SetAuthStep ==
  ASSUME IInv, NEW b \in BOOLEAN, SetAuth(b)
  PROVE  IInv'
  <1> USE DEF IInv, SetAuth, ChangeBegins
  <1>1. TypeOK'
    BY DEF TypeOK
  <1>2. Formed'
    BY DEF Formed
  <1>3. TokenLine'
    BY DEF TokenLine
  <1>4. ClientLine'
    BY DEF ClientLine
  <1>5. LogoutLine'
    BY DEF LogoutLine, Runners
  <1> QED
    BY <1>1, <1>2, <1>3, <1>4, <1>5

LEMMA ReloadStep ==
  ASSUME IInv, Reload
  PROVE  IInv'
  <1> USE DEF IInv, Reload, ChangeBegins, Repointed, ByName
  <1>1. TypeOK'
    BY DEF TypeOK
  <1>2. Formed'
    BY DEF TypeOK, Formed, Statement, StoreHeld
  <1>3. TokenLine'
    BY DEF TokenLine
  <1>4. ClientLine'
    BY DEF ClientLine
  <1>5. LogoutLine'
    BY DEF LogoutLine, Runners
  <1> QED
    BY <1>1, <1>2, <1>3, <1>4, <1>5

LEMMA SaveStep ==
  ASSUME IInv, Save
  PROVE  IInv'
  <1> USE DEF IInv, Save, AfterSave, Forgets
  <1>1. TypeOK'
    BY DEF TypeOK
  <1>2. Formed'
    BY DEF TypeOK, Formed, Statement, StoreHeld
  <1>3. TokenLine'
    BY DEF TypeOK, Formed, TokenLine, Statement, StoreHeld
  <1>4. ClientLine'
    BY DEF TypeOK, Formed, ClientLine, Statement, StoreHeld
  <1>5. LogoutLine'
    BY DEF LogoutLine, Runners
  <1> QED
    BY <1>1, <1>2, <1>3, <1>4, <1>5

LEMMA ForgetLegacyStep ==
  ASSUME IInv, ForgetLegacy
  PROVE  IInv'
  <1> USE DEF IInv, ForgetLegacy, StoreFails, ByName
  <1>1. TypeOK'
    BY DEF TypeOK
  <1>2. Formed'
    BY DEF TypeOK, Formed, Statement, StoreHeld
  <1>3. TokenLine'
    BY DEF TokenLine
  <1>4. ClientLine'
    BY DEF TypeOK, Formed, ClientLine, Statement, StoreHeld
  <1>5. LogoutLine'
    BY DEF LogoutLine, Runners
  <1> QED
    BY <1>1, <1>2, <1>3, <1>4, <1>5

LEMMA ForgetBoundStep ==
  ASSUME IInv, ForgetBound
  PROVE  IInv'
  <1> USE DEF IInv, ForgetBound, StoreFails, ByName
  <1>1. TypeOK'
    BY DEF TypeOK
  <1>2. Formed'
    BY DEF Formed
  <1>3. TokenLine'
    BY DEF TypeOK, Formed, TokenLine, Statement, StoreHeld
  <1>4. ClientLine'
    BY DEF ClientLine
  <1>5. LogoutLine'
    BY DEF LogoutLine, Runners
  <1> QED
    BY <1>1, <1>2, <1>3, <1>4, <1>5

LEMMA ForgetClientStep ==
  ASSUME IInv, ForgetClient
  PROVE  IInv'
  <1> USE DEF IInv, ForgetClient, StoreFails, ClientDeleted, ByName, AfterForget
  <1>1. TypeOK'
    BY DEF TypeOK
  <1>2. Formed'
    BY DEF Formed
  <1>3. TokenLine'
    BY DEF TokenLine
  <1>4. ClientLine'
    <2>1. CASE ClientDeleted /\ Runners = {}
      BY <2>1, NobodyHasAClient DEF ClientLine
    <2>2. CASE ~(ClientDeleted /\ Runners = {})
      BY <2>2 DEF ClientLine
    <2> QED
      BY <2>1, <2>2
  <1>5. LogoutLine'
    BY DEF LogoutLine, Runners
  <1> QED
    BY <1>1, <1>2, <1>3, <1>4, <1>5

LEMMA SaveOwnClientStep ==
  ASSUME IInv, SaveOwnClient
  PROVE  IInv'
  <1> USE DEF IInv, SaveOwnClient, StoreFails, ByName
  <1>1. TypeOK'
    BY DEF TypeOK
  <1>2. Formed'
    BY DEF TypeOK, Formed, Statement, StoreHeld
  <1>3. TokenLine'
    BY DEF TypeOK, Formed, TokenLine, Statement, StoreHeld
  <1>4. ClientLine'
    BY DEF TypeOK, Formed, ClientLine, Statement, StoreHeld
  <1>5. LogoutLine'
    BY DEF LogoutLine, Runners
  <1> QED
    BY <1>1, <1>2, <1>3, <1>4, <1>5

LEMMA CommitStep ==
  ASSUME IInv, Commit
  PROVE  IInv'
  <1> USE DEF IInv, Commit
  <1>1. TypeOK'
    BY DEF TypeOK
  <1>2. Formed'
    BY DEF Formed
  <1>3. TokenLine'
    BY DEF TokenLine
  <1>4. ClientLine'
    BY DEF ClientLine
  <1>5. LogoutLine'
    BY DEF LogoutLine, Runners
  <1> QED
    BY <1>1, <1>2, <1>3, <1>4, <1>5

LEMMA BeginStep ==
  ASSUME IInv, NEW o \in Op, NEW l \in BOOLEAN, NEW x \in BOOLEAN, Begin(o, l, x)
  PROVE  IInv'
  <1> USE DEF IInv, Begin, ByName
  <1>1. TypeOK'
    <2>1. PICK e \in Endpoint :
            op' = [op EXCEPT ![o] = [at |-> "adopt", url |-> e, cred |-> None,
                                     login |-> l, outside |-> x]]
      BY DEF TypeOK
    <2>2. op' \in [Op -> [at : OpStep, url : Endpoint, cred : Maybe,
                         login : BOOLEAN, outside : BOOLEAN] \cup {NoOp}]
      BY <2>1 DEF TypeOK
    <2>3. excused' \in SUBSET {"token", "client"} /\ signedOut' \in BOOLEAN
      BY DEF TypeOK
    <2> QED
      BY <2>2, <2>3 DEF TypeOK
  <1>2. Formed'
    BY DEF Formed
  <1>3. TokenLine'
    BY DEF TokenLine
  <1>4. ClientLine'
    BY DEF ClientLine
  <1>5. LogoutLine'
    BY DEF TypeOK, Formed, LogoutLine, Runners, Statement, StoreHeld
  <1> QED
    BY <1>1, <1>2, <1>3, <1>4, <1>5

LEMMA AdoptStep ==
  ASSUME IInv, NEW o \in Op, Adopt(o)
  PROVE  IInv'
  <1> USE DEF IInv, Adopt
  <1>1. TypeOK'
    BY DEF TypeOK
  <1>2. Formed'
    BY DEF Formed
  <1>3. TokenLine'
    BY DEF TypeOK, Formed, TokenLine, Statement, StoreHeld
  <1>4. ClientLine'
    BY DEF ClientLine
  <1>5. LogoutLine'
    BY DEF LogoutLine, Runners
  <1> QED
    BY <1>1, <1>2, <1>3, <1>4, <1>5

LEMMA LoadStep ==
  ASSUME IInv, NEW o \in Op, Load(o)
  PROVE  IInv'
  <1> USE DEF IInv, Load, Overtaken, ByName
  <1>1. TypeOK'
    <2>1. op[o] \in [at : OpStep, url : Endpoint, cred : Maybe,
                    login : BOOLEAN, outside : BOOLEAN]
      BY DEF TypeOK
    <2>2. [op[o] EXCEPT !.at = "use", !.cred = client] \in
             [at : OpStep, url : Endpoint, cred : Maybe, login : BOOLEAN, outside : BOOLEAN]
      BY <2>1 DEF TypeOK
    <2>3. op' = [op EXCEPT ![o] = [op[o] EXCEPT !.at = "use", !.cred = client]]
      BY DEF TypeOK
    <2>4. op' \in [Op -> [at : OpStep, url : Endpoint, cred : Maybe,
                         login : BOOLEAN, outside : BOOLEAN] \cup {NoOp}]
      BY <2>2, <2>3 DEF TypeOK
    <2>5. excused' \in SUBSET {"token", "client"}
      BY DEF TypeOK
    <2>6. UNCHANGED <<file, mem, up, bound, legacy, client, job, out, signedOut>>
      OBVIOUS
    <2> QED
      BY <2>4, <2>5, <2>6 DEF TypeOK
  <1>2. Formed'
    BY DEF Formed
  <1>3. TokenLine'
    BY DEF TypeOK, Formed, TokenLine, Statement, StoreHeld
  <1>4. ClientLine'
    BY DEF TypeOK, Formed, ClientLine, Statement, StoreHeld
  <1>5. LogoutLine'
    BY DEF TypeOK, Formed, LogoutLine, Runners, Statement, StoreHeld
  <1> QED
    BY <1>1, <1>2, <1>3, <1>4, <1>5

LEMMA UseStep ==
  ASSUME IInv, NEW o \in Op, Use(o)
  PROVE  IInv'
  <1> USE DEF IInv, Use
  <1>1. TypeOK'
    BY DEF TypeOK
  <1>2. Formed'
    BY DEF Formed
  <1>3. TokenLine'
    BY DEF TypeOK, Formed, TokenLine, Statement, StoreHeld
  <1>4. ClientLine'
    BY DEF TypeOK, Formed, ClientLine, Statement, StoreHeld
  <1>5. LogoutLine'
    BY DEF TypeOK, Formed, LogoutLine, Runners, Statement, StoreHeld
  <1> QED
    BY <1>1, <1>2, <1>3, <1>4, <1>5

LEMMA KeepStep ==
  ASSUME IInv, NEW o \in Op, Keep(o)
  PROVE  IInv'
  <1> USE DEF IInv, Keep
  <1>1. TypeOK'
    BY DEF TypeOK
  <1>2. Formed'
    BY DEF Formed
  <1>3. TokenLine'
    BY DEF TokenLine
  <1>4. ClientLine'
    BY DEF ClientLine
  <1>5. LogoutLine'
    BY DEF LogoutLine, Runners
  <1> QED
    BY <1>1, <1>2, <1>3, <1>4, <1>5

LEMMA FlowStep ==
  ASSUME IInv, NEW o \in Op, Flow(o)
  PROVE  IInv'
  <1> USE DEF IInv, Flow
  <1>1. TypeOK'
    BY DEF TypeOK
  <1>2. Formed'
    BY DEF Formed
  <1>3. TokenLine'
    BY DEF TypeOK, Formed, TokenLine, Statement, StoreHeld
  <1>4. ClientLine'
    BY DEF TypeOK, Formed, ClientLine, Statement, StoreHeld
  <1>5. LogoutLine'
    BY DEF LogoutLine, Runners
  <1> QED
    BY <1>1, <1>2, <1>3, <1>4, <1>5

LEMMA PersistStep ==
  ASSUME IInv, NEW o \in Op, Persist(o)
  PROVE  IInv'
  <1> USE DEF IInv, Persist, Overtaken
  <1>1. TypeOK'
    BY DEF TypeOK
  <1>2. Formed'
    BY DEF Formed
  <1>3. TokenLine'
    BY DEF TokenLine
  <1>4. ClientLine'
    BY DEF ClientLine
  <1>5. LogoutLine'
    BY DEF LogoutLine, Runners
  <1> QED
    BY <1>1, <1>2, <1>3, <1>4, <1>5

LEMMA LogoutBeginsStep ==
  ASSUME IInv, LogoutBegins
  PROVE  IInv'
  <1> USE DEF IInv, LogoutBegins
  <1>1. TypeOK'
    BY DEF TypeOK
  <1>2. Formed'
    BY DEF Formed
  <1>3. TokenLine'
    BY DEF TokenLine
  <1>4. ClientLine'
    BY DEF ClientLine
  <1>5. LogoutLine'
    BY DEF LogoutLine, Runners
  <1> QED
    BY <1>1, <1>2, <1>3, <1>4, <1>5

LEMMA LogoutBoundStep ==
  ASSUME IInv, LogoutBound
  PROVE  IInv'
  <1> USE DEF IInv, LogoutBound, LogoutFails
  <1>1. TypeOK'
    <2>1. out \in [at : {"bound", "legacy", "client"}, url : Endpoint]
      BY DEF TypeOK
    <2>2. out' \in [at : {"bound", "legacy", "client"}, url : Endpoint] \cup {NoLogout}
      BY <2>1
    <2> QED
      BY <2>2 DEF TypeOK
  <1>2. Formed'
    BY DEF TypeOK, Formed, Statement, StoreHeld
  <1>3. TokenLine'
    BY DEF TypeOK, Formed, TokenLine, Statement, StoreHeld
  <1>4. ClientLine'
    BY DEF ClientLine
  <1>5. LogoutLine'
    BY DEF TypeOK, Formed, LogoutLine, Runners, Statement, StoreHeld
  <1> QED
    BY <1>1, <1>2, <1>3, <1>4, <1>5

LEMMA LogoutLegacyStep ==
  ASSUME IInv, LogoutLegacy
  PROVE  IInv'
  <1> USE DEF IInv, LogoutLegacy, LogoutFails, AfterLogout
  <1>1. TypeOK'
    <2>1. out \in [at : {"bound", "legacy", "client"}, url : Endpoint]
      BY DEF TypeOK
    <2>2. out' \in [at : {"bound", "legacy", "client"}, url : Endpoint] \cup {NoLogout}
      BY <2>1
    <2> QED
      BY <2>2 DEF TypeOK
  <1>2. Formed'
    BY DEF Formed
  <1>3. TokenLine'
    BY DEF TokenLine
  <1>4. ClientLine'
    BY DEF ClientLine
  <1>5. LogoutLine'
    <2>1. out \in [at : {"bound", "legacy", "client"}, url : Endpoint]
      BY DEF TypeOK
    <2>2. CASE legacy' = None /\ out' \in AfterLogout
      <3>1. out'.at \in {"idle", "client"} /\ (out'.at # "idle" => out'.url = out.url)
        BY <2>1, <2>2
      <3> QED
        BY <2>2, <3>1 DEF LogoutLine, Runners
    <2> QED
      BY <2>2 DEF LogoutLine
  <1> QED
    BY <1>1, <1>2, <1>3, <1>4, <1>5

LEMMA LogoutClientStep ==
  ASSUME IInv, LogoutClient
  PROVE  IInv'
  <1> USE DEF IInv, LogoutClient, LogoutFails, ClientDeleted
  <1>1. TypeOK'
    BY DEF TypeOK
  <1>2. Formed'
    BY DEF Formed
  <1>3. TokenLine'
    BY DEF TokenLine
  <1>4. ClientLine'
    <2>1. CASE ClientDeleted /\ Runners = {}
      BY <2>1, NobodyHasAClient DEF ClientLine
    <2>2. CASE ~(ClientDeleted /\ Runners = {})
      BY <2>2 DEF ClientLine
    <2> QED
      BY <2>1, <2>2
  <1>5. LogoutLine'
    <2>1. out' = NoLogout
      OBVIOUS
    <2>2. out'.at = "idle" /\ out.at = "client"
      BY <2>1
    <2>3. CASE client' = None
      BY <2>2, <2>3 DEF LogoutLine, Runners
    <2> QED
      BY <2>3 DEF LogoutLine
  <1> QED
    BY <1>1, <1>2, <1>3, <1>4, <1>5

LEMMA EditFileStep ==
  ASSUME IInv, NEW e \in Maybe, EditFile(e)
  PROVE  IInv'
  <1> USE DEF IInv, EditFile
  <1>1. TypeOK'
    BY DEF TypeOK
  <1>2. Formed'
    BY DEF Formed
  <1>3. TokenLine'
    BY DEF TokenLine
  <1>4. ClientLine'
    BY DEF ClientLine
  <1>5. LogoutLine'
    BY DEF LogoutLine, Runners
  <1> QED
    BY <1>1, <1>2, <1>3, <1>4, <1>5

LEMMA CrashStep ==
  ASSUME IInv, Crash
  PROVE  IInv'
  <1> USE DEF IInv, Crash, ByName
  <1>1. TypeOK'
    BY DEF TypeOK
  <1>2. Formed'
    BY DEF Formed
  <1>3. TokenLine'
    BY DEF TokenLine
  <1>4. ClientLine'
    BY DEF ClientLine
  <1>5. LogoutLine'
    BY DEF LogoutLine, Runners
  <1> QED
    BY <1>1, <1>2, <1>3, <1>4, <1>5

LEMMA StartStep ==
  ASSUME IInv, Start
  PROVE  IInv'
  <1> USE DEF IInv, Start, ByName
  <1>1. TypeOK'
    BY DEF TypeOK
  <1>2. Formed'
    BY DEF Formed
  <1>3. TokenLine'
    BY DEF TokenLine
  <1>4. ClientLine'
    BY DEF ClientLine
  <1>5. LogoutLine'
    BY DEF LogoutLine, Runners
  <1> QED
    BY <1>1, <1>2, <1>3, <1>4, <1>5

LEMMA InitInv == Init => IInv
  <1> SUFFICES ASSUME Init PROVE IInv
    OBVIOUS
  <1>1. TypeOK
    BY DEF Init, TypeOK
  <1>2. Formed /\ TokenLine /\ ClientLine /\ LogoutLine
    BY DEF Init, Formed, TokenLine, ClientLine, LogoutLine
  <1> QED
    BY <1>1, <1>2 DEF IInv

LEMMA NextInv == IInv /\ [Next]_vars => IInv'
  <1> SUFFICES ASSUME IInv, [Next]_vars PROVE IInv'
    OBVIOUS
  <1>1. CASE UNCHANGED vars
    BY <1>1 DEF vars, IInv, TypeOK, Formed, TokenLine, ClientLine, LogoutLine, Runners
  <1>2. CASE ChangeStep
    BY <1>2, SaveStep, ForgetLegacyStep, ForgetBoundStep, ForgetClientStep,
       SaveOwnClientStep, CommitStep DEF ChangeStep
  <1>3. ASSUME NEW o \in Op, OperationStep(o)
        PROVE  IInv'
    BY <1>3, BeginStep, AdoptStep, LoadStep, UseStep, KeepStep, FlowStep, PersistStep
       DEF OperationStep
  <1>4. ASSUME NEW brings \in BOOLEAN,
               SetAuth(brings) \/ \E e \in Endpoint : AddServer(e, brings)
        PROVE  IInv'
    BY <1>4, SetAuthStep, AddServerStep
  <1>5. ASSUME NEW e \in Maybe, EditFile(e)
        PROVE  IInv'
    BY <1>5, EditFileStep
  <1> QED
    BY <1>1, <1>2, <1>3, <1>4, <1>5, RemoveServerStep, ReloadStep, LogoutBeginsStep,
       LogoutBoundStep, LogoutLegacyStep, LogoutClientStep, CrashStep, StartStep DEF Next

\* The inductive invariant holds of every reachable state.
THEOREM Invariance == Spec => []IInv
  BY InitInv, NextInv, PTL DEF Spec

\* token_store.go:16-18, README.md:376-377, for any number of operations and endpoints:
\* whatever changes, logouts, edits and crashes go on around them, a stored token is that
\* of the endpoint under whose key it is, unless one of the excuses has occurred.
THEOREM TokensAreHome == Spec => []TokensStayHome
  <1>1. IInv => TokensStayHome
    BY DEF IInv, TokenLine, TokensStayHome
  <1> QED
    BY <1>1, Invariance, PTL

\* README.md:377-380, likewise for client credentials.
THEOREM ClientsAreHome == Spec => []ClientsStayHome
  <1>1. IInv => ClientsStayHome
    BY DEF IInv, ClientLine, ClientsStayHome
  <1> QED
    BY <1>1, Invariance, PTL

\* server.go:353-354: a logout that nothing overlapped lasts until the next login, change
\* or start.
THEOREM LogoutLasts == Spec => []LogoutHolds
  <1>1. IInv => LogoutHolds
    BY DEF IInv, LogoutLine, LogoutHolds
  <1> QED
    BY <1>1, Invariance, PTL

=============================================================================
