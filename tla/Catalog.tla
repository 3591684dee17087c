------------------------------ MODULE Catalog -------------------------------
(***************************************************************************)
(* The names of servers and HTTP services, and who reads them when:        *)
(* internal/server/server.go (handleCtx, applyRegistryChange), with        *)
(* internal/config/config.go (validate, UpsertServer, RemoveServer, Save,  *)
(* Load) and the lookups of internal/mcp/mcp.go.                           *)
(*                                                                         *)
(* The same configuration is in four places: the file, Server.cfg, the     *)
(* registry's cfg, and the snapshots of requests on their way.  Server.mu  *)
(* is held during a registry change, but requests resolve the server they  *)
(* name in the registry after they have released it, and retries never     *)
(* take it.  A reload that names another database replaces the registry;   *)
(* nobody tells the old one, whose attempts and retries go on.  Registries *)
(* are therefore elements of Gen, and `current' is s.registry.             *)
(*                                                                         *)
(* A Chain is an attempt on a server together with the retries that follow *)
(* from it; Registry looks inside an attempt, this module at what it       *)
(* attempts.  Names and aliases are both elements of Id.                   *)
(***************************************************************************)
EXTENDS Naturals, Sequences, FiniteSets

CONSTANTS
  Id,         \* names and aliases
  URL,        \* what a server's url, expanded, may be
  Database,   \* values of db_path
  Gen,        \* registries
  Chain,      \* attempts with the retries that follow from them
  Handler,    \* requests that the daemon handles at the same time
  Documents,  \* what may be written into the file by hand
  Items,      \* servers that add_server may be asked to add
  MaxBusy,    \* bound: how many requests and chains are under way at the same time
  None        \* no alias; no server; a file that does not parse

MCPServer == [name : Id, alias : Id \cup {None}, url : URL]
HTTPService == [name : Id, alias : Id \cup {None}]
Config == [servers : Seq(MCPServer), services : Seq(HTTPService), db : Database]

ASSUME CatalogAssumption ==
  /\ None \notin Id \cup Gen
  /\ None \notin Config
  /\ Documents \subseteq Config \cup {None}
  /\ Items \subseteq MCPServer
  /\ MaxBusy \in Nat

VARIABLES
  file,      \* the configuration file
  edited,    \* the file changed since the daemon last wrote or read it, or what it wrote was not applied
  cfg,       \* s.cfg
  current,   \* s.registry
  rcfg,      \* r.cfg of each registry
  stage,     \* how far the registry change that holds s.mu is: "free" when none does
  change,    \* what it is going to assign, and whose credentials it deletes
  chain,     \* the attempts and the retries
  req        \* the requests

daemon == <<cfg, current>>
changing == <<stage, change>>
vars == <<file, edited, daemon, rcfg, changing, chain, req>>

-----------------------------------------------------------------------------
(* Identifiers. *)

Alias(e) == IF e.alias = None THEN e.name ELSE e.alias

\* What an entry answers to.
Ids(e) == {e.name, Alias(e)}

Names(s) == {s[i].name : i \in DOMAIN s}

\* Load fills in the aliases that the file leaves out.
WithAlias(e) == [e EXCEPT !.alias = Alias(e)]
Normal(c) ==
  [c EXCEPT !.servers = [i \in DOMAIN c.servers |-> WithAlias(c.servers[i])],
            !.services = [i \in DOMAIN c.services |-> WithAlias(c.services[i])]]

\* validate goes through servers and then services with the same two maps, `seen' and
\* `aliases', which hold what the entries before this one answer to.
Entries(c) == c.servers \o c.services

\* Fault: an alias is compared with aliases only.
ValidNamesOnly(c) ==
  LET e == Entries(c)
  IN  \A i, j \in DOMAIN e : i < j => e[i].name # e[j].name /\ Alias(e[i]) # Alias(e[j])

Valid(c) ==
  LET e == Entries(c)
  IN  \A i, j \in DOMAIN e : i < j => Ids(e[i]) \cap Ids(e[j]) = {}

Answers(s, id) == \E i \in DOMAIN s : id \in Ids(s[i])

\* findServer, findHTTPService, findMCPServer: the first entry that answers.
First(s, id) ==
  s[CHOOSE i \in DOMAIN s : id \in Ids(s[i]) /\ \A j \in DOMAIN s : j < i => id \notin Ids(s[j])]

\* The server or service that a request for id is about, None if there is none.
ServerFor(c, id) == IF Answers(c.servers, id) THEN First(c.servers, id).name ELSE None
ServiceFor(c, id) == IF Answers(c.services, id) THEN First(c.services, id).name ELSE None

\* Call, ListTools and InspectTool look for a server first and then for a service.
\* RefreshServer, Login and the requests about resources and prompts know servers only.
ServedBy(c, id) == IF ServerFor(c, id) # None THEN ServerFor(c, id) ELSE ServiceFor(c, id)

\* Fault: the alias is stored as it was typed.
NameAsTyped(c, id) == id

CanonicalServerName(c, id) ==
  IF ServerFor(c, id) # None THEN ServerFor(c, id)
  ELSE IF ServiceFor(c, id) # None THEN ServiceFor(c, id)
  ELSE id

\* UpsertServer: in the place of the server of that name, or at the end.
Upsert(c, item) ==
  LET new == WithAlias(item)
  IN  [c EXCEPT !.servers =
         IF item.name \in Names(@)
           THEN [i \in DOMAIN @ |-> IF @[i].name = item.name THEN new ELSE @[i]]
           ELSE Append(@, new)]

\* RemoveServer, by the exact name.
Remove(c, n) ==
  LET s == c.servers
      i == CHOOSE i \in DOMAIN s : s[i].name = n /\ \A j \in DOMAIN s : j < i => s[j].name # n
  IN  [c EXCEPT !.servers = SubSeq(s, 1, i - 1) \o SubSeq(s, i + 1, Len(s))]

-----------------------------------------------------------------------------
(* Requests and chains at rest. *)

Kinds == {"call", "refresh", "status"}

NoRequest ==
  [at |-> "idle", kind |-> "status", id |-> None, cfg |-> None, gen |-> None, served |-> None,
   filed |-> None, count |-> 0, services |-> 0, health |-> 0, overtaken |-> FALSE]

NoChange == [op |-> "none", next |-> None, forgets |-> {}]

Busy ==
  Cardinality({k \in Chain : chain[k].at # "idle"})
    + Cardinality({h \in Handler : req[h].at # "idle"})

Idle == [at |-> "idle", gen |-> None, name |-> None, for |-> None, late |-> FALSE, dropped |-> FALSE]

-----------------------------------------------------------------------------
(* Registry changes.  Forgetting is deleting a server's tokens and OAuth client. *)

\* The url that a server of this name has in c.
URLOf(c, n) == c.servers[CHOOSE i \in DOMAIN c.servers : c.servers[i].name = n].url

\* add_server forgets the server it replaces, if that has another url ...
AddForgets(item) ==
  IF Answers(cfg.servers, item.name) /\ First(cfg.servers, item.name).url # item.url
    THEN {First(cfg.servers, item.name).name}
    ELSE {}

\* Fault: servers that are missing from the file are forgotten, too.
ForgetsMissing(next) ==
  {n \in Names(cfg.servers) : n \notin Names(next.servers) \/ URLOf(next, n) # URLOf(cfg, n)}

\* ... and reload those that got another one: forgetRepointedOAuthState.
ReloadForgets(next) ==
  {n \in Names(cfg.servers) : n \in Names(next.servers) /\ URLOf(next, n) # URLOf(cfg, n)}

\* The change has s.mu.  The configuration it is going to assign is the one in the file
\* from here on: it has been saved there, or read from there.
Take(op, next, forgets) ==
  /\ stage = "free"
  /\ stage' = "saved"
  /\ change' = [op |-> op, next |-> next, forgets |-> forgets]
  /\ edited' = FALSE
  /\ UNCHANGED <<daemon, rcfg, chain, req>>

\* Fault: the file is not written.
SaveUnwritten(op, next, forgets) ==
  /\ Valid(next)
  /\ UNCHANGED file
  /\ Take(op, next, forgets)

\* Save validates what it is about to write; an invalid configuration is refused.
Save(op, next, forgets) ==
  /\ Valid(next)
  /\ file' = next
  /\ Take(op, next, forgets)

AddServer(item) == Save("add", Upsert(cfg, item), AddForgets(item))

RemoveServer(n) ==
  /\ n \in Names(cfg.servers)
  /\ Save("remove", Remove(cfg, n), {First(cfg.servers, n).name})

\* set_auth changes the headers of a server, which are not in this model.
SetAuth(n) == n \in Names(cfg.servers) /\ Save("auth", cfg, {})

\* reload: Load parses, fills in the aliases and validates.
Reload ==
  /\ file # None
  /\ Valid(Normal(file))
  /\ Take("reload", Normal(file), ReloadForgets(Normal(file)))
  /\ UNCHANGED file

NewDatabase == change.next.db # cfg.db

\* SaveOAuthClient fails after the credentials have been deleted, or the next database
\* cannot be opened.  The change is reported as failed, but the file has it.
ChangeFails ==
  /\ stage = "saved"
  /\ change.op \in {"add", "auth"} \/ (change.op = "reload" /\ NewDatabase)
  /\ stage' = "free"
  /\ change' = NoChange
  /\ edited' = TRUE
  /\ UNCHANGED <<file, daemon, rcfg, chain, req>>

\* Someone works with registry g.
Referenced(g) == (\E k \in Chain : chain[k].gen = g) \/ (\E h \in Handler : req[h].gen = g)

\* Credentials are deleted, a reload with another database makes another registry, and
\* s.cfg changes.
Assign ==
  /\ stage = "saved"
  /\ stage' = "assigned"
  /\ cfg' = change.next
  /\ IF NewDatabase
       THEN \E g \in Gen :
              /\ g # current /\ ~Referenced(g)
              /\ current' = g
              /\ rcfg' = [r \in Gen |-> IF r = g THEN change.next
                                         ELSE IF Referenced(r) THEN rcfg[r]
                                         ELSE None]
       ELSE UNCHANGED <<current, rcfg>>
  /\ UNCHANGED <<file, edited, change, chain, req>>

\* Fault: the retries of removed servers are not cancelled.
KeptAll(k, next) ==
  IF chain[k].at = "fired" THEN [chain[k] EXCEPT !.late = TRUE] ELSE chain[k]

\* What UpdateConfig does to the chains of its registry: records, and with them pending
\* retries, are kept by name.
Kept(k, next) ==
  LET stays == chain[k].name \in Names(next.servers)
  IN  CASE chain[k].at = "wait" /\ ~stays -> Idle
        [] chain[k].at = "wait" /\ stays -> [chain[k] EXCEPT !.late = FALSE]
        [] chain[k].at = "fired" -> [chain[k] EXCEPT !.late = TRUE]
        [] chain[k].at = "attempt" -> [chain[k] EXCEPT !.dropped = @ \/ ~stays]
        [] OTHER -> chain[k]

\* Fault: the registry is not told of the change.
UpdateUntold ==
  /\ stage = "assigned"
  /\ stage' = "free"
  /\ change' = NoChange
  /\ UNCHANGED <<file, edited, daemon, rcfg, chain, req>>

\* UpdateConfig; s.mu is released.
Update ==
  /\ stage = "assigned"
  /\ stage' = "free"
  /\ change' = NoChange
  /\ rcfg' = [rcfg EXCEPT ![current] = cfg]
  /\ chain' = [k \in Chain |-> IF chain[k].gen = current THEN Kept(k, cfg) ELSE chain[k]]
  /\ req' = [h \in Handler |-> IF req[h].at = "asked" /\ req[h].gen = current
                                 THEN [req[h] EXCEPT !.overtaken = TRUE] ELSE req[h]]
  /\ UNCHANGED <<file, edited, daemon>>

\* Someone writes another configuration into the file.
EditFile(d) ==
  /\ file' = d
  /\ edited' = TRUE
  /\ UNCHANGED <<daemon, rcfg, changing, chain, req>>

\* The daemon stops, or crashes, and is started again with what is in the file; an
\* invalid file keeps it from starting.
Restart ==
  /\ file # None
  /\ Valid(Normal(file))
  /\ cfg' = Normal(file)
  /\ rcfg' = [g \in Gen |-> IF g = current THEN Normal(file) ELSE None]
  /\ edited' = FALSE
  /\ stage' = "free"
  /\ chain' = [k \in Chain |-> Idle]
  /\ change' = NoChange
  /\ req' = [h \in Handler |-> NoRequest]
  /\ UNCHANGED <<file, current>>

-----------------------------------------------------------------------------
(* Requests.  handleCtx takes the snapshot; the registry resolves the name. *)

Arrive(h, kind, id) ==
  /\ req[h].at = "idle"
  /\ Busy < MaxBusy
  /\ stage = "free"
  /\ req' = [req EXCEPT ![h] = [NoRequest EXCEPT !.at = "asked", !.kind = kind, !.id = id,
                                                 !.cfg = cfg, !.gen = current]]
  /\ UNCHANGED <<file, edited, daemon, rcfg, changing, chain>>

\* Call reads r.cfg and resolves the server in it ...
Resolve(h) ==
  /\ req[h].at = "asked"
  /\ req[h].kind = "call"
  /\ req' = [req EXCEPT ![h].at = "served",
                        ![h].served = ServedBy(rcfg[req[h].gen], req[h].id)]
  /\ UNCHANGED <<file, edited, daemon, rcfg, changing, chain>>

\* ... and when it has returned it is filed.
FileCall(h) ==
  /\ req[h].at = "served"
  /\ req' = [req EXCEPT ![h].at = "done", ![h].gen = None, ![h].cfg = None,
                        ![h].filed = CanonicalServerName(req[h].cfg, req[h].id)]
  /\ UNCHANGED <<file, edited, daemon, rcfg, changing, chain>>

\* Registry.Health counts each server of the registry's configuration under some status.
Health(c) == Len(c.servers)

\* status: the servers of the snapshot, and the health of those that the registry has.
Status(h) ==
  /\ req[h].at = "asked"
  /\ req[h].kind = "status"
  /\ LET c == req[h].cfg
     IN  req' = [req EXCEPT ![h].at = "done", ![h].gen = None, ![h].cfg = None,
                            ![h].count = Len(c.servers) + Len(c.services),
                            ![h].services = Len(c.services),
                            ![h].health = Health(rcfg[req[h].gen])]
  /\ UNCHANGED <<file, edited, daemon, rcfg, changing, chain>>

Respond(h) ==
  /\ req[h].at = "done"
  /\ req' = [req EXCEPT ![h] = NoRequest]
  /\ UNCHANGED <<file, edited, daemon, rcfg, changing, chain>>

-----------------------------------------------------------------------------
(* Attempts and retries. *)

\* Chain k begins with an attempt on server n of registry g.
Begins(k, g, n) ==
  /\ chain[k].at = "idle"
  /\ chain' = [chain EXCEPT ![k] = [Idle EXCEPT !.at = "attempt", !.gen = g,
                                                !.name = n, !.for = n]]

\* `mcpshim refresh --server': RefreshServer, in the registry of the snapshot.
RefreshServer(h, k) ==
  /\ req[h].at = "asked"
  /\ req[h].kind = "refresh"
  /\ LET n == ServerFor(rcfg[req[h].gen], req[h].id)
     IN  IF n = None THEN UNCHANGED chain ELSE Begins(k, req[h].gen, n)
  /\ req' = [req EXCEPT ![h] = NoRequest]
  /\ UNCHANGED <<file, edited, daemon, rcfg, changing>>

\* The refresh at startup or after a change, or the ticker's, comes to server n.
Refresh(k, n) ==
  /\ n \in Names(rcfg[current].servers)
  /\ Busy < MaxBusy
  /\ Begins(k, current, n)
  /\ UNCHANGED <<file, edited, daemon, rcfg, changing, req>>

\* The chains that wait to retry the server that k attempts.
Pending(k) ==
  {j \in Chain : /\ chain[j].at = "wait"
                 /\ chain[j].gen = chain[k].gen
                 /\ chain[j].name = chain[k].name}

\* recordSuccess cancels the pending retry that the record knows; a record that was
\* dropped knows none.
AttemptSucceeds(k) ==
  /\ chain[k].at = "attempt"
  /\ chain' = [j \in Chain |-> IF j = k \/ (j \in Pending(k) /\ ~chain[k].dropped)
                                 THEN Idle ELSE chain[j]]
  /\ UNCHANGED <<file, edited, daemon, rcfg, changing, req>>

\* Fault: a failure that asks for a login is retried as any other.
RetriesLogin(k) ==
  /\ chain[k].at = "attempt"
  /\ chain' = [chain EXCEPT ![k].at = "wait"]
  /\ UNCHANGED <<file, edited, daemon, rcfg, changing, req>>

\* A failure that asks for a login: no retry.
AttemptNeedsLogin(k) ==
  /\ chain[k].at = "attempt"
  /\ chain' = [chain EXCEPT ![k] = Idle]
  /\ UNCHANGED <<file, edited, daemon, rcfg, changing, req>>

\* Any other failure: scheduleBackoffRetry, which replaces the pending retry.  The
\* retry is late if its server is gone by now.
AttemptFails(k) ==
  /\ chain[k].at = "attempt"
  /\ LET c == chain[k]
         retry == [Idle EXCEPT !.at = "wait", !.gen = c.gen, !.name = c.name, !.for = c.name,
                               !.late = c.name \notin Names(rcfg[c.gen].servers)]
     IN  chain' = [j \in Chain |-> IF j = k THEN retry
                                   ELSE IF j \in Pending(k) THEN Idle ELSE chain[j]]
  /\ UNCHANGED <<file, edited, daemon, rcfg, changing, req>>

\* The timer expires, and the goroutine has left its select ...
RetryFires(k) ==
  /\ chain[k].at = "wait"
  /\ chain' = [chain EXCEPT ![k].at = "fired"]
  /\ UNCHANGED <<file, edited, daemon, rcfg, changing, req>>

\* ... before it resolves the name again, as findServer does, in r.cfg.
RetryResolves(k) ==
  /\ chain[k].at = "fired"
  /\ LET n == ServerFor(rcfg[chain[k].gen], chain[k].name)
     IN  chain' = [chain EXCEPT ![k] = IF n = None THEN Idle
                                       ELSE [@ EXCEPT !.at = "attempt", !.name = n]]
  /\ UNCHANGED <<file, edited, daemon, rcfg, changing, req>>

-----------------------------------------------------------------------------

\* The daemon has just been started with a valid file.
Init ==
  /\ file \in Documents \ {None}
  /\ Valid(Normal(file))
  /\ edited = FALSE
  /\ cfg = Normal(file)
  /\ current \in Gen
  /\ rcfg = [g \in Gen |-> IF g = current THEN cfg ELSE None]
  /\ stage = "free"
  /\ change = NoChange
  /\ chain = [k \in Chain |-> Idle]
  /\ req = [h \in Handler |-> NoRequest]

RegistryChange ==
  \/ \E item \in Items : AddServer(item)
  \/ \E n \in Id : RemoveServer(n) \/ SetAuth(n)
  \/ Reload
  \/ ChangeFails
  \/ Assign
  \/ Update

Request(h) ==
  \/ \E kind \in Kinds, id \in Id : Arrive(h, kind, id)
  \/ Resolve(h)
  \/ Status(h)
  \/ FileCall(h)
  \/ Respond(h)
  \/ \E k \in Chain : RefreshServer(h, k)

AttemptEnds(k) == AttemptSucceeds(k) \/ AttemptNeedsLogin(k) \/ AttemptFails(k)

Retry(k) == RetryFires(k) \/ RetryResolves(k)

Next ==
  \/ RegistryChange
  \/ \E d \in Documents : EditFile(d)
  \/ Restart
  \/ \E h \in Handler : Request(h)
  \/ \E k \in Chain : (\E n \in Id : Refresh(k, n)) \/ AttemptEnds(k) \/ Retry(k)

Spec == Init /\ [][Next]_vars

\* Contexts bound attempts, and timers expire.
FairSpec == Spec /\ \A k \in Chain : WF_vars(AttemptEnds(k) \/ Retry(k))

-----------------------------------------------------------------------------
(* Properties. *)

\* A request was answered from one catalog if no registry change came between its
\* snapshot and the registry's own look at the configuration.
Undisturbed(h) == req[h].at = "done" /\ ~req[h].overtaken

\* server.go:558-560: a call is filed under the server that served it, whether it was
\* asked for by name or by alias, and under the name as asked if none did; so `history'
\* finds it under either name.  snapshot() hands out a configuration and a registry that
\* agree (Assign and Update happen under s.mu).
FiledUnderItsServer ==
  \A h \in Handler :
    Undisturbed(h) /\ req[h].kind = "call"
      => req[h].filed = IF req[h].served = None THEN req[h].id ELSE req[h].served

\* server.go:200-209: the counts of `mcpshim status' add up, although they are read from
\* the daemon's configuration and from the registry's, without a lock around both.
StatusAddsUp ==
  \A h \in Handler :
    Undisturbed(h) /\ req[h].kind = "status"
      => req[h].count = req[h].health + req[h].services

\* mcp.go:344-349: a retry attempts the server that it was scheduled for, though it looks
\* that up again by a string that may be an alias.  A late retry is excepted: one whose
\* server had gone when it was scheduled, or that UpdateConfig overtook after its timer.
RetryAttemptsItsOwn ==
  \A k \in Chain : chain[k].at = "attempt" /\ ~chain[k].late => chain[k].name = chain[k].for

\* Names that stay with another url.
Repointed(old, new) ==
  {n \in Names(old.servers) : n \in Names(new.servers) /\ URLOf(old, n) # URLOf(new, n)}

\* server.go:435-443,462-467,539-545: a change deletes the credentials of the servers that
\* it re-points or removes, and of no others.  A server that a reload does not find in the
\* file keeps its own.
ForgetsExactly ==
  stage = "saved" =>
    change.forgets = Repointed(cfg, change.next) \cup
      (IF change.op = "remove" THEN Names(cfg.servers) \ Names(change.next.servers) ELSE {})

\* Between changes the daemon runs what a restart would load, unless someone edited the
\* file or a change failed after its Save: a change that was answered with OK survives a
\* crash at any point (Save comes before s.cfg in every case of applyRegistryChange).
Durable == stage = "free" /\ ~edited => file # None /\ Normal(file) = cfg

OneEach(c) ==
  LET e == Entries(c)
  IN  \A i, j \in DOMAIN e : Ids(e[i]) \cap Ids(e[j]) # {} => i = j

\* No identifier names two servers or services in a configuration that is in use, however
\* it came about: from a file, by add_server (which may replace), or by remove_server.
Unambiguous ==
  /\ OneEach(cfg)
  /\ \A g \in Gen : rcfg[g] # None => OneEach(rcfg[g])
  /\ stage # "free" => OneEach(change.next)

\* A chain belongs to a registry that a reload has replaced.
Orphaned(k) == chain[k].gen \notin {None, current}

\* server.go:527-535: a registry that was replaced is never told, but once upstream
\* servers stop failing its attempts and retries come to an end.
OldRegistriesFade ==
  (<>[][\A k \in Chain : ~AttemptFails(k)]_vars) => \A k \in Chain : []<>~Orphaned(k)

-----------------------------------------------------------------------------
(* The inductive invariant, in three parts. *)

\* No alias is left out.
Aliased(c) ==
  /\ \A i \in DOMAIN c.servers : c.servers[i].alias # None
  /\ \A i \in DOMAIN c.services : c.services[i].alias # None

\* What change will assign, or has just assigned, is what the file has.
Staged ==
  /\ stage # "assigned" => rcfg[current] = cfg
  /\ stage # "free" => change.next # None
  /\ stage = "assigned" => cfg = change.next
  /\ ~edited => file # None /\ Normal(file) = IF stage = "free" THEN cfg ELSE change.next

DaemonIInv ==
  /\ file \in Config \cup {None}
  /\ edited \in BOOLEAN
  /\ cfg \in Config
  /\ current \in Gen
  /\ rcfg \in [Gen -> Config \cup {None}]
  /\ stage \in {"free", "saved", "assigned"}
  /\ change \in [op : {"none", "add", "remove", "auth", "reload"},
                 next : Config \cup {None}, forgets : SUBSET Id]
  /\ rcfg[current] # None
  /\ Aliased(cfg)
  /\ stage # "free" => Aliased(change.next)
  /\ Unambiguous
  /\ Staged
  /\ ForgetsExactly

\* A chain works with a registry that somebody still has, and what it retries is there.
ChainOK(k) ==
  LET c == chain[k]
  IN  /\ c.at # "idle" => c.gen \in Gen /\ c.name \in Id
      /\ c.gen # None => rcfg[c.gen] # None
      /\ c.at \in {"wait", "fired"} => c.for = c.name
      /\ c.at \in {"wait", "fired"} /\ ~c.late => c.name \in Names(rcfg[c.gen].servers)
      /\ c.at = "attempt" /\ ~c.late => c.for = c.name

ChainIInv ==
  /\ chain \in [Chain -> [at : {"idle", "attempt", "wait", "fired"}, gen : Gen \cup {None},
                          name : Id \cup {None}, for : Id \cup {None},
                          late : BOOLEAN, dropped : BOOLEAN]]
  /\ \A k \in Chain : ChainOK(k)

\* What a request has read and, unless a change came in between, its registry has too.
RequestOK(h) ==
  LET r == req[h]
  IN  /\ r.at \in {"asked", "served"} => r.gen \in Gen /\ r.cfg # None
      /\ r.at # "idle" => r.id \in Id
      /\ r.gen # None => rcfg[r.gen] # None
      /\ r.cfg # None => OneEach(r.cfg)
      /\ r.at = "asked" /\ ~r.overtaken => rcfg[r.gen] = r.cfg
      /\ r.at = "served" => r.kind = "call"
      /\ r.at = "served" /\ ~r.overtaken => r.served = ServedBy(r.cfg, r.id)

RequestIInv ==
  /\ req \in [Handler -> [at : {"idle", "asked", "served", "done"}, kind : Kinds,
                          id : Id \cup {None}, cfg : Config \cup {None}, gen : Gen \cup {None},
                          served : Id \cup {None}, filed : Id \cup {None}, count : Nat,
                          services : Nat, health : Nat, overtaken : BOOLEAN]]
  /\ \A h \in Handler : RequestOK(h)
  /\ FiledUnderItsServer
  /\ StatusAddsUp

IInv == DaemonIInv /\ ChainIInv /\ RequestIInv

=============================================================================
