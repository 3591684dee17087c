---------------------------- MODULE CatalogProofs ---------------------------
(***************************************************************************)
(* Proofs about Catalog, for any number of registries, chains and requests *)
(* and for any configurations.                                             *)
(***************************************************************************)
EXTENDS Catalog, SequenceTheorems, TLAPS

-----------------------------------------------------------------------------
(* Configurations. *)

\* Positions in a sequence of p and q elements.
LEMMA Positions ==
  ASSUME NEW p \in Nat, NEW q \in Nat
  PROVE  /\ \A i \in 1..p : i \in 1..(p + q) /\ i <= p
         /\ \A i \in 1..q : p + i \in 1..(p + q) /\ ~(p + i <= p) /\ (p + i) - p = i
OBVIOUS

LEMMA ConfigFields ==
  ASSUME NEW c \in Config
  PROVE  /\ c.servers \in Seq(MCPServer) /\ c.services \in Seq(HTTPService) /\ c.db \in Database
         /\ DOMAIN c.servers = 1..Len(c.servers) /\ Len(c.servers) \in Nat
         /\ DOMAIN c.services = 1..Len(c.services) /\ Len(c.services) \in Nat
         /\ \A i \in DOMAIN c.servers : c.servers[i] \in MCPServer
         /\ \A i \in DOMAIN c.services : c.services[i] \in HTTPService
<1>1. c.servers \in Seq(MCPServer) /\ c.services \in Seq(HTTPService) /\ c.db \in Database
  BY DEF Config
<1>2. DOMAIN c.servers = 1..Len(c.servers) /\ Len(c.servers) \in Nat
  BY <1>1, LenProperties
<1>3. DOMAIN c.services = 1..Len(c.services) /\ Len(c.services) \in Nat
  BY <1>1, LenProperties
<1>4. \A i \in DOMAIN c.servers : c.servers[i] \in MCPServer
  BY <1>1, <1>2, ElementOfSeq
<1>5. \A i \in DOMAIN c.services : c.services[i] \in HTTPService
  BY <1>1, <1>3, ElementOfSeq
<1> QED  BY <1>1, <1>2, <1>3, <1>4, <1>5

\* The entries are the servers and then the services.
LEMMA EntriesFields ==
  ASSUME NEW c \in Config
  PROVE  /\ DOMAIN Entries(c) = 1..(Len(c.servers) + Len(c.services))
         /\ \A i \in 1..Len(c.servers) : Entries(c)[i] = c.servers[i]
         /\ \A i \in 1..Len(c.services) : Entries(c)[Len(c.servers) + i] = c.services[i]
<1> DEFINE S == MCPServer \cup HTTPService
<1>1. c.servers \in Seq(MCPServer) /\ c.services \in Seq(HTTPService)
  BY ConfigFields
<1>2. c.servers \in Seq(S) /\ c.services \in Seq(S)
  <2>1. MCPServer \subseteq S /\ HTTPService \subseteq S
    OBVIOUS
  <2> QED  BY <1>1, <2>1, SeqMonotonic
<1>3. Len(c.servers) \in Nat /\ Len(c.services) \in Nat
  BY <1>1, LenProperties
<1> HIDE DEF S
<1>4. /\ Entries(c) \in Seq(S)
      /\ Len(Entries(c)) = Len(c.servers) + Len(c.services)
      /\ \A i \in 1..(Len(c.servers) + Len(c.services)) :
           Entries(c)[i] = IF i <= Len(c.servers) THEN c.servers[i]
                                                  ELSE c.services[i - Len(c.servers)]
  BY <1>2, ConcatProperties DEF Entries
<1>5. DOMAIN Entries(c) = 1..(Len(c.servers) + Len(c.services))
  BY <1>4, LenProperties
<1>6. \A i \in 1..Len(c.servers) : Entries(c)[i] = c.servers[i]
  <2> TAKE i \in 1..Len(c.servers)
  <2>1. i \in 1..(Len(c.servers) + Len(c.services)) /\ i <= Len(c.servers)
    BY <1>3, Positions
  <2> QED  BY <1>4, <2>1
<1>7. \A i \in 1..Len(c.services) : Entries(c)[Len(c.servers) + i] = c.services[i]
  <2> TAKE i \in 1..Len(c.services)
  <2>1. /\ Len(c.servers) + i \in 1..(Len(c.servers) + Len(c.services))
        /\ ~(Len(c.servers) + i <= Len(c.servers))
        /\ (Len(c.servers) + i) - Len(c.servers) = i
    BY <1>3, Positions
  <2> QED  BY <1>4, <2>1
<1> QED  BY <1>5, <1>6, <1>7

\* validate compares each entry with those before it, which compares them all.
LEMMA ValidIsUnambiguous ==
  ASSUME NEW c \in Config, Valid(c)
  PROVE  OneEach(c)
<1>1. DOMAIN Entries(c) \subseteq Int
  <2> DEFINE p == Len(c.servers)
             q == Len(c.services)
  <2>1. p \in Nat /\ q \in Nat
    BY ConfigFields
  <2>2. DOMAIN Entries(c) = 1..(p + q)
    BY EntriesFields
  <2> HIDE DEF p, q
  <2>3. 1..(p + q) \subseteq Int
    BY <2>1
  <2> QED  BY <2>2, <2>3
<1> DEFINE e == Entries(c)
<1>2. \A i, j \in DOMAIN e : i < j => Ids(e[i]) \cap Ids(e[j]) = {}
  BY DEF Valid
<1> SUFFICES ASSUME NEW i \in DOMAIN e, NEW j \in DOMAIN e, i # j
             PROVE  Ids(e[i]) \cap Ids(e[j]) = {}
  BY DEF OneEach
<1> HIDE DEF e
<1>3. CASE i < j
  BY <1>2, <1>3
<1>4. CASE j < i
  BY <1>2, <1>4
<1> QED  BY <1>1, <1>3, <1>4 DEF e

LEMMA OneServer ==
  ASSUME NEW c \in Config, OneEach(c),
         NEW i \in DOMAIN c.servers, NEW j \in DOMAIN c.servers,
         NEW id, id \in Ids(c.servers[i]), id \in Ids(c.servers[j])
  PROVE  i = j
<1>1. i \in 1..Len(c.servers) /\ j \in 1..Len(c.servers)
  BY ConfigFields
<1>2. Entries(c)[i] = c.servers[i] /\ Entries(c)[j] = c.servers[j]
  BY <1>1, EntriesFields
<1>3. i \in DOMAIN Entries(c) /\ j \in DOMAIN Entries(c)
  <2>1. Len(c.servers) \in Nat /\ Len(c.services) \in Nat
    BY ConfigFields
  <2>2. i \in 1..(Len(c.servers) + Len(c.services)) /\ j \in 1..(Len(c.servers) + Len(c.services))
    BY <1>1, <2>1, Positions
  <2> QED  BY <2>2, EntriesFields
<1> QED  BY <1>2, <1>3 DEF OneEach

LEMMA OneService ==
  ASSUME NEW c \in Config, OneEach(c),
         NEW i \in DOMAIN c.services, NEW j \in DOMAIN c.services,
         NEW id, id \in Ids(c.services[i]), id \in Ids(c.services[j])
  PROVE  i = j
<1> DEFINE n == Len(c.servers)
<1>1. i \in 1..Len(c.services) /\ j \in 1..Len(c.services) /\ n \in Nat
  BY ConfigFields
<1>2. Entries(c)[n + i] = c.services[i] /\ Entries(c)[n + j] = c.services[j]
  BY <1>1, EntriesFields
<1>3. n + i \in DOMAIN Entries(c) /\ n + j \in DOMAIN Entries(c)
  <2>1. Len(c.services) \in Nat
    BY ConfigFields
  <2>2. n + i \in 1..(n + Len(c.services)) /\ n + j \in 1..(n + Len(c.services))
    BY <1>1, <2>1, Positions
  <2> QED  BY <2>2, EntriesFields
<1>4. n + i = n + j
  BY <1>2, <1>3 DEF OneEach
<1> QED  BY <1>1, <1>4

\* The only entry that answers is the first one.
LEMMA FirstServer ==
  ASSUME NEW c \in Config, OneEach(c),
         NEW i \in DOMAIN c.servers, NEW id, id \in Ids(c.servers[i])
  PROVE  Answers(c.servers, id) /\ First(c.servers, id) = c.servers[i]
<1> DEFINE P(j) == id \in Ids(c.servers[j]) /\ \A m \in DOMAIN c.servers : m < j => id \notin Ids(c.servers[m])
<1>1. \A j \in DOMAIN c.servers : id \in Ids(c.servers[j]) => j = i
  BY OneServer
<1>2. DOMAIN c.servers \subseteq Int
  BY ConfigFields
<1>3. P(i)
  BY <1>1, <1>2
<1>4. (CHOOSE j \in DOMAIN c.servers : P(j)) = i
  BY <1>1, <1>3
<1> QED  BY <1>4 DEF First, Answers

LEMMA FirstService ==
  ASSUME NEW c \in Config, OneEach(c),
         NEW i \in DOMAIN c.services, NEW id, id \in Ids(c.services[i])
  PROVE  First(c.services, id) = c.services[i]
<1> DEFINE P(j) == id \in Ids(c.services[j]) /\ \A m \in DOMAIN c.services : m < j => id \notin Ids(c.services[m])
<1>1. \A j \in DOMAIN c.services : id \in Ids(c.services[j]) => j = i
  BY OneService
<1>2. DOMAIN c.services \subseteq Int
  BY ConfigFields
<1>3. P(i)
  BY <1>1, <1>2
<1>4. (CHOOSE j \in DOMAIN c.services : P(j)) = i
  BY <1>1, <1>3
<1> QED  BY <1>4 DEF First

\* A name is that of the server that answers to it.
LEMMA NamedServer ==
  ASSUME NEW c \in Config, OneEach(c), NEW n \in Names(c.servers)
  PROVE  ServerFor(c, n) = n
<1>1. PICK i \in DOMAIN c.servers : c.servers[i].name = n
  BY DEF Names
<1>2. n \in Ids(c.servers[i])
  BY <1>1 DEF Ids
<1> QED  BY <1>1, <1>2, FirstServer DEF ServerFor

LEMMA ServerForType ==
  ASSUME NEW c \in Config, OneEach(c), NEW id
  PROVE  ServerFor(c, id) \in Names(c.servers) \cup {None}
<1>1. CASE ~Answers(c.servers, id)
  BY <1>1 DEF ServerFor
<1>2. CASE Answers(c.servers, id)
  <2>1. PICK i \in DOMAIN c.servers : id \in Ids(c.servers[i])
    BY <1>2 DEF Answers
  <2> QED  BY <1>2, <2>1, FirstServer DEF ServerFor, Names
<1> QED  BY <1>1, <1>2

LEMMA NamesType ==
  ASSUME NEW c \in Config
  PROVE  Names(c.servers) \subseteq Id
  BY ConfigFields DEF Names, MCPServer

LEMMA ServedByType ==
  ASSUME NEW c \in Config, OneEach(c), NEW id
  PROVE  ServedBy(c, id) \in Id \cup {None}
<1>1. ServerFor(c, id) \in Id \cup {None}
  BY ServerForType, NamesType
<1>2. ServiceFor(c, id) \in Id \cup {None}
  <2>1. CASE ~Answers(c.services, id)
    BY <2>1 DEF ServiceFor
  <2>2. CASE Answers(c.services, id)
    <3>1. PICK i \in DOMAIN c.services : id \in Ids(c.services[i])
      BY <2>2 DEF Answers
    <3>2. c.services[i].name \in Id
      BY ConfigFields DEF HTTPService
    <3> QED  BY <2>2, <3>1, <3>2, FirstService DEF ServiceFor
  <2> QED  BY <2>1, <2>2
<1> QED  BY <1>1, <1>2 DEF ServedBy

LEMMA URLOfServer ==
  ASSUME NEW c \in Config, OneEach(c), NEW i \in DOMAIN c.servers
  PROVE  URLOf(c, c.servers[i].name) = c.servers[i].url
<1> DEFINE n == c.servers[i].name
<1>1. \A j \in DOMAIN c.servers : c.servers[j].name = n => j = i
  <2> TAKE j \in DOMAIN c.servers
  <2> HAVE c.servers[j].name = n
  <2>1. n \in Ids(c.servers[i]) /\ n \in Ids(c.servers[j])
    BY DEF Ids
  <2> QED  BY <2>1, OneServer
<1> HIDE DEF n
<1>2. c.servers[i].name = n
  BY DEF n
<1>3. (CHOOSE j \in DOMAIN c.servers : c.servers[j].name = n) = i
  BY <1>1, <1>2
<1> QED  BY <1>2, <1>3 DEF URLOf

-----------------------------------------------------------------------------
(* What Load, UpsertServer and RemoveServer make of a configuration. *)

LEMMA SequenceFromFunction ==
  ASSUME NEW S, NEW n \in Nat, NEW f \in [1..n -> S]
  PROVE  f \in Seq(S) /\ Len(f) = n
<1>1. f \in Seq(S)
  OBVIOUS
<1>2. Len(f) \in Nat /\ DOMAIN f = 1..Len(f) /\ DOMAIN f = 1..n
  BY <1>1, LenProperties
<1> QED  BY <1>1, <1>2

LEMMA ServerWithAlias ==
  ASSUME NEW e \in MCPServer
  PROVE  /\ WithAlias(e) \in MCPServer
         /\ WithAlias(e).alias # None
         /\ WithAlias(e).name = e.name /\ WithAlias(e).url = e.url
         /\ e.alias # None => WithAlias(e) = e
  BY CatalogAssumption DEF WithAlias, Alias, MCPServer

LEMMA ServiceWithAlias ==
  ASSUME NEW e \in HTTPService
  PROVE  /\ WithAlias(e) \in HTTPService
         /\ WithAlias(e).alias # None
         /\ e.alias # None => WithAlias(e) = e
  BY CatalogAssumption DEF WithAlias, Alias, HTTPService

LEMMA NormalIsAliased ==
  ASSUME NEW c \in Config
  PROVE  Normal(c) \in Config /\ Aliased(Normal(c))
<1> DEFINE ss == [i \in DOMAIN c.servers |-> WithAlias(c.servers[i])]
           hs == [i \in DOMAIN c.services |-> WithAlias(c.services[i])]
<1>1. ss \in [1..Len(c.servers) -> MCPServer] /\ \A i \in DOMAIN ss : ss[i].alias # None
  BY ConfigFields, ServerWithAlias
<1>2. hs \in [1..Len(c.services) -> HTTPService] /\ \A i \in DOMAIN hs : hs[i].alias # None
  BY ConfigFields, ServiceWithAlias
<1>3. ss \in Seq(MCPServer) /\ hs \in Seq(HTTPService)
  BY <1>1, <1>2, ConfigFields, SequenceFromFunction
<1>4. Normal(c) = [c EXCEPT !.servers = ss, !.services = hs]
  BY DEF Normal
<1> HIDE DEF ss, hs
<1>5. Normal(c) \in Config /\ Normal(c).servers = ss /\ Normal(c).services = hs
  BY <1>3, <1>4 DEF Config
<1> QED  BY <1>1, <1>2, <1>5 DEF Aliased

\* What Save has written, Load reads as it was.
LEMMA NormalOfAliased ==
  ASSUME NEW c \in Config, Aliased(c)
  PROVE  Normal(c) = c
<1>1. [i \in DOMAIN c.servers |-> WithAlias(c.servers[i])] = c.servers
  <2>1. \A i \in DOMAIN c.servers : WithAlias(c.servers[i]) = c.servers[i]
    BY ConfigFields, ServerWithAlias DEF Aliased
  <2>2. c.servers \in [1..Len(c.servers) -> MCPServer]
    BY ConfigFields, LenProperties
  <2> QED  BY <2>1, <2>2
<1>2. [i \in DOMAIN c.services |-> WithAlias(c.services[i])] = c.services
  <2>1. \A i \in DOMAIN c.services : WithAlias(c.services[i]) = c.services[i]
    BY ConfigFields, ServiceWithAlias DEF Aliased
  <2>2. c.services \in [1..Len(c.services) -> HTTPService]
    BY ConfigFields, LenProperties
  <2> QED  BY <2>1, <2>2
<1>3. Normal(c) = [c EXCEPT !.servers = c.servers, !.services = c.services]
  BY <1>1, <1>2 DEF Normal
<1> QED  BY <1>3 DEF Config

\* UpsertServer puts the server in the place of the one with its name, if there is one.
LEMMA UpsertReplaces ==
  ASSUME NEW c \in Config, NEW item \in MCPServer, item.name \in Names(c.servers)
  PROVE  LET d == Upsert(c, item)
         IN  /\ d \in Config /\ d.services = c.services /\ d.db = c.db
             /\ DOMAIN d.servers = DOMAIN c.servers
             /\ \A i \in DOMAIN c.servers :
                  d.servers[i] = IF c.servers[i].name = item.name THEN WithAlias(item)
                                                                  ELSE c.servers[i]
<1> DEFINE ss == [i \in DOMAIN c.servers |-> IF c.servers[i].name = item.name
                                               THEN WithAlias(item) ELSE c.servers[i]]
<1>1. ss \in [1..Len(c.servers) -> MCPServer] /\ DOMAIN ss = DOMAIN c.servers
  BY ConfigFields, ServerWithAlias
<1>2. ss \in Seq(MCPServer)
  BY <1>1, ConfigFields, SequenceFromFunction
<1>3. Upsert(c, item) = [c EXCEPT !.servers = ss]
  BY DEF Upsert, Config
<1>4. \A i \in DOMAIN c.servers :
        ss[i] = IF c.servers[i].name = item.name THEN WithAlias(item) ELSE c.servers[i]
  OBVIOUS
<1> HIDE DEF ss
<1>5. /\ Upsert(c, item) \in Config /\ Upsert(c, item).servers = ss
      /\ Upsert(c, item).services = c.services /\ Upsert(c, item).db = c.db
  BY <1>2, <1>3 DEF Config
<1> QED  BY <1>1, <1>4, <1>5

\* Otherwise it goes to the end.
LEMMA UpsertAppends ==
  ASSUME NEW c \in Config, NEW item \in MCPServer, item.name \notin Names(c.servers)
  PROVE  LET d == Upsert(c, item)
             n == Len(c.servers)
         IN  /\ d \in Config /\ d.services = c.services /\ d.db = c.db
             /\ DOMAIN d.servers = 1..(n + 1)
             /\ \A i \in 1..n : d.servers[i] = c.servers[i]
             /\ d.servers[n + 1] = WithAlias(item)
<1> DEFINE ss == Append(c.servers, WithAlias(item))
<1>1. c.servers \in Seq(MCPServer) /\ WithAlias(item) \in MCPServer
  BY ConfigFields, ServerWithAlias
<1>2. /\ ss \in Seq(MCPServer) /\ Len(ss) = Len(c.servers) + 1
      /\ \A i \in 1..Len(c.servers) : ss[i] = c.servers[i]
      /\ ss[Len(c.servers) + 1] = WithAlias(item)
  BY <1>1, AppendProperties
<1>3. Upsert(c, item) = [c EXCEPT !.servers = ss]
  BY DEF Upsert, Config
<1>4. DOMAIN ss = 1..(Len(c.servers) + 1)
  BY <1>2, LenProperties
<1> HIDE DEF ss
<1>5. /\ Upsert(c, item) \in Config /\ Upsert(c, item).servers = ss
      /\ Upsert(c, item).services = c.services /\ Upsert(c, item).db = c.db
  BY <1>2, <1>3 DEF Config
<1> QED  BY <1>2, <1>4, <1>5

LEMMA UpsertIsAliased ==
  ASSUME NEW c \in Config, Aliased(c), NEW item \in MCPServer
  PROVE  Upsert(c, item) \in Config /\ Aliased(Upsert(c, item))
<1>1. CASE item.name \in Names(c.servers)
  BY <1>1, UpsertReplaces, ServerWithAlias DEF Aliased
<1>2. CASE item.name \notin Names(c.servers)
  <2>1. Upsert(c, item) \in Config /\ Upsert(c, item).services = c.services
    BY <1>2, UpsertAppends
  <2>2. \A i \in DOMAIN Upsert(c, item).servers : Upsert(c, item).servers[i].alias # None
    <3> DEFINE n == Len(c.servers)
    <3>1. n \in Nat /\ DOMAIN c.servers = 1..n
      BY ConfigFields
    <3>2. /\ DOMAIN Upsert(c, item).servers = 1..(n + 1)
          /\ \A i \in 1..n : Upsert(c, item).servers[i] = c.servers[i]
          /\ Upsert(c, item).servers[n + 1] = WithAlias(item)
      BY <1>2, UpsertAppends
    <3> HIDE DEF n
    <3>3. \A i \in 1..(n + 1) : i \in 1..n \/ i = n + 1
      BY <3>1
    <3> QED  BY <3>1, <3>2, <3>3, ServerWithAlias DEF Aliased
  <2> QED  BY <2>1, <2>2 DEF Aliased
<1> QED  BY <1>1, <1>2

\* What is left of a sequence of n elements behind the one at k.
LEMMA TailPositions ==
  ASSUME NEW n \in Nat, NEW k \in 1..n
  PROVE  /\ n - (k + 1) + 1 = n - k
         /\ ~(k + 1 <= n) => n - k = 0
OBVIOUS

\* RemoveServer leaves the servers of other names, at the same url.
LEMMA RemoveLeaves ==
  ASSUME NEW c \in Config, Valid(c), NEW n \in Names(c.servers)
  PROVE  LET d == Remove(c, n)
         IN  /\ d \in Config /\ d.services = c.services /\ d.db = c.db
             /\ Names(d.servers) = Names(c.servers) \ {n}
             /\ \A j \in DOMAIN d.servers : \E i \in DOMAIN c.servers :
                  d.servers[j] = c.servers[i]
<1> DEFINE s == c.servers
           P(i) == s[i].name = n /\ \A j \in DOMAIN s : j < i => s[j].name # n
           k == CHOOSE i \in DOMAIN s : P(i)
           a == SubSeq(s, 1, k - 1)
           b == SubSeq(s, k + 1, Len(s))
<1>1. OneEach(c)
  BY ValidIsUnambiguous
<1>2. PICK i \in DOMAIN s : s[i].name = n
  BY DEF Names
<1>3. \A j \in DOMAIN s : s[j].name = n => j = i
  <2> TAKE j \in DOMAIN s
  <2> HAVE s[j].name = n
  <2>1. n \in Ids(s[i]) /\ n \in Ids(s[j])
    BY <1>2 DEF Ids
  <2> QED  BY <1>1, <2>1, OneServer
<1>4. s \in Seq(MCPServer) /\ DOMAIN s = 1..Len(s) /\ Len(s) \in Nat
  BY ConfigFields
<1>5. k = i
  <2>1. P(i)
    BY <1>2, <1>3, <1>4
  <2>2. \A j \in DOMAIN s : P(j) => j = i
    BY <1>3
  <2> QED  BY <2>1, <2>2
<1>6. Remove(c, n) = [c EXCEPT !.servers = a \o b]
  BY DEF Remove
<1> HIDE DEF s, k
<1>7. k \in 1..Len(s) /\ s[k].name = n /\ \A j \in 1..Len(s) : j # k => s[j].name # n
  BY <1>2, <1>3, <1>4, <1>5
<1>8. /\ a \in Seq(MCPServer) /\ Len(a) = k - 1
      /\ \A j \in 1..(k - 1) : a[j] = s[j]
  <2>1. \A j \in 1..(k - 1) : s[j] \in MCPServer
    BY <1>4, <1>7, ElementOfSeq
  <2>2. /\ a \in Seq(MCPServer)
        /\ Len(a) = IF 1 <= k - 1 THEN (k - 1) - 1 + 1 ELSE 0
        /\ \A j \in 1..((k - 1) - 1 + 1) : a[j] = s[1 + j - 1]
    BY <1>4, <1>7, <2>1, SubSeqProperties
  <2> QED  BY <1>4, <1>7, <2>2
<1>9. /\ b \in Seq(MCPServer) /\ Len(b) = Len(s) - k
      /\ \A j \in 1..(Len(s) - k) : b[j] = s[k + j]
  <2>1. \A j \in (k + 1)..Len(s) : s[j] \in MCPServer
    BY <1>4, <1>7, ElementOfSeq
  <2>2. /\ b \in Seq(MCPServer)
        /\ Len(b) = IF k + 1 <= Len(s) THEN Len(s) - (k + 1) + 1 ELSE 0
        /\ \A j \in 1..(Len(s) - (k + 1) + 1) : b[j] = s[(k + 1) + j - 1]
    BY <1>4, <1>7, <2>1, SubSeqProperties
  <2>3. /\ Len(s) - (k + 1) + 1 = Len(s) - k
        /\ ~(k + 1 <= Len(s)) => Len(s) - k = 0
    BY <1>4, <1>7, TailPositions
  <2>4. ASSUME NEW j \in 1..(Len(s) - k)
        PROVE  b[j] = s[k + j]
    <3>1. (k + 1) + j - 1 = k + j
      BY <1>4, <1>7
    <3> QED  BY <2>2, <2>3, <3>1
  <2> QED  BY <2>2, <2>3, <2>4
<1> HIDE DEF a, b
<1>10. /\ a \o b \in Seq(MCPServer) /\ Len(a \o b) = Len(s) - 1
       /\ \A j \in 1..(Len(s) - 1) : (a \o b)[j] = IF j < k THEN s[j] ELSE s[j + 1]
  <2>1. /\ a \o b \in Seq(MCPServer) /\ Len(a \o b) = Len(a) + Len(b)
        /\ \A j \in 1..(Len(a) + Len(b)) : (a \o b)[j] = IF j <= Len(a) THEN a[j] ELSE b[j - Len(a)]
    BY <1>8, <1>9, ConcatProperties
  <2>2. Len(a) + Len(b) = Len(s) - 1
    BY <1>4, <1>7, <1>8, <1>9
  <2>3. ASSUME NEW j \in 1..(Len(s) - 1)
        PROVE  (a \o b)[j] = IF j < k THEN s[j] ELSE s[j + 1]
    <3>1. (a \o b)[j] = IF j <= k - 1 THEN a[j] ELSE b[j - (k - 1)]
      BY <2>1, <2>2, <1>8
    <3>2. CASE j < k
      <4>1. j \in 1..(k - 1)
        BY <3>2, <1>4, <1>7
      <4> QED  BY <1>8, <3>1, <3>2, <4>1
    <3>3. CASE ~(j < k)
      <4>1. j - (k - 1) \in 1..(Len(s) - k) /\ k + (j - (k - 1)) = j + 1 /\ ~(j <= k - 1)
        BY <3>3, <1>4, <1>7
      <4> QED  BY <1>9, <3>1, <3>3, <4>1
    <3> QED  BY <3>2, <3>3
  <2> QED  BY <2>1, <2>2, <2>3
<1> DEFINE t == a \o b
<1>11. DOMAIN t = 1..(Len(s) - 1)
  BY <1>10, LenProperties
<1>12. /\ Remove(c, n) \in Config /\ Remove(c, n).servers = t
       /\ Remove(c, n).services = c.services /\ Remove(c, n).db = c.db
  BY <1>6, <1>10 DEF Config
<1>13. \A j \in DOMAIN t : \E m \in 1..Len(s) : m # k /\ t[j] = s[m]
  <2> TAKE j \in DOMAIN t
  <2> HIDE DEF t
  <2>1. j \in 1..(Len(s) - 1) /\ t[j] = IF j < k THEN s[j] ELSE s[j + 1]
    BY <1>10, <1>11 DEF t
  <2>2. CASE j < k
    BY <1>4, <1>7, <2>1, <2>2
  <2>3. CASE ~(j < k)
    <3>1. j + 1 \in 1..Len(s) /\ j + 1 # k
      BY <1>4, <1>7, <2>1, <2>3
    <3> QED  BY <2>1, <2>3, <3>1
  <2> QED  BY <2>2, <2>3
<1>14. \A m \in 1..Len(s) : m # k => \E j \in DOMAIN t : t[j] = s[m]
  <2> TAKE m \in 1..Len(s)
  <2> HAVE m # k
  <2> HIDE DEF t
  <2>1. \A j \in 1..(Len(s) - 1) : t[j] = IF j < k THEN s[j] ELSE s[j + 1]
    BY <1>10 DEF t
  <2>2. CASE m < k
    <3>1. m \in 1..(Len(s) - 1)
      BY <1>4, <1>7, <2>2
    <3> QED  BY <1>11, <2>1, <2>2, <3>1
  <2>3. CASE ~(m < k)
    <3>1. m - 1 \in 1..(Len(s) - 1) /\ ~(m - 1 < k) /\ (m - 1) + 1 = m
      BY <1>4, <1>7, <2>3
    <3> QED  BY <1>11, <2>1, <3>1
  <2> QED  BY <2>2, <2>3
<1> HIDE DEF t
<1>15. Names(t) = Names(s) \ {n}
  <2>1. \A x \in Names(t) : x \in Names(s) /\ x # n
    BY <1>4, <1>7, <1>13 DEF Names
  <2>2. \A x \in Names(s) : x # n => x \in Names(t)
    BY <1>4, <1>7, <1>14 DEF Names
  <2>3. n \notin Names(t)
    BY <2>1
  <2> QED  BY <2>1, <2>2, <2>3
<1> QED  BY <1>4, <1>12, <1>13, <1>15 DEF s

LEMMA RemoveIsAliased ==
  ASSUME NEW c \in Config, Valid(c), Aliased(c), NEW n \in Names(c.servers)
  PROVE  Remove(c, n) \in Config /\ Aliased(Remove(c, n))
  BY RemoveLeaves DEF Aliased

\* The servers that stay where they are and what they are make no name a re-pointed one.
LEMMA NothingRepointed ==
  ASSUME NEW c \in Config, NEW d \in Config, OneEach(c), OneEach(d),
         \A j \in DOMAIN d.servers : d.servers[j].name \in Names(c.servers)
           => \E i \in DOMAIN c.servers : d.servers[j] = c.servers[i]
  PROVE  Repointed(c, d) = {}
<1> SUFFICES ASSUME NEW n \in Names(c.servers), n \in Names(d.servers)
             PROVE  URLOf(c, n) = URLOf(d, n)
  BY DEF Repointed
<1>1. PICK j \in DOMAIN d.servers : d.servers[j].name = n
  BY DEF Names
<1>2. PICK i \in DOMAIN c.servers : d.servers[j] = c.servers[i]
  BY <1>1
<1>3. URLOf(d, n) = d.servers[j].url
  BY <1>1, URLOfServer
<1>4. URLOf(c, n) = c.servers[i].url
  BY <1>1, <1>2, URLOfServer
<1> QED  BY <1>2, <1>3, <1>4

LEMMA RemoveForgets ==
  ASSUME NEW c \in Config, Valid(c), NEW n \in Names(c.servers), Valid(Remove(c, n))
  PROVE  {First(c.servers, n).name} = Repointed(c, Remove(c, n)) \cup
                                        (Names(c.servers) \ Names(Remove(c, n).servers))
<1> DEFINE d == Remove(c, n)
<1>1. /\ d \in Config /\ Names(d.servers) = Names(c.servers) \ {n}
      /\ \A j \in DOMAIN d.servers : \E i \in DOMAIN c.servers : d.servers[j] = c.servers[i]
  BY RemoveLeaves
<1>2. OneEach(c) /\ OneEach(d)
  BY <1>1, ValidIsUnambiguous
<1>3. Repointed(c, d) = {}
  BY <1>1, <1>2, NothingRepointed
<1>4. First(c.servers, n).name = n
  <2>1. PICK i \in DOMAIN c.servers : c.servers[i].name = n
    BY DEF Names
  <2>2. n \in Ids(c.servers[i])
    BY <2>1 DEF Ids
  <2> QED  BY <1>2, <2>1, <2>2, FirstServer
<1> HIDE DEF d
<1>5. Names(c.servers) \ Names(d.servers) = {n}
  BY <1>1
<1> QED  BY <1>3, <1>4, <1>5 DEF d

\* add_server forgets the server that it re-points, and no other.
LEMMA AddForgetsRepointed ==
  ASSUME cfg \in Config, OneEach(cfg), NEW item \in MCPServer, Valid(Upsert(cfg, item))
  PROVE  AddForgets(item) = Repointed(cfg, Upsert(cfg, item))
<1> DEFINE d == Upsert(cfg, item)
<1>1. d \in Config
  BY UpsertReplaces, UpsertAppends
<1>2. OneEach(d)
  BY <1>1, ValidIsUnambiguous
<1>3. CASE item.name \in Names(cfg.servers)
  <2>1. PICK i \in DOMAIN cfg.servers : cfg.servers[i].name = item.name
    BY <1>3 DEF Names
  <2>2. /\ DOMAIN d.servers = DOMAIN cfg.servers
        /\ \A j \in DOMAIN cfg.servers :
             d.servers[j] = IF cfg.servers[j].name = item.name THEN WithAlias(item)
                                                               ELSE cfg.servers[j]
    BY <1>3, UpsertReplaces
  <2>3. item.name \in Ids(cfg.servers[i])
    BY <2>1 DEF Ids
  <2>4. Answers(cfg.servers, item.name) /\ First(cfg.servers, item.name) = cfg.servers[i]
    BY <2>3, FirstServer
  <2>5. AddForgets(item) = IF cfg.servers[i].url # item.url THEN {item.name} ELSE {}
    BY <2>1, <2>4 DEF AddForgets
  <2> HIDE DEF d
  <2>6. WithAlias(item).name = item.name /\ WithAlias(item).url = item.url
    BY ServerWithAlias
  <2>7. \A j \in DOMAIN cfg.servers :
          /\ d.servers[j].name = cfg.servers[j].name
          /\ d.servers[j].url = IF cfg.servers[j].name = item.name THEN item.url
                                                                   ELSE cfg.servers[j].url
    BY <2>2, <2>6
  <2>8. \A j \in DOMAIN cfg.servers :
          /\ cfg.servers[j].name \in Names(d.servers)
          /\ URLOf(cfg, cfg.servers[j].name) = cfg.servers[j].url
          /\ URLOf(d, cfg.servers[j].name) = d.servers[j].url
    <3> TAKE j \in DOMAIN cfg.servers
    <3>1. d.servers[j].name = cfg.servers[j].name /\ j \in DOMAIN d.servers
      BY <2>2, <2>7
    <3> QED  BY <1>1, <1>2, <3>1, URLOfServer DEF Names
  <2>9. \A n \in Names(cfg.servers) : n \in Repointed(cfg, d)
                                        <=> n = item.name /\ cfg.servers[i].url # item.url
    <3> TAKE n \in Names(cfg.servers)
    <3>1. PICK j \in DOMAIN cfg.servers : cfg.servers[j].name = n
      BY DEF Names
    <3>2. n \in Repointed(cfg, d) <=> cfg.servers[j].url # d.servers[j].url
      BY <2>8, <3>1 DEF Repointed
    <3>3. n = item.name => j = i
      <4> HAVE n = item.name
      <4>1. item.name \in Ids(cfg.servers[j])
        BY <3>1 DEF Ids
      <4> QED  BY <2>3, <4>1, OneServer
    <3> QED  BY <2>1, <2>7, <3>1, <3>2, <3>3
  <2>10. Repointed(cfg, d) \subseteq Names(cfg.servers)
    BY DEF Repointed
  <2> QED  BY <1>3, <2>5, <2>9, <2>10 DEF d
<1>4. CASE item.name \notin Names(cfg.servers)
  <2> DEFINE m == Len(cfg.servers)
  <2>1. m \in Nat /\ DOMAIN cfg.servers = 1..m
    BY ConfigFields
  <2>2. /\ DOMAIN d.servers = 1..(m + 1)
        /\ \A i \in 1..m : d.servers[i] = cfg.servers[i]
        /\ d.servers[m + 1] = WithAlias(item)
    BY <1>4, UpsertAppends
  <2> HIDE DEF d, m
  <2>3. ~Answers(cfg.servers, item.name)
    <3> SUFFICES ASSUME NEW i \in DOMAIN cfg.servers, item.name \in Ids(cfg.servers[i])
                 PROVE  FALSE
      BY DEF Answers
    <3>1. i \in DOMAIN d.servers /\ m + 1 \in DOMAIN d.servers /\ i # m + 1
      BY <2>1, <2>2
    <3>2. item.name \in Ids(d.servers[i])
      BY <2>1, <2>2
    <3>3. item.name \in Ids(d.servers[m + 1])
      BY <2>2, ServerWithAlias DEF Ids
    <3> QED  BY <1>1, <1>2, <3>1, <3>2, <3>3, OneServer
  <2>4. \A j \in 1..(m + 1) : j \in 1..m \/ j = m + 1
    BY <2>1
  <2>5. \A j \in DOMAIN d.servers : d.servers[j].name \in Names(cfg.servers)
          => \E i \in DOMAIN cfg.servers : d.servers[j] = cfg.servers[i]
    BY <1>4, <2>1, <2>2, <2>4, ServerWithAlias
  <2>6. Repointed(cfg, d) = {}
    BY <1>1, <1>2, <2>5, NothingRepointed
  <2> QED  BY <2>3, <2>6 DEF d, AddForgets
<1> QED  BY <1>3, <1>4

-----------------------------------------------------------------------------
(* The daemon and its file. *)

LEMMA InitDaemon ==
  ASSUME Init
  PROVE  DaemonIInv
<1>1. file \in Config /\ file # None
  BY CatalogAssumption DEF Init
<1>2. cfg \in Config /\ Aliased(cfg) /\ cfg # None
  BY <1>1, NormalIsAliased, CatalogAssumption DEF Init
<1>3. OneEach(cfg)
  BY <1>2, ValidIsUnambiguous DEF Init
<1>4. rcfg \in [Gen -> Config \cup {None}] /\ rcfg[current] = cfg
      /\ \A g \in Gen : rcfg[g] # None => OneEach(rcfg[g])
  BY <1>2, <1>3 DEF Init
<1>5. change \in [op : {"none", "add", "remove", "auth", "reload"},
                  next : Config \cup {None}, forgets : SUBSET Id]
  BY DEF Init, NoChange
<1>6. Unambiguous /\ Staged /\ ForgetsExactly
  BY <1>1, <1>3, <1>4 DEF Init, Unambiguous, Staged, ForgetsExactly
<1> QED  BY <1>1, <1>2, <1>4, <1>5, <1>6 DEF Init, DaemonIInv

\* What a change that has s.mu must bring with it.
LEMMA TakeDaemon ==
  ASSUME DaemonIInv, NEW op \in {"add", "remove", "auth", "reload"}, NEW next \in Config,
         NEW forgets \in SUBSET Id, Take(op, next, forgets),
         file' \in Config, Normal(file') = next, Aliased(next), OneEach(next),
         forgets = Repointed(cfg, next) \cup
                     (IF op = "remove" THEN Names(cfg.servers) \ Names(next.servers) ELSE {})
  PROVE  DaemonIInv'
<1>1. next # None /\ file' # None
  BY CatalogAssumption
<1>2. /\ change' = [op |-> op, next |-> next, forgets |-> forgets]
      /\ stage' = "saved" /\ edited' = FALSE /\ stage = "free"
      /\ UNCHANGED <<cfg, current, rcfg>>
  BY DEF Take, daemon
<1>3. change'.op = op /\ change'.next = next /\ change'.forgets = forgets
  BY <1>2
<1>4. change' \in [op : {"none", "add", "remove", "auth", "reload"},
                   next : Config \cup {None}, forgets : SUBSET Id]
  BY <1>2
<1>5. Unambiguous'
  BY <1>2, <1>3 DEF DaemonIInv, Unambiguous
<1>6. Staged'
  BY <1>1, <1>2, <1>3 DEF DaemonIInv, Staged
<1>7. ForgetsExactly'
  BY <1>2, <1>3 DEF ForgetsExactly
<1> QED  BY <1>2, <1>3, <1>4, <1>5, <1>6, <1>7 DEF DaemonIInv

LEMMA AddServerDaemon ==
  ASSUME DaemonIInv, NEW item \in Items, AddServer(item)
  PROVE  DaemonIInv'
<1> DEFINE next == Upsert(cfg, item)
<1>1. item \in MCPServer /\ cfg \in Config /\ Aliased(cfg) /\ OneEach(cfg)
  BY CatalogAssumption DEF DaemonIInv, Unambiguous
<1>2. next \in Config /\ Aliased(next)
  BY <1>1, UpsertIsAliased
<1>3. Valid(next) /\ file' = next /\ Take("add", next, AddForgets(item))
  BY DEF AddServer, Save
<1>4. OneEach(next) /\ Normal(next) = next
  BY <1>2, <1>3, ValidIsUnambiguous, NormalOfAliased
<1>5. AddForgets(item) = Repointed(cfg, next)
  BY <1>1, <1>3, AddForgetsRepointed
<1>6. AddForgets(item) \in SUBSET Id
  BY <1>1, <1>5, NamesType DEF Repointed
<1> HIDE DEF next
<1> QED  BY <1>2, <1>3, <1>4, <1>5, <1>6, TakeDaemon

\* What is in memory passes validate again.
LEMMA UnambiguousIsValid ==
  ASSUME NEW c \in Config, OneEach(c)
  PROVE  Valid(c)
<1> DEFINE p == Len(c.servers)
           q == Len(c.services)
           n == p + q
<1>1. n \in Nat
  <2>1. p \in Nat /\ q \in Nat
    BY ConfigFields
  <2> HIDE DEF p, q
  <2> QED  BY <2>1
<1>2. DOMAIN Entries(c) = 1..n
  BY EntriesFields
<1> HIDE DEF n
<1>3. \A i, j \in 1..n : i < j => i # j
  BY <1>1
<1> QED  BY <1>2, <1>3 DEF OneEach, Valid

LEMMA RemoveServerDaemon ==
  ASSUME DaemonIInv, NEW n \in Id, RemoveServer(n)
  PROVE  DaemonIInv'
<1> DEFINE next == Remove(cfg, n)
           forgets == {First(cfg.servers, n).name}
<1>1. cfg \in Config /\ Aliased(cfg) /\ OneEach(cfg) /\ n \in Names(cfg.servers) /\ Valid(cfg)
  BY UnambiguousIsValid DEF DaemonIInv, Unambiguous, RemoveServer
<1>2. next \in Config /\ Aliased(next)
  BY <1>1, RemoveIsAliased
<1>3. Valid(next) /\ file' = next /\ Take("remove", next, forgets)
  BY DEF RemoveServer, Save
<1>4. OneEach(next) /\ Normal(next) = next
  BY <1>2, <1>3, ValidIsUnambiguous, NormalOfAliased
<1>5. forgets = Repointed(cfg, next) \cup (Names(cfg.servers) \ Names(next.servers))
  BY <1>1, <1>3, RemoveForgets
<1>6. forgets \in SUBSET Id
  <2>1. Names(cfg.servers) \subseteq Id
    BY <1>1, NamesType
  <2> HIDE DEF forgets, next
  <2> QED  BY <1>5, <2>1 DEF Repointed
<1> HIDE DEF next, forgets
<1> QED  BY <1>2, <1>3, <1>4, <1>5, <1>6, TakeDaemon

LEMMA SetAuthDaemon ==
  ASSUME DaemonIInv, NEW n \in Id, SetAuth(n)
  PROVE  DaemonIInv'
<1>1. cfg \in Config /\ Aliased(cfg) /\ OneEach(cfg)
  BY DEF DaemonIInv, Unambiguous
<1>2. file' = cfg /\ Take("auth", cfg, {})
  BY DEF SetAuth, Save
<1>3. Normal(cfg) = cfg
  BY <1>1, NormalOfAliased
<1>4. Repointed(cfg, cfg) = {}
  BY DEF Repointed
<1> QED  BY <1>1, <1>2, <1>3, <1>4, TakeDaemon

LEMMA ReloadDaemon ==
  ASSUME DaemonIInv, Reload
  PROVE  DaemonIInv'
<1> DEFINE next == Normal(file)
<1>1. file \in Config /\ file' = file
  BY DEF DaemonIInv, Reload
<1>2. next \in Config /\ Aliased(next) /\ Valid(next)
  BY <1>1, NormalIsAliased DEF Reload
<1>3. OneEach(next)
  BY <1>2, ValidIsUnambiguous
<1>4. Take("reload", next, ReloadForgets(next)) /\ Normal(file') = next
  BY <1>1 DEF Reload
<1> HIDE DEF next
<1>5. ReloadForgets(next) = Repointed(cfg, next)
  BY DEF ReloadForgets, Repointed
<1>6. ReloadForgets(next) \in SUBSET Id
  <2>1. Names(cfg.servers) \subseteq Id
    BY NamesType DEF DaemonIInv
  <2> QED  BY <2>1 DEF ReloadForgets
<1> QED  BY <1>1, <1>2, <1>3, <1>4, <1>5, <1>6, TakeDaemon

LEMMA ChangeFailsDaemon ==
  ASSUME DaemonIInv, ChangeFails
  PROVE  DaemonIInv'
<1>1. /\ stage = "saved" /\ stage' = "free" /\ change' = NoChange /\ edited' = TRUE
      /\ UNCHANGED <<file, cfg, current, rcfg>>
  BY DEF ChangeFails, daemon
<1>2. change' \in [op : {"none", "add", "remove", "auth", "reload"},
                   next : Config \cup {None}, forgets : SUBSET Id]
  BY <1>1 DEF NoChange
<1>3. Unambiguous' /\ Staged' /\ ForgetsExactly'
  BY <1>1 DEF DaemonIInv, Unambiguous, Staged, ForgetsExactly
<1> QED  BY <1>1, <1>2, <1>3 DEF DaemonIInv

LEMMA AssignDaemon ==
  ASSUME DaemonIInv, Assign
  PROVE  DaemonIInv'
<1>1. /\ stage = "saved" /\ stage' = "assigned" /\ cfg' = change.next
      /\ UNCHANGED <<file, edited, change>>
  BY DEF Assign
<1>2. change.next \in Config /\ change.next # None /\ Aliased(change.next) /\ OneEach(change.next)
  BY <1>1 DEF DaemonIInv, Staged, Unambiguous
<1>3. /\ current' \in Gen /\ rcfg' \in [Gen -> Config \cup {None}]
      /\ rcfg'[current'] # None
      /\ \A g \in Gen : rcfg'[g] # None => rcfg'[g] = change.next \/ rcfg'[g] = rcfg[g]
  <2>1. CASE NewDatabase
    <3>1. PICK g \in Gen : /\ current' = g
                           /\ rcfg' = [r \in Gen |-> IF r = g THEN change.next
                                                     ELSE IF Referenced(r) THEN rcfg[r]
                                                     ELSE None]
      BY <2>1 DEF Assign
    <3>2. rcfg \in [Gen -> Config \cup {None}]
      BY DEF DaemonIInv
    <3> QED  BY <1>2, <3>1, <3>2
  <2>2. CASE ~NewDatabase
    BY <2>2 DEF Assign, DaemonIInv
  <2> QED  BY <2>1, <2>2
<1>4. Unambiguous'
  BY <1>1, <1>2, <1>3 DEF DaemonIInv, Unambiguous
<1>5. Staged' /\ ForgetsExactly'
  BY <1>1, <1>2 DEF DaemonIInv, Staged, ForgetsExactly
<1> QED  BY <1>1, <1>2, <1>3, <1>4, <1>5 DEF DaemonIInv

LEMMA UpdateDaemon ==
  ASSUME DaemonIInv, Update
  PROVE  DaemonIInv'
<1>1. /\ stage = "assigned" /\ stage' = "free" /\ change' = NoChange
      /\ rcfg' = [rcfg EXCEPT ![current] = cfg]
      /\ UNCHANGED <<file, edited, cfg, current>>
  BY DEF Update, daemon
<1>2. change' \in [op : {"none", "add", "remove", "auth", "reload"},
                   next : Config \cup {None}, forgets : SUBSET Id]
  BY <1>1 DEF NoChange
<1>3. cfg \in Config /\ cfg # None /\ OneEach(cfg)
  BY CatalogAssumption DEF DaemonIInv, Unambiguous
<1>4. /\ rcfg' \in [Gen -> Config \cup {None}] /\ rcfg'[current] = cfg
      /\ \A g \in Gen : g # current => rcfg'[g] = rcfg[g]
  BY <1>1, <1>3 DEF DaemonIInv
<1>5. Unambiguous'
  BY <1>1, <1>3, <1>4 DEF DaemonIInv, Unambiguous
<1>6. Staged' /\ ForgetsExactly'
  BY <1>1, <1>4 DEF DaemonIInv, Staged, ForgetsExactly
<1> QED  BY <1>1, <1>2, <1>3, <1>4, <1>5, <1>6 DEF DaemonIInv

LEMMA EditFileDaemon ==
  ASSUME DaemonIInv, NEW d \in Documents, EditFile(d)
  PROVE  DaemonIInv'
<1>1. file' \in Config \cup {None} /\ edited' = TRUE
  BY CatalogAssumption DEF EditFile
<1>2. UNCHANGED <<cfg, current, rcfg, stage, change>>
  BY DEF EditFile, daemon, changing
<1>3. Unambiguous' /\ Staged' /\ ForgetsExactly'
  BY <1>1, <1>2 DEF DaemonIInv, Unambiguous, Staged, ForgetsExactly
<1> QED  BY <1>1, <1>2, <1>3 DEF DaemonIInv

LEMMA RestartDaemon ==
  ASSUME DaemonIInv, Restart
  PROVE  DaemonIInv'
<1> DEFINE next == Normal(file)
<1>1. file \in Config /\ file # None /\ next \in Config /\ Aliased(next) /\ Valid(next)
  BY NormalIsAliased DEF DaemonIInv, Restart
<1>2. OneEach(next) /\ next # None
  BY <1>1, ValidIsUnambiguous, CatalogAssumption
<1>3. /\ cfg' = next /\ rcfg' = [g \in Gen |-> IF g = current THEN next ELSE None]
      /\ edited' = FALSE /\ stage' = "free" /\ change' = NoChange
      /\ UNCHANGED <<file, current>>
  BY DEF Restart
<1>4. Normal(file') = cfg'
  BY <1>3
<1> HIDE DEF next
<1>5. change' \in [op : {"none", "add", "remove", "auth", "reload"},
                   next : Config \cup {None}, forgets : SUBSET Id]
  BY <1>3 DEF NoChange
<1>6. current \in Gen /\ rcfg' \in [Gen -> Config \cup {None}] /\ rcfg'[current] = next
      /\ \A g \in Gen : rcfg'[g] # None => rcfg'[g] = next
  BY <1>1, <1>3 DEF DaemonIInv
<1>7. Unambiguous' /\ Staged' /\ ForgetsExactly'
  BY <1>1, <1>2, <1>3, <1>4, <1>6 DEF Unambiguous, Staged, ForgetsExactly
<1> QED  BY <1>1, <1>2, <1>3, <1>5, <1>6, <1>7 DEF DaemonIInv

LEMMA StillDaemon ==
  ASSUME DaemonIInv, UNCHANGED <<file, edited, daemon, rcfg, changing>>
  PROVE  DaemonIInv'
<1>1. UNCHANGED <<file, edited, cfg, current, rcfg, stage, change>>
  BY DEF daemon, changing
<1>2. Unambiguous' /\ Staged' /\ ForgetsExactly'
  BY <1>1 DEF DaemonIInv, Unambiguous, Staged, ForgetsExactly
<1> QED  BY <1>1, <1>2 DEF DaemonIInv

-----------------------------------------------------------------------------
(* Attempts and retries. *)

ChainType ==
  [at : {"idle", "attempt", "wait", "fired"}, gen : Gen \cup {None}, name : Id \cup {None},
   for : Id \cup {None}, late : BOOLEAN, dropped : BOOLEAN]

LEMMA IdleChain ==
  Idle \in ChainType /\ Idle.at = "idle" /\ Idle.gen = None
  BY DEF Idle, ChainType

LEMMA InitChain ==
  ASSUME Init
  PROVE  ChainIInv
<1>1. chain \in [Chain -> ChainType]
  BY IdleChain DEF Init
<1>2. \A k \in Chain : chain[k] = Idle
  BY DEF Init
<1>3. \A k \in Chain : ChainOK(k)
  BY <1>2, IdleChain DEF ChainOK
<1> QED  BY <1>1, <1>3 DEF ChainIInv, ChainType

\* The configuration of a registry that some chain works with.
LEMMA ChainCatalog ==
  ASSUME DaemonIInv, ChainIInv, NEW k \in Chain, chain[k].at # "idle"
  PROVE  /\ chain[k].gen \in Gen /\ chain[k].gen # None /\ chain[k].name \in Id
         /\ rcfg[chain[k].gen] \in Config /\ OneEach(rcfg[chain[k].gen])
<1>1. chain[k].gen \in Gen /\ chain[k].gen # None /\ chain[k].name \in Id
  BY CatalogAssumption DEF ChainIInv, ChainOK
<1>2. rcfg[chain[k].gen] # None
  BY <1>1 DEF ChainIInv, ChainOK
<1>3. rcfg[chain[k].gen] \in Config
  BY <1>1, <1>2 DEF DaemonIInv
<1>4. OneEach(rcfg[chain[k].gen])
  BY <1>1, <1>2 DEF DaemonIInv, Unambiguous
<1> QED  BY <1>1, <1>3, <1>4

\* A step that makes each chain idle, leaves it alone, or leaves it in order.
LEMMA ChainStep ==
  ASSUME ChainIInv, chain' \in [Chain -> ChainType], UNCHANGED rcfg,
         NEW k \in Chain, ChainOK(k)',
         \A j \in Chain \ {k} : chain'[j] = chain[j] \/ chain'[j] = Idle
  PROVE  ChainIInv'
<1>1. ASSUME NEW j \in Chain \ {k}
      PROVE  ChainOK(j)'
  <2>1. CASE chain'[j] = chain[j]
    BY <2>1 DEF ChainIInv, ChainOK
  <2>2. CASE chain'[j] = Idle
    BY <2>2, IdleChain DEF ChainOK
  <2> QED  BY <2>1, <2>2
<1> QED  BY <1>1 DEF ChainIInv, ChainType

LEMMA BeginsChain ==
  ASSUME ChainIInv, NEW k \in Chain, NEW g \in Gen, NEW n \in Id, Begins(k, g, n),
         rcfg[g] # None, UNCHANGED rcfg
  PROVE  ChainIInv'
<1> DEFINE new == [Idle EXCEPT !.at = "attempt", !.gen = g, !.name = n, !.for = n]
<1>1. new \in ChainType /\ new.at = "attempt" /\ new.gen = g /\ new.name = n /\ new.for = n
  BY DEF Idle, ChainType
<1>2. chain \in [Chain -> ChainType] /\ chain' = [chain EXCEPT ![k] = new]
  BY DEF ChainIInv, ChainType, Begins
<1> HIDE DEF new
<1>3. /\ chain' \in [Chain -> ChainType] /\ chain'[k] = new
      /\ \A j \in Chain \ {k} : chain'[j] = chain[j]
  BY <1>1, <1>2
<1>4. ChainOK(k)'
  BY <1>1, <1>3 DEF ChainOK
<1> QED  BY <1>3, <1>4, ChainStep

LEMMA RefreshChain ==
  ASSUME DaemonIInv, ChainIInv, NEW k \in Chain, NEW n \in Id, Refresh(k, n)
  PROVE  ChainIInv'
<1>1. current \in Gen /\ rcfg[current] # None /\ UNCHANGED rcfg
  BY DEF DaemonIInv, Refresh
<1>2. Begins(k, current, n)
  BY DEF Refresh
<1> QED  BY <1>1, <1>2, BeginsChain

LEMMA SucceedsChain ==
  ASSUME ChainIInv, NEW k \in Chain, AttemptSucceeds(k)
  PROVE  ChainIInv'
<1>1. chain \in [Chain -> ChainType] /\ UNCHANGED rcfg
  BY DEF ChainIInv, ChainType, AttemptSucceeds
<1>2. chain' = [j \in Chain |-> IF j = k \/ (j \in Pending(k) /\ ~chain[k].dropped)
                                  THEN Idle ELSE chain[j]]
  BY DEF AttemptSucceeds
<1>3. /\ chain' \in [Chain -> ChainType] /\ chain'[k] = Idle
      /\ \A j \in Chain \ {k} : chain'[j] = chain[j] \/ chain'[j] = Idle
  BY <1>1, <1>2, IdleChain
<1>4. ChainOK(k)'
  BY <1>3, IdleChain DEF ChainOK
<1> QED  BY <1>1, <1>3, <1>4, ChainStep

LEMMA NeedsLoginChain ==
  ASSUME ChainIInv, NEW k \in Chain, AttemptNeedsLogin(k)
  PROVE  ChainIInv'
<1>1. chain \in [Chain -> ChainType] /\ UNCHANGED rcfg
  BY DEF ChainIInv, ChainType, AttemptNeedsLogin
<1>2. chain' = [chain EXCEPT ![k] = Idle]
  BY DEF AttemptNeedsLogin
<1>3. /\ chain' \in [Chain -> ChainType] /\ chain'[k] = Idle
      /\ \A j \in Chain \ {k} : chain'[j] = chain[j] \/ chain'[j] = Idle
  BY <1>1, <1>2, IdleChain
<1>4. ChainOK(k)'
  BY <1>3, IdleChain DEF ChainOK
<1> QED  BY <1>1, <1>3, <1>4, ChainStep

LEMMA FailsChain ==
  ASSUME DaemonIInv, ChainIInv, NEW k \in Chain, AttemptFails(k)
  PROVE  ChainIInv'
<1> DEFINE c == chain[k]
           gone == c.name \notin Names(rcfg[c.gen].servers)
           retry == [Idle EXCEPT !.at = "wait", !.gen = c.gen, !.name = c.name,
                                 !.for = c.name, !.late = gone]
<1>1. chain \in [Chain -> ChainType] /\ UNCHANGED rcfg /\ c.at = "attempt"
  BY DEF ChainIInv, ChainType, AttemptFails
<1>2. c.gen \in Gen /\ c.name \in Id /\ rcfg[c.gen] \in Config
  BY <1>1, ChainCatalog
<1>3. gone \in BOOLEAN
  OBVIOUS
<1>4. chain' = [j \in Chain |-> IF j = k THEN retry
                                ELSE IF j \in Pending(k) THEN Idle ELSE chain[j]]
  BY DEF AttemptFails
<1> HIDE DEF c, gone
<1>5. /\ retry \in ChainType /\ retry.at = "wait" /\ retry.gen = c.gen
      /\ retry.name = c.name /\ retry.for = c.name /\ retry.late = gone
  BY <1>2, <1>3 DEF Idle, ChainType
<1> HIDE DEF retry
<1>6. /\ chain' \in [Chain -> ChainType] /\ chain'[k] = retry
      /\ \A j \in Chain \ {k} : chain'[j] = chain[j] \/ chain'[j] = Idle
  BY <1>1, <1>4, <1>5, IdleChain
<1>7. ChainOK(k)'
  <2>1. rcfg[c.gen] # None
    BY <1>2, CatalogAssumption
  <2>2. ~gone => c.name \in Names(rcfg[c.gen].servers)
    BY DEF gone
  <2> QED  BY <1>1, <1>2, <1>5, <1>6, <2>1, <2>2 DEF ChainOK
<1> QED  BY <1>1, <1>6, <1>7, ChainStep

LEMMA FiresChain ==
  ASSUME ChainIInv, NEW k \in Chain, RetryFires(k)
  PROVE  ChainIInv'
<1>1. chain \in [Chain -> ChainType] /\ UNCHANGED rcfg /\ chain[k].at = "wait" /\ ChainOK(k)
  BY DEF ChainIInv, ChainType, RetryFires
<1>2. chain' = [chain EXCEPT ![k].at = "fired"]
  BY DEF RetryFires
<1>3. /\ chain' \in [Chain -> ChainType] /\ chain'[k] = [chain[k] EXCEPT !.at = "fired"]
      /\ \A j \in Chain \ {k} : chain'[j] = chain[j] \/ chain'[j] = Idle
  BY <1>1, <1>2 DEF ChainType
<1>4. /\ chain'[k].at = "fired" /\ chain'[k].gen = chain[k].gen /\ chain'[k].name = chain[k].name
      /\ chain'[k].for = chain[k].for /\ chain'[k].late = chain[k].late
  BY <1>1, <1>3 DEF ChainType
<1>5. ChainOK(k)'
  BY <1>1, <1>4 DEF ChainOK
<1> QED  BY <1>1, <1>3, <1>5, ChainStep

\* The server of a retry that is not late is still there, and only it answers to its name.
LEMMA ResolvesChain ==
  ASSUME DaemonIInv, ChainIInv, NEW k \in Chain, RetryResolves(k)
  PROVE  ChainIInv'
<1> DEFINE c == chain[k]
           n == ServerFor(rcfg[c.gen], c.name)
           new == IF n = None THEN Idle ELSE [c EXCEPT !.at = "attempt", !.name = n]
<1>1. chain \in [Chain -> ChainType] /\ UNCHANGED rcfg /\ c.at = "fired" /\ ChainOK(k)
  BY DEF ChainIInv, ChainType, RetryResolves
<1>2. /\ c.gen \in Gen /\ c.gen # None /\ c.name \in Id
      /\ rcfg[c.gen] \in Config /\ OneEach(rcfg[c.gen])
  BY <1>1, ChainCatalog
<1>3. n \in Id \cup {None}
  BY <1>2, ServerForType, NamesType
<1>4. ~c.late => n = c.name
  BY <1>1, <1>2, NamedServer DEF ChainOK
<1>5. rcfg[c.gen] # None
  BY <1>2, CatalogAssumption
<1>6. chain' = [chain EXCEPT ![k] = new]
  BY DEF RetryResolves
<1>7. c \in ChainType /\ (c.at = "fired" /\ ~c.late => c.for = c.name)
  BY <1>1 DEF ChainOK
<1> HIDE DEF c, n
<1>8. /\ new \in ChainType
      /\ n = None => new = Idle
      /\ n # None => /\ new.at = "attempt" /\ new.gen = c.gen /\ new.name = n
                     /\ new.for = c.for /\ new.late = c.late
  BY <1>3, <1>7, IdleChain DEF ChainType
<1> HIDE DEF new
<1>9. /\ chain' \in [Chain -> ChainType] /\ chain'[k] = new
      /\ \A j \in Chain \ {k} : chain'[j] = chain[j] \/ chain'[j] = Idle
  BY <1>1, <1>6, <1>8
<1>10. ChainOK(k)'
  <2>1. CASE n = None
    BY <1>8, <1>9, <2>1, IdleChain DEF ChainOK
  <2>2. CASE n # None
    BY <1>1, <1>2, <1>3, <1>4, <1>5, <1>7, <1>8, <1>9, <2>2 DEF ChainOK
  <2> QED  BY <2>1, <2>2
<1> QED  BY <1>1, <1>9, <1>10, ChainStep

\* A registry that somebody works with keeps its configuration.
LEMMA AssignKeeps ==
  ASSUME DaemonIInv, Assign, NEW g \in Gen, Referenced(g)
  PROVE  rcfg'[g] = rcfg[g]
<1>1. CASE NewDatabase
  <2>1. PICK x \in Gen : /\ ~Referenced(x)
                         /\ rcfg' = [r \in Gen |-> IF r = x THEN change.next
                                                   ELSE IF Referenced(r) THEN rcfg[r]
                                                   ELSE None]
    BY <1>1 DEF Assign
  <2> QED  BY <2>1
<1>2. CASE ~NewDatabase
  BY <1>2 DEF Assign
<1> QED  BY <1>1, <1>2

LEMMA AssignChain ==
  ASSUME DaemonIInv, ChainIInv, Assign
  PROVE  ChainIInv'
<1>1. UNCHANGED chain
  BY DEF Assign
<1>2. ASSUME NEW k \in Chain
      PROVE  ChainOK(k)'
  <2>1. ChainOK(k) /\ chain[k].gen \in Gen \cup {None}
    BY DEF ChainIInv
  <2>2. chain[k].gen # None => rcfg'[chain[k].gen] = rcfg[chain[k].gen]
    BY <2>1, AssignKeeps DEF Referenced
  <2>3. chain[k].at # "idle" => chain[k].gen # None
    BY <2>1, CatalogAssumption DEF ChainOK
  <2> QED  BY <1>1, <2>1, <2>2, <2>3 DEF ChainIInv, ChainOK
<1> QED  BY <1>1, <1>2 DEF ChainIInv

\* UpdateConfig keeps the retries of servers that stay.
LEMMA KeptChain ==
  ASSUME ChainIInv, NEW k \in Chain, NEW next, NEW kept, kept = Kept(k, next)
  PROVE  /\ kept \in ChainType
         /\ kept.gen = chain[k].gen \/ kept = Idle
         /\ kept # Idle => kept.name = chain[k].name /\ kept.for = chain[k].for
         /\ kept.at = "wait" => chain[k].at = "wait" /\ kept.name \in Names(next.servers)
         /\ kept.at = "fired" => chain[k].at = "fired" /\ kept.late
         /\ kept.at = "attempt" => chain[k].at = "attempt" /\ kept.late = chain[k].late
<1> DEFINE c == chain[k]
           stays == c.name \in Names(next.servers)
<1>1. c \in ChainType
  BY DEF ChainIInv, ChainType
<1>2. stays \in BOOLEAN
  OBVIOUS
<1>3. CASE c.at = "wait" /\ ~stays
  <2>1. kept = Idle
    BY <1>3 DEF Kept
  <2> QED  BY <2>1, IdleChain DEF Idle
<1>4. CASE c.at = "wait" /\ stays
  <2>1. kept = [c EXCEPT !.late = FALSE]
    BY <1>4 DEF Kept
  <2> QED  BY <1>1, <1>4, <2>1 DEF ChainType
<1>5. CASE c.at = "fired"
  <2>1. kept = [c EXCEPT !.late = TRUE]
    BY <1>5 DEF Kept
  <2> QED  BY <1>1, <1>5, <2>1 DEF ChainType
<1>6. CASE c.at = "attempt"
  <2>1. kept = [c EXCEPT !.dropped = c.dropped \/ ~stays]
    BY <1>6 DEF Kept
  <2> HIDE DEF stays
  <2> QED  BY <1>1, <1>2, <1>6, <2>1 DEF ChainType
<1>7. CASE c.at = "idle"
  <2>1. kept = c
    BY <1>7 DEF Kept
  <2> QED  BY <1>1, <1>7, <2>1
<1>8. c.at \in {"idle", "attempt", "wait", "fired"}
  BY <1>1 DEF ChainType
<1> QED  BY <1>3, <1>4, <1>5, <1>6, <1>7, <1>8

LEMMA UpdateChain ==
  ASSUME DaemonIInv, ChainIInv, Update
  PROVE  ChainIInv'
<1>1. /\ chain' = [k \in Chain |-> IF chain[k].gen = current THEN Kept(k, cfg) ELSE chain[k]]
      /\ rcfg' = [rcfg EXCEPT ![current] = cfg]
  BY DEF Update
<1>2. rcfg'[current] = cfg /\ cfg # None /\ \A g \in Gen : g # current => rcfg'[g] = rcfg[g]
  BY <1>1, CatalogAssumption DEF DaemonIInv
<1>3. chain' \in [Chain -> ChainType]
  BY <1>1, KeptChain DEF ChainIInv, ChainType
<1>4. ASSUME NEW k \in Chain
      PROVE  ChainOK(k)'
  <2>1. ChainOK(k) /\ chain[k].gen \in Gen \cup {None} /\ current \in Gen
    BY DEF ChainIInv, DaemonIInv
  <2>2. CASE chain[k].gen = current
    <3> DEFINE kept == Kept(k, cfg)
    <3>1. chain'[k] = kept
      BY <1>1, <2>2
    <3>2. /\ kept.gen = chain[k].gen \/ kept = Idle
          /\ kept # Idle => kept.name = chain[k].name /\ kept.for = chain[k].for
          /\ kept.at = "wait" => chain[k].at = "wait" /\ kept.name \in Names(cfg.servers)
          /\ kept.at = "fired" => chain[k].at = "fired" /\ kept.late
          /\ kept.at = "attempt" => chain[k].at = "attempt" /\ kept.late = chain[k].late
          /\ kept \in ChainType
      BY KeptChain
    <3> HIDE DEF kept
    <3>3. CASE kept = Idle
      BY <3>1, <3>3, IdleChain DEF ChainOK
    <3>4. CASE kept # Idle
      <4>1. kept.gen = current /\ kept.name = chain[k].name /\ kept.for = chain[k].for
        BY <2>2, <3>2, <3>4
      <4>2. kept.at \in {"idle", "attempt", "wait", "fired"}
        BY <3>2 DEF ChainType
      <4>3. kept.at # "idle" => kept.name \in Id
        BY <2>1, <3>2, <4>1, <4>2 DEF ChainOK
      <4> QED  BY <1>2, <2>1, <3>1, <3>2, <4>1, <4>2, <4>3 DEF ChainOK
    <3> QED  BY <3>3, <3>4
  <2>3. CASE chain[k].gen # current
    <3>1. chain'[k] = chain[k]
      BY <1>1, <2>3
    <3>2. chain[k].gen # None => rcfg'[chain[k].gen] = rcfg[chain[k].gen]
      BY <1>2, <2>1, <2>3
    <3>3. chain[k].at # "idle" => chain[k].gen # None
      BY <2>1, CatalogAssumption DEF ChainOK
    <3> QED  BY <2>1, <3>1, <3>2, <3>3 DEF ChainOK
  <2> QED  BY <2>2, <2>3
<1> QED  BY <1>3, <1>4 DEF ChainIInv, ChainType

LEMMA RestartChain ==
  ASSUME Restart
  PROVE  ChainIInv'
<1>1. chain' = [k \in Chain |-> Idle]
  BY DEF Restart
<1>2. chain' \in [Chain -> ChainType] /\ \A k \in Chain : chain'[k] = Idle
  BY <1>1, IdleChain
<1>3. \A k \in Chain : ChainOK(k)'
  BY <1>2, IdleChain DEF ChainOK
<1> QED  BY <1>2, <1>3 DEF ChainIInv, ChainType

LEMMA StillChain ==
  ASSUME ChainIInv, UNCHANGED <<chain, rcfg>>
  PROVE  ChainIInv'
  BY DEF ChainIInv, ChainOK

-----------------------------------------------------------------------------
(* Requests. *)

RequestType ==
  [at : {"idle", "asked", "served", "done"}, kind : Kinds, id : Id \cup {None},
   cfg : Config \cup {None}, gen : Gen \cup {None}, served : Id \cup {None},
   filed : Id \cup {None}, count : Nat, services : Nat, health : Nat, overtaken : BOOLEAN]

\* What FiledUnderItsServer and StatusAddsUp say of one request.
AnsweredFromOneCatalog(h) ==
  /\ Undisturbed(h) /\ req[h].kind = "call"
       => req[h].filed = IF req[h].served = None THEN req[h].id ELSE req[h].served
  /\ Undisturbed(h) /\ req[h].kind = "status"
       => req[h].count = req[h].health + req[h].services

LEMMA RequestParts ==
  RequestIInv <=> /\ req \in [Handler -> RequestType]
                  /\ \A h \in Handler : RequestOK(h) /\ AnsweredFromOneCatalog(h)
  BY DEF RequestIInv, RequestType, AnsweredFromOneCatalog, FiledUnderItsServer, StatusAddsUp

LEMMA RequestPartsPrime ==
  RequestIInv' <=> /\ req' \in [Handler -> RequestType]
                   /\ \A h \in Handler : RequestOK(h)' /\ AnsweredFromOneCatalog(h)'
  BY DEF RequestIInv, RequestType, AnsweredFromOneCatalog, FiledUnderItsServer, StatusAddsUp

LEMMA NoRequestFits ==
  /\ NoRequest \in RequestType /\ NoRequest.at = "idle" /\ NoRequest.gen = None
  /\ NoRequest.cfg = None
  BY DEF NoRequest, RequestType, Kinds

LEMMA AtRest ==
  ASSUME NEW h \in Handler, req'[h] = NoRequest
  PROVE  RequestOK(h)' /\ AnsweredFromOneCatalog(h)'
  BY NoRequestFits DEF RequestOK, AnsweredFromOneCatalog, Undisturbed

LEMMA InitRequest ==
  ASSUME Init
  PROVE  RequestIInv
<1>1. req \in [Handler -> RequestType] /\ \A h \in Handler : req[h] = NoRequest
  BY NoRequestFits DEF Init
<1>2. ASSUME NEW h \in Handler
      PROVE  RequestOK(h) /\ AnsweredFromOneCatalog(h)
  BY <1>1, NoRequestFits DEF RequestOK, AnsweredFromOneCatalog, Undisturbed
<1> QED  BY <1>1, <1>2, RequestParts

\* A step that changes one request and leaves the registries alone.
LEMMA RequestStep ==
  ASSUME RequestIInv, UNCHANGED rcfg, NEW h \in Handler, NEW new \in RequestType,
         req' = [req EXCEPT ![h] = new], RequestOK(h)', AnsweredFromOneCatalog(h)'
  PROVE  RequestIInv'
<1>1. req \in [Handler -> RequestType]
  BY RequestParts
<1>2. req' \in [Handler -> RequestType] /\ \A x \in Handler \ {h} : req'[x] = req[x]
  BY <1>1
<1>3. ASSUME NEW x \in Handler \ {h}
      PROVE  RequestOK(x)' /\ AnsweredFromOneCatalog(x)'
  <2>1. RequestOK(x) /\ AnsweredFromOneCatalog(x)
    BY RequestParts
  <2> QED  BY <1>2, <2>1 DEF RequestOK, AnsweredFromOneCatalog, Undisturbed
<1> QED  BY <1>2, <1>3, RequestPartsPrime

LEMMA ArriveRequest ==
  ASSUME DaemonIInv, RequestIInv, NEW h \in Handler, NEW kind \in Kinds, NEW id \in Id,
         Arrive(h, kind, id)
  PROVE  RequestIInv'
<1> DEFINE new == [NoRequest EXCEPT !.at = "asked", !.kind = kind, !.id = id, !.cfg = cfg,
                                    !.gen = current]
<1>1. /\ cfg \in Config /\ current \in Gen /\ OneEach(cfg) /\ cfg # None
      /\ rcfg[current] = cfg /\ UNCHANGED rcfg
  BY CatalogAssumption DEF DaemonIInv, Unambiguous, Staged, Arrive
<1>2. /\ new \in RequestType /\ new.at = "asked" /\ new.kind = kind /\ new.id = id
      /\ new.cfg = cfg /\ new.gen = current /\ new.overtaken = FALSE
  BY <1>1 DEF NoRequest, RequestType, Kinds
<1>3. req' = [req EXCEPT ![h] = new]
  BY DEF Arrive
<1> HIDE DEF new
<1>4. req'[h] = new
  BY <1>3, RequestParts
<1>5. RequestOK(h)' /\ AnsweredFromOneCatalog(h)'
  BY <1>1, <1>2, <1>4 DEF RequestOK, AnsweredFromOneCatalog, Undisturbed
<1> QED  BY <1>1, <1>2, <1>3, <1>5, RequestStep

\* The registry that a request has in hand.
LEMMA RequestCatalog ==
  ASSUME DaemonIInv, RequestIInv, NEW h \in Handler, req[h].at \in {"asked", "served"}
  PROVE  /\ req[h] \in RequestType /\ req[h].gen \in Gen /\ req[h].id \in Id
         /\ req[h].cfg \in Config /\ OneEach(req[h].cfg)
         /\ rcfg[req[h].gen] # None /\ rcfg[req[h].gen] \in Config /\ OneEach(rcfg[req[h].gen])
<1>1. req[h] \in RequestType /\ RequestOK(h)
  BY RequestParts
<1>2. req[h].gen \in Gen /\ req[h].cfg # None /\ req[h].id \in Id
  BY <1>1 DEF RequestOK
<1>3. req[h].cfg \in Config /\ OneEach(req[h].cfg)
  BY <1>1, <1>2 DEF RequestOK, RequestType
<1>4. rcfg[req[h].gen] # None
  BY <1>1, <1>2, CatalogAssumption DEF RequestOK
<1>5. rcfg[req[h].gen] \in Config /\ OneEach(rcfg[req[h].gen])
  BY <1>2, <1>4 DEF DaemonIInv, Unambiguous
<1> QED  BY <1>1, <1>2, <1>3, <1>4, <1>5

LEMMA ResolveRequest ==
  ASSUME DaemonIInv, RequestIInv, NEW h \in Handler, Resolve(h)
  PROVE  RequestIInv'
<1> DEFINE r == req[h]
           n == ServedBy(rcfg[r.gen], r.id)
           new == [r EXCEPT !.at = "served", !.served = n]
<1>1. r.at = "asked" /\ r.kind = "call" /\ UNCHANGED rcfg
  BY DEF Resolve
<1>2. /\ r \in RequestType /\ r.gen \in Gen /\ r.id \in Id /\ r.cfg \in Config /\ OneEach(r.cfg)
      /\ rcfg[r.gen] # None /\ rcfg[r.gen] \in Config /\ OneEach(rcfg[r.gen])
  BY <1>1, RequestCatalog
<1>3. n \in Id \cup {None}
  BY <1>2, ServedByType
<1>4. ~r.overtaken => n = ServedBy(r.cfg, r.id)
  BY <1>1, RequestParts DEF RequestOK
<1>5. req' = [req EXCEPT ![h] = new]
  BY RequestParts DEF Resolve
<1>6. r.cfg # None
  BY <1>2, CatalogAssumption
<1> HIDE DEF r, n
<1>7. /\ new \in RequestType /\ new.at = "served" /\ new.kind = r.kind /\ new.id = r.id
      /\ new.cfg = r.cfg /\ new.gen = r.gen /\ new.overtaken = r.overtaken /\ new.served = n
  BY <1>2, <1>3 DEF RequestType
<1> HIDE DEF new
<1>8. req'[h] = new
  BY <1>5, RequestParts
<1>9. RequestOK(h)' /\ AnsweredFromOneCatalog(h)'
  BY <1>1, <1>2, <1>4, <1>6, <1>7, <1>8 DEF RequestOK, AnsweredFromOneCatalog, Undisturbed
<1> QED  BY <1>1, <1>5, <1>7, <1>9, RequestStep

\* The history's name of a call and the registry's are computed by different functions.
LEMMA SameCanonicalName ==
  ASSUME NEW c, NEW id
  PROVE  CanonicalServerName(c, id) = IF ServedBy(c, id) = None THEN id ELSE ServedBy(c, id)
  BY DEF CanonicalServerName, ServedBy

LEMMA FileCallRequest ==
  ASSUME DaemonIInv, RequestIInv, NEW h \in Handler, FileCall(h)
  PROVE  RequestIInv'
<1> DEFINE r == req[h]
           n == CanonicalServerName(r.cfg, r.id)
           new == [r EXCEPT !.at = "done", !.gen = None, !.cfg = None, !.filed = n]
<1>1. r.at = "served" /\ UNCHANGED rcfg
  BY DEF FileCall
<1>2. r \in RequestType /\ r.id \in Id /\ r.cfg \in Config /\ OneEach(r.cfg)
  BY <1>1, RequestCatalog
<1>3. r.kind = "call" /\ (~r.overtaken => r.served = ServedBy(r.cfg, r.id))
  BY <1>1, RequestParts DEF RequestOK
<1>4. n = IF ServedBy(r.cfg, r.id) = None THEN r.id ELSE ServedBy(r.cfg, r.id)
  BY SameCanonicalName
<1>5. n \in Id
  BY <1>2, <1>4, ServedByType
<1>6. req' = [req EXCEPT ![h] = new]
  BY RequestParts DEF FileCall
<1> HIDE DEF r, n
<1>7. /\ new \in RequestType /\ new.at = "done" /\ new.kind = r.kind /\ new.id = r.id
      /\ new.cfg = None /\ new.gen = None /\ new.overtaken = r.overtaken
      /\ new.served = r.served /\ new.filed = n
  BY <1>2, <1>5 DEF RequestType
<1> HIDE DEF new
<1>8. req'[h] = new
  BY <1>6, RequestParts
<1>9. RequestOK(h)' /\ AnsweredFromOneCatalog(h)'
  BY <1>2, <1>3, <1>4, <1>7, <1>8 DEF RequestOK, AnsweredFromOneCatalog, Undisturbed
<1> QED  BY <1>1, <1>6, <1>7, <1>9, RequestStep

LEMMA StatusRequest ==
  ASSUME DaemonIInv, RequestIInv, NEW h \in Handler, Status(h)
  PROVE  RequestIInv'
<1> DEFINE r == req[h]
           p == Len(r.cfg.servers)
           q == Len(r.cfg.services)
           m == Len(rcfg[r.gen].servers)
           new == [r EXCEPT !.at = "done", !.gen = None, !.cfg = None,
                            !.count = p + q, !.services = q, !.health = m]
<1>1. r.at = "asked" /\ r.kind = "status" /\ UNCHANGED rcfg
  BY DEF Status
<1>2. /\ r \in RequestType /\ r.id \in Id /\ r.cfg \in Config /\ OneEach(r.cfg)
      /\ rcfg[r.gen] \in Config
  BY <1>1, RequestCatalog
<1>3. p \in Nat /\ q \in Nat /\ m \in Nat
  BY <1>2, ConfigFields
<1>4. ~r.overtaken => m = p
  BY <1>1, RequestParts DEF RequestOK
<1>5. req' = [req EXCEPT ![h] = new]
  BY RequestParts DEF Status, Health
<1> HIDE DEF r, p, q, m
<1>6. p + q \in Nat
  BY <1>3
<1>7. /\ new \in RequestType /\ new.at = "done" /\ new.kind = r.kind /\ new.id = r.id
      /\ new.cfg = None /\ new.gen = None /\ new.overtaken = r.overtaken
      /\ new.count = p + q /\ new.services = q /\ new.health = m
  BY <1>2, <1>3, <1>6 DEF RequestType
<1> HIDE DEF new
<1>8. req'[h] = new
  BY <1>5, RequestParts
<1>9. RequestOK(h)' /\ AnsweredFromOneCatalog(h)'
  BY <1>1, <1>2, <1>4, <1>7, <1>8 DEF RequestOK, AnsweredFromOneCatalog, Undisturbed
<1> QED  BY <1>1, <1>5, <1>7, <1>9, RequestStep

\* A request that is over.
LEMMA OverRequest ==
  ASSUME RequestIInv, UNCHANGED rcfg, NEW h \in Handler, req' = [req EXCEPT ![h] = NoRequest]
  PROVE  RequestIInv'
<1>1. req'[h] = NoRequest
  BY RequestParts
<1> QED  BY <1>1, AtRest, NoRequestFits, RequestStep

\* The registry that a request asks starts an attempt on the server that answers.
LEMMA RefreshServerChain ==
  ASSUME DaemonIInv, ChainIInv, RequestIInv, NEW h \in Handler, NEW k \in Chain,
         RefreshServer(h, k)
  PROVE  ChainIInv'
<1> DEFINE g == req[h].gen
           n == ServerFor(rcfg[g], req[h].id)
<1>1. req[h].at = "asked" /\ UNCHANGED rcfg
  BY DEF RefreshServer
<1>2. g \in Gen /\ rcfg[g] # None /\ rcfg[g] \in Config /\ OneEach(rcfg[g])
  BY <1>1, RequestCatalog
<1>3. n \in Id \cup {None}
  BY <1>2, ServerForType, NamesType
<1>4. CASE n = None
  BY <1>1, <1>4, StillChain DEF RefreshServer
<1>5. CASE n # None
  <2>1. Begins(k, g, n)
    BY <1>5 DEF RefreshServer
  <2> HIDE DEF g, n
  <2> QED  BY <1>1, <1>2, <1>3, <1>5, <2>1, BeginsChain
<1> QED  BY <1>4, <1>5

LEMMA AssignRequest ==
  ASSUME DaemonIInv, RequestIInv, Assign
  PROVE  RequestIInv'
<1>1. UNCHANGED req
  BY DEF Assign
<1>2. ASSUME NEW h \in Handler
      PROVE  RequestOK(h)' /\ AnsweredFromOneCatalog(h)'
  <2>1. RequestOK(h) /\ AnsweredFromOneCatalog(h) /\ req[h].gen \in Gen \cup {None}
    BY RequestParts DEF RequestType
  <2>2. req[h].gen # None => rcfg'[req[h].gen] = rcfg[req[h].gen]
    BY <2>1, AssignKeeps DEF Referenced
  <2>3. req[h].at \in {"asked", "served"} => req[h].gen # None
    BY <2>1, CatalogAssumption DEF RequestOK
  <2> QED  BY <1>1, <2>1, <2>2, <2>3 DEF RequestOK, AnsweredFromOneCatalog, Undisturbed
<1> QED  BY <1>1, <1>2, RequestParts, RequestPartsPrime

LEMMA UpdateRequest ==
  ASSUME DaemonIInv, RequestIInv, Update
  PROVE  RequestIInv'
<1>1. /\ req' = [h \in Handler |-> IF req[h].at = "asked" /\ req[h].gen = current
                                     THEN [req[h] EXCEPT !.overtaken = TRUE] ELSE req[h]]
      /\ rcfg' = [rcfg EXCEPT ![current] = cfg]
  BY DEF Update
<1>2. /\ current \in Gen /\ rcfg'[current] = cfg /\ cfg # None
      /\ \A g \in Gen : g # current => rcfg'[g] = rcfg[g]
  BY <1>1, CatalogAssumption DEF DaemonIInv
<1>3. req \in [Handler -> RequestType]
  BY RequestParts
<1>4. req' \in [Handler -> RequestType]
  <2>1. \A h \in Handler : [req[h] EXCEPT !.overtaken = TRUE] \in RequestType
    BY <1>3 DEF RequestType
  <2> QED  BY <1>1, <1>3, <2>1
<1>5. ASSUME NEW h \in Handler
      PROVE  RequestOK(h)' /\ AnsweredFromOneCatalog(h)'
  <2>1. RequestOK(h) /\ AnsweredFromOneCatalog(h) /\ req[h] \in RequestType
    BY RequestParts
  <2>2. req[h].gen \in Gen \cup {None}
    BY <2>1 DEF RequestType
  <2>3. CASE req[h].at = "asked" /\ req[h].gen = current
    <3> DEFINE new == [req[h] EXCEPT !.overtaken = TRUE]
    <3>1. req'[h] = new
      BY <1>1, <2>3
    <3>2. /\ new.at = "asked" /\ new.gen = current /\ new.overtaken = TRUE
          /\ new.cfg = req[h].cfg /\ new.id = req[h].id
      BY <2>1, <2>3 DEF RequestType
    <3> HIDE DEF new
    <3> QED  BY <1>2, <2>1, <2>3, <3>1, <3>2 DEF RequestOK, AnsweredFromOneCatalog, Undisturbed
  <2>4. CASE ~(req[h].at = "asked" /\ req[h].gen = current)
    <3>1. req'[h] = req[h]
      BY <1>1, <2>4
    <3>2. req[h].at = "asked" => req[h].gen \in Gen /\ req[h].gen # current
      BY <2>1, <2>4 DEF RequestOK
    <3>3. req[h].gen # None => rcfg'[req[h].gen] # None
      BY <1>2, <2>1, <2>2 DEF RequestOK
    <3> QED  BY <1>2, <2>1, <3>1, <3>2, <3>3 DEF RequestOK, AnsweredFromOneCatalog, Undisturbed
  <2> QED  BY <2>3, <2>4
<1> QED  BY <1>4, <1>5, RequestPartsPrime

LEMMA RestartRequest ==
  ASSUME Restart
  PROVE  RequestIInv'
<1>1. req' = [h \in Handler |-> NoRequest]
  BY DEF Restart
<1>2. req' \in [Handler -> RequestType] /\ \A h \in Handler : req'[h] = NoRequest
  BY <1>1, NoRequestFits
<1> QED  BY <1>2, AtRest, RequestPartsPrime

LEMMA StillRequest ==
  ASSUME RequestIInv, UNCHANGED <<req, rcfg>>
  PROVE  RequestIInv'
<1>1. ASSUME NEW h \in Handler
      PROVE  RequestOK(h)' /\ AnsweredFromOneCatalog(h)'
  BY RequestParts DEF RequestOK, AnsweredFromOneCatalog, Undisturbed
<1> QED  BY <1>1, RequestParts, RequestPartsPrime

-----------------------------------------------------------------------------
(* The theorems. *)

\* A daemon that has just started is in order.
THEOREM InvariantInit == Init => IInv
  BY InitDaemon, InitChain, InitRequest DEF IInv

\* Every step of a registry change, a request, a retry or an editor keeps it so.
THEOREM InvariantStep == IInv /\ [Next]_vars => IInv'
<1> SUFFICES ASSUME DaemonIInv, ChainIInv, RequestIInv, [Next]_vars
             PROVE  DaemonIInv' /\ ChainIInv' /\ RequestIInv'
  BY DEF IInv
<1>1. CASE \E item \in Items : AddServer(item)
  <2>1. PICK item \in Items : AddServer(item)
    BY <1>1
  <2>2. UNCHANGED <<chain, req, rcfg>>
    BY <2>1 DEF AddServer, Save, Take
  <2> QED  BY <2>1, <2>2, AddServerDaemon, StillChain, StillRequest
<1>2. CASE \E n \in Id : RemoveServer(n) \/ SetAuth(n)
  <2>1. PICK n \in Id : RemoveServer(n) \/ SetAuth(n)
    BY <1>2
  <2>2. UNCHANGED <<chain, req, rcfg>>
    BY <2>1 DEF RemoveServer, SetAuth, Save, Take
  <2> QED  BY <2>1, <2>2, RemoveServerDaemon, SetAuthDaemon, StillChain, StillRequest
<1>3. CASE Reload
  <2>1. UNCHANGED <<chain, req, rcfg>>
    BY <1>3 DEF Reload, Take
  <2> QED  BY <1>3, <2>1, ReloadDaemon, StillChain, StillRequest
<1>4. CASE ChangeFails
  <2>1. UNCHANGED <<chain, req, rcfg>>
    BY <1>4 DEF ChangeFails
  <2> QED  BY <1>4, <2>1, ChangeFailsDaemon, StillChain, StillRequest
<1>5. CASE Assign
  BY <1>5, AssignDaemon, AssignChain, AssignRequest
<1>6. CASE Update
  BY <1>6, UpdateDaemon, UpdateChain, UpdateRequest
<1>7. CASE \E d \in Documents : EditFile(d)
  <2>1. PICK d \in Documents : EditFile(d)
    BY <1>7
  <2>2. UNCHANGED <<chain, req, rcfg>>
    BY <2>1 DEF EditFile
  <2> QED  BY <2>1, <2>2, EditFileDaemon, StillChain, StillRequest
<1>8. CASE Restart
  BY <1>8, RestartDaemon, RestartChain, RestartRequest
<1>9. ASSUME NEW h \in Handler, Request(h)
      PROVE  DaemonIInv' /\ ChainIInv' /\ RequestIInv'
  <2>1. CASE \E kind \in Kinds, id \in Id : Arrive(h, kind, id)
    <3>1. PICK kind \in Kinds, id \in Id : Arrive(h, kind, id)
      BY <2>1
    <3>2. UNCHANGED <<chain, rcfg>> /\ UNCHANGED <<file, edited, daemon, rcfg, changing>>
      BY <3>1 DEF Arrive
    <3> QED  BY <3>1, <3>2, StillDaemon, StillChain, ArriveRequest
  <2>2. CASE Resolve(h)
    <3>1. UNCHANGED <<chain, rcfg>> /\ UNCHANGED <<file, edited, daemon, rcfg, changing>>
      BY <2>2 DEF Resolve
    <3> QED  BY <2>2, <3>1, StillDaemon, StillChain, ResolveRequest
  <2>3. CASE Status(h)
    <3>1. UNCHANGED <<chain, rcfg>> /\ UNCHANGED <<file, edited, daemon, rcfg, changing>>
      BY <2>3 DEF Status
    <3> QED  BY <2>3, <3>1, StillDaemon, StillChain, StatusRequest
  <2>4. CASE FileCall(h)
    <3>1. UNCHANGED <<chain, rcfg>> /\ UNCHANGED <<file, edited, daemon, rcfg, changing>>
      BY <2>4 DEF FileCall
    <3> QED  BY <2>4, <3>1, StillDaemon, StillChain, FileCallRequest
  <2>5. CASE Respond(h)
    <3>1. /\ UNCHANGED <<chain, rcfg>> /\ UNCHANGED <<file, edited, daemon, rcfg, changing>>
          /\ req' = [req EXCEPT ![h] = NoRequest]
      BY <2>5 DEF Respond
    <3> QED  BY <3>1, StillDaemon, StillChain, OverRequest
  <2>6. CASE \E k \in Chain : RefreshServer(h, k)
    <3>1. PICK k \in Chain : RefreshServer(h, k)
      BY <2>6
    <3>2. /\ UNCHANGED <<file, edited, daemon, rcfg, changing>> /\ UNCHANGED rcfg
          /\ req' = [req EXCEPT ![h] = NoRequest]
      BY <3>1 DEF RefreshServer
    <3> QED  BY <3>1, <3>2, StillDaemon, RefreshServerChain, OverRequest
  <2> QED  BY <1>9, <2>1, <2>2, <2>3, <2>4, <2>5, <2>6 DEF Request
<1>10. ASSUME NEW k \in Chain, (\E n \in Id : Refresh(k, n)) \/ AttemptEnds(k) \/ Retry(k)
       PROVE  DaemonIInv' /\ ChainIInv' /\ RequestIInv'
  <2>1. UNCHANGED <<req, rcfg>> /\ UNCHANGED <<file, edited, daemon, rcfg, changing>>
    BY <1>10 DEF Refresh, AttemptEnds, Retry, AttemptSucceeds, AttemptNeedsLogin, AttemptFails,
                 RetryFires, RetryResolves
  <2>2. DaemonIInv' /\ RequestIInv'
    BY <2>1, StillDaemon, StillRequest
  <2>3. CASE \E n \in Id : Refresh(k, n)
    BY <2>2, <2>3, RefreshChain
  <2>4. CASE AttemptEnds(k)
    BY <2>2, <2>4, SucceedsChain, NeedsLoginChain, FailsChain DEF AttemptEnds
  <2>5. CASE Retry(k)
    BY <2>2, <2>5, FiresChain, ResolvesChain DEF Retry
  <2> QED  BY <1>10, <2>3, <2>4, <2>5
<1>11. CASE UNCHANGED vars
  <2>1. UNCHANGED <<req, chain, rcfg>> /\ UNCHANGED <<file, edited, daemon, rcfg, changing>>
    BY <1>11 DEF vars
  <2> QED  BY <2>1, StillDaemon, StillChain, StillRequest
<1> QED  BY <1>1, <1>2, <1>3, <1>4, <1>5, <1>6, <1>7, <1>8, <1>9, <1>10, <1>11
         DEF Next, RegistryChange

\* The daemon, the chains and the requests stay in order.
THEOREM Invariance == Spec => []IInv
  BY InvariantInit, InvariantStep, PTL DEF Spec

\* A call is filed in the history under the server that served it.
THEOREM CallsAreFiled == Spec => []FiledUnderItsServer
<1>1. IInv => FiledUnderItsServer
  BY DEF IInv, RequestIInv
<1> QED  BY <1>1, Invariance, PTL

\* The counts of `mcpshim status' add up.
THEOREM CountsAddUp == Spec => []StatusAddsUp
<1>1. IInv => StatusAddsUp
  BY DEF IInv, RequestIInv
<1> QED  BY <1>1, Invariance, PTL

\* A retry that is not late attempts the server that it was scheduled for.
THEOREM RetriesFindTheirServer == Spec => []RetryAttemptsItsOwn
<1>1. IInv => RetryAttemptsItsOwn
  BY DEF IInv, ChainIInv, ChainOK, RetryAttemptsItsOwn
<1> QED  BY <1>1, Invariance, PTL

\* A change deletes the credentials of the servers it re-points or removes, and of no others.
THEOREM ChangesForgetExactly == Spec => []ForgetsExactly
<1>1. IInv => ForgetsExactly
  BY DEF IInv, DaemonIInv
<1> QED  BY <1>1, Invariance, PTL

\* What the daemon runs is in the file, unless that was edited or a change failed.
THEOREM ChangesAreDurable == Spec => []Durable
<1>1. IInv => Durable
  BY DEF IInv, DaemonIInv, Staged, Durable
<1> QED  BY <1>1, Invariance, PTL

\* No identifier names two servers or services in a configuration that is in use.
THEOREM NamesAreUnambiguous == Spec => []Unambiguous
<1>1. IInv => Unambiguous
  BY DEF IInv, DaemonIInv
<1> QED  BY <1>1, Invariance, PTL

=============================================================================
