---------------------------- MODULE HistoryProofs ----------------------------
(***************************************************************************)
(* Proofs about History, for any number of connections, databases, servers *)
(* and tools, any sizes and limits, and any bound on the calls.            *)
(***************************************************************************)
EXTENDS History, FiniteSetTheorems, FunctionTheorems, WellFoundedInduction, TLAPS

USE HistoryAssumption

(* Numbers: the least of a set, the greatest and the least of a finite one. *)

\* A set of naturals has a least one.
LEMMA LeastNatural ==
  ASSUME NEW T \in SUBSET Nat, T # {}
  PROVE  \E m \in T : \A k \in T : m <= k
  <1>1. PICK x \in T : \A y \in T : ~ (<<y, x>> \in OpToRel(<, Nat))
    BY WFMin, NatLessThanWellFounded
  <1>2. \A y \in T : ~ (y < x)
    BY <1>1 DEF OpToRel
  <1> QED
    BY <1>2

\* The greatest of a bounded set of naturals.
LEMMA MaxIs ==
  ASSUME NEW S \in SUBSET Nat, S # {}, NEW b \in Nat, \A x \in S : x <= b
  PROVE  Max(S) \in S /\ \A x \in S : x <= Max(S)
  <1> DEFINE U == {u \in Nat : \A x \in S : x <= u}
  <1>1. PICK u \in U : \A k \in U : u <= k
    <2>1. b \in U
      OBVIOUS
    <2> QED
      BY <2>1, LeastNatural
  <1>2. u \in S
    <2>1. SUFFICES ASSUME u \notin S PROVE FALSE
      OBVIOUS
    <2>2. \A x \in S : x < u
      BY <2>1, <1>1
    <2>3. PICK y \in S : y < u
      BY <2>2
    <2>4. u - 1 \in U
      BY <2>2, <2>3, <1>1
    <2> QED
      BY <2>4, <1>1
  <1>3. \A x \in S : u >= x
    BY <1>1
  <1>4. \A x \in S : Max(S) >= x
    BY <1>2, <1>3 DEF Max
  <1>5. Max(S) \in S
    BY <1>2, <1>3 DEF Max
  <1> QED
    BY <1>4, <1>5

(* Rows with numbers of their own: how many there are that are newer. *)

Distinct(R) == \A r, x \in R : r.id = x.id => r = x

\* A database has finitely many rows, as their ids differ.
LEMMA Finite ==
  ASSUME NEW R \in SUBSET Row, Distinct(R)
  PROVE  IsFiniteSet(R) /\ Cardinality(R) \in Nat
  <1> DEFINE f == [r \in R |-> r.id]
  <1>1. f \in Injection(R, 1..MaxCalls)
    BY Fun_IsInj DEF Distinct, Row
  <1>2. IsFiniteSet(1..MaxCalls)
    BY FS_Interval
  <1>3. IsFiniteSet(R)
    BY <1>1, <1>2, FS_Injection
  <1> QED
    BY <1>3, FS_CardinalityType

\* So has each part of one.
LEMMA Within ==
  ASSUME NEW R \in SUBSET Row, Distinct(R), NEW S \in SUBSET R
  PROVE  Distinct(S) /\ IsFiniteSet(S) /\ Cardinality(S) \in Nat /\ Cardinality(S) <= Cardinality(R)
  BY Finite, FS_Subset DEF Distinct

\* Fewer rows are newer than a newer one.
LEMMA NewerLess ==
  ASSUME NEW R \in SUBSET Row, Distinct(R), NEW r \in R, NEW x \in R, r.id < x.id
  PROVE  Cardinality(Newer(R, x)) < Cardinality(Newer(R, r))
  <1>1. Newer(R, x) \subseteq Newer(R, r)
    BY DEF Newer, Row
  <1>2. x \in Newer(R, r) /\ x \notin Newer(R, x)
    BY DEF Newer, Row
  <1>3. /\ IsFiniteSet(Newer(R, r)) /\ Cardinality(Newer(R, r)) \in Nat
        /\ Cardinality(Newer(R, x)) \in Nat
    BY Within DEF Newer
  <1> QED
    BY <1>1, <1>2, <1>3, FS_Subset

\* Not all rows are newer than one of them.
LEMMA RankType ==
  ASSUME NEW R \in SUBSET Row, Distinct(R), NEW r \in R
  PROVE  Cardinality(Newer(R, r)) \in Nat /\ Cardinality(Newer(R, r)) < Cardinality(R)
  <1>1. Newer(R, r) \subseteq R /\ r \notin Newer(R, r)
    BY DEF Newer, Row
  <1>2. Cardinality(Newer(R, r)) \in Nat /\ Cardinality(R) \in Nat /\ IsFiniteSet(R)
    BY <1>1, Within
  <1> QED
    BY <1>1, <1>2, FS_Subset

\* The order of the ids is that of the ranks.
LEMMA RankOrder ==
  ASSUME NEW R \in SUBSET Row, Distinct(R), NEW r \in R, NEW x \in R
  PROVE  /\ r.id < x.id <=> Cardinality(Newer(R, x)) < Cardinality(Newer(R, r))
         /\ Cardinality(Newer(R, x)) = Cardinality(Newer(R, r)) => r = x
  <1>1. r.id \in Nat /\ x.id \in Nat
    BY DEF Row
  <1>2. Cardinality(Newer(R, r)) \in Nat /\ Cardinality(Newer(R, x)) \in Nat
    BY RankType
  <1>3. CASE r.id < x.id
    BY <1>1, <1>2, <1>3, NewerLess
  <1>4. CASE x.id < r.id
    BY <1>1, <1>2, <1>4, NewerLess
  <1>5. CASE x.id = r.id
    BY <1>1, <1>2, <1>5 DEF Distinct
  <1> QED
    BY <1>1, <1>3, <1>4, <1>5

\* Every rank is that of a row.
LEMMA RankOnto ==
  ASSUME NEW R \in SUBSET Row, Distinct(R), NEW k \in Nat, k < Cardinality(R)
  PROVE  \E r \in R : Cardinality(Newer(R, r)) = k
  <1> DEFINE n == Cardinality(R)
             f == [r \in R |-> Cardinality(Newer(R, r))]
  <1>1. n \in Nat /\ IsFiniteSet(R)
    BY Finite
  <1> HIDE DEF n
  <1>2. IsFiniteSet(0..n - 1) /\ Cardinality(0..n - 1) = n
    BY <1>1, FS_Interval
  <1>3. f \in [R -> 0..n - 1]
    BY <1>1, RankType DEF n
  <1>4. f \in Injection(R, 0..n - 1)
    BY <1>3, RankOrder, Fun_IsInj
  <1>5. f \in Surjection(R, 0..n - 1)
    BY <1>2, <1>4, FS_Injection DEF n
  <1>6. k \in 0..n - 1
    BY <1>1 DEF n
  <1>7. \A t \in 0..n - 1 : \E r \in R : f[r] = t
    BY <1>5 DEF Surjection
  <1> QED
    BY <1>6, <1>7

\* ORDER BY id DESC LIMIT n keeps n rows, or all of them if there are no more.
LEMMA NewestCount ==
  ASSUME NEW R \in SUBSET Row, Distinct(R), NEW n \in Nat
  PROVE  Cardinality(Newest(R, n)) = IF Cardinality(R) < n THEN Cardinality(R) ELSE n
  <1> DEFINE c == Cardinality(R)
             m == IF c < n THEN c ELSE n
             S == Newest(R, n)
             f == [r \in S |-> Cardinality(Newer(R, r))]
  <1>1. c \in Nat /\ m \in Nat /\ m <= c /\ m <= n /\ (m = c \/ m = n)
    BY Finite
  <1> HIDE DEF m
  <1>2. S \subseteq R
    BY DEF Newest
  <1>3. \A r \in S : Cardinality(Newer(R, r)) \in 0..m - 1
    BY <1>1, <1>2, RankType DEF Newest
  <1>4. f \in Injection(S, 0..m - 1)
    <2>1. f \in [S -> 0..m - 1]
      BY <1>3
    <2>2. \A a, b \in S : f[a] = f[b] => a = b
      BY <1>2, RankOrder
    <2> QED
      BY <2>1, <2>2, Fun_IsInj
  <1>5. f \in Surjection(S, 0..m - 1)
    <2>1. f \in [S -> 0..m - 1]
      BY <1>3
    <2>2. ASSUME NEW k \in 0..m - 1 PROVE \E r \in S : f[r] = k
      <3>1. PICK r \in R : Cardinality(Newer(R, r)) = k
        BY <1>1, RankOnto
      <3>2. r \in S
        BY <1>1, <3>1 DEF Newest
      <3> QED
        BY <3>1, <3>2
    <2> QED
      BY <2>1, <2>2, Fun_IsSurj
  <1>6. IsFiniteSet(S)
    BY <1>2, Within
  <1>7. Cardinality(S) = Cardinality(0..m - 1)
    BY <1>4, <1>5, <1>6, FS_Surjection
  <1>8. Cardinality(0..m - 1) = m
    BY <1>1, FS_Interval
  <1> QED
    BY <1>7, <1>8 DEF m

\* What is kept is newer than what is not.
LEMMA NewestAreNewer ==
  ASSUME NEW R \in SUBSET Row, Distinct(R), NEW n \in Nat,
         NEW r \in Newest(R, n), NEW x \in R \ Newest(R, n)
  PROVE  x.id < r.id
  <1>1. r \in R /\ Cardinality(Newer(R, r)) < n /\ ~ (Cardinality(Newer(R, x)) < n)
    BY DEF Newest
  <1>2. Cardinality(Newer(R, r)) \in Nat /\ Cardinality(Newer(R, x)) \in Nat
    BY <1>1, RankType
  <1> QED
    BY <1>1, <1>2, RankOrder

-----------------------------------------------------------------------------
(* The invariant. *)

\* An empty history.
LEMMA Initially == Init => IInv
  BY DEF Init, IInv, TypeOK, NewestSurvive, Numbered, OpenIsPresent, NoCall

\* canonicalServerName: an alias stands for a server.
LEMMA CanonicalType ==
  ASSUME TypeOK, NEW i \in Ident
  PROVE  Canonical(i) \in Ident
  BY DEF TypeOK, Canonical, Ident

\* A call begins.
LEMMA CallKeeps ==
  ASSUME IInv, NEW h \in Handler, NEW i \in Ident, NEW t \in Tool, Call(h, i, t)
  PROVE  IInv'
  <1> USE DEF IInv
  <1>1. Canonical(i) \in Ident
    BY CanonicalType
  <1>2. TypeOK'
    BY <1>1 DEF TypeOK, Call
  <1>3. NewestSurvive' /\ Numbered'
    BY DEF NewestSurvive, Numbered, Call
  <1>4. OpenIsPresent'
    BY DEF OpenIsPresent, Call, NoCall, TypeOK
  <1> QED
    BY <1>2, <1>3, <1>4

\* What Record and ClearHistory do to a database: the rows K of R stay, the others are
\* older, and of these the rows G were not asked to go.
LEMMA LosesIs ==
  ASSUME TypeOK, NEW d \in Db, NEW R \in SUBSET Row, NEW A,
         rows' \in [Db -> SUBSET Row], Loses(d, R, A)
  PROVE  /\ lost' \in [Db -> 0..MaxCalls]
         /\ \A e \in Db \ {d} : lost'[e] = lost[e]
         /\ \/ lost'[d] = lost[d]
            \/ \E r \in R \ (rows'[d] \cup A) : lost'[d] = r.id
         /\ lost[d] <= lost'[d]
         /\ \A r \in R \ (rows'[d] \cup A) : r.id <= lost'[d]
  <1> DEFINE G == R \ (rows'[d] \cup A)
             S == {lost[d]} \cup {r.id : r \in G}
  <1>1. S \subseteq 0..MaxCalls /\ lost[d] \in S
    BY DEF TypeOK, Row
  <1>2. Max(S) \in S /\ \A x \in S : x <= Max(S)
    <2> HIDE DEF S
    <2>1. S \in SUBSET Nat /\ S # {} /\ \A x \in S : x <= MaxCalls
      BY <1>1
    <2> QED
      BY <2>1, MaxIs
  <1>3. lost' = [lost EXCEPT ![d] = Max(S)]
    BY DEF Loses, TypeOK
  <1> HIDE DEF S
  <1>4. /\ lost' \in [Db -> 0..MaxCalls] /\ lost'[d] = Max(S)
        /\ \A e \in Db \ {d} : lost'[e] = lost[e]
    BY <1>1, <1>2, <1>3 DEF TypeOK
  <1> QED
    BY <1>1, <1>2, <1>4 DEF S

\* InsertHistory: the new row is newer than all, and what stays is the newest.
LEMMA Enters ==
  ASSUME IInv, NEW h \in Handler, call[h] # NoCall, call[h].open, Record(h)
  PROVE  LET d == call[h].db
             r == [id |-> nextId, server |-> call[h].server, tool |-> call[h].tool]
             R == rows[d] \cup {r}
         IN  /\ d \in Db /\ call[h].size \in Nat \ {0} /\ R \in SUBSET Row /\ Distinct(R)
             /\ r.id = nextId /\ \A x \in rows[d] : x.id < nextId
             /\ rows' = [rows EXCEPT ![d] = Newest(R, call[h].size)]
             /\ rows' \in [Db -> SUBSET Row] /\ rows'[d] = Newest(R, call[h].size)
             /\ nextId <= MaxCalls /\ nextId' = nextId + 1 /\ Loses(d, R, {})
             /\ r \in rows'[d]
  <1> DEFINE d == call[h].db
             r == [id |-> nextId, server |-> call[h].server, tool |-> call[h].tool]
             R == rows[d] \cup {r}
             n == call[h].size
  <1>1. d \in Db /\ n \in Nat \ {0} /\ call[h].server \in Ident /\ call[h].tool \in Tool
    BY DEF IInv, TypeOK
  <1>2. /\ rows' = [rows EXCEPT ![d] = Newest(R, n)] /\ nextId <= MaxCalls
        /\ nextId' = nextId + 1 /\ Loses(d, R, {})
    BY <1>1 DEF Record, IInv, TypeOK
  <1>3. r \in Row /\ rows[d] \in SUBSET Row /\ R \in SUBSET Row
    BY <1>1, <1>2 DEF IInv, TypeOK, Row
  <1>4. \A x \in rows[d] : x.id < nextId
    BY <1>1 DEF IInv, Numbered
  <1>5. Distinct(R)
    BY <1>1, <1>3, <1>4 DEF IInv, Numbered, Distinct, Row
  <1>6. Newest(R, n) \subseteq R
    BY DEF Newest
  <1>7. rows'[d] = Newest(R, n) /\ rows' \in [Db -> SUBSET Row]
    <2> HIDE DEF R, d, n
    <2> QED
      BY <1>1, <1>2, <1>3, <1>6 DEF IInv, TypeOK
  <1>8. r \in Newest(R, n)
    <2>1. Newer(R, r) = {}
      BY <1>3, <1>4 DEF Newer, Row
    <2>2. r \in R
      OBVIOUS
    <2> HIDE DEF r, R, n
    <2>3. Cardinality(Newer(R, r)) < n
      BY <1>1, <2>1, FS_EmptySet
    <2> QED
      BY <2>2, <2>3 DEF Newest
  <1> QED
    BY <1>1, <1>2, <1>3, <1>4, <1>5, <1>7, <1>8

\* A call is recorded, or its database has been closed.
LEMMA RecordKeeps ==
  ASSUME IInv, NEW h \in Handler, Record(h)
  PROVE  IInv'
  <1>1. call[h] # NoCall /\ call[h].open \in BOOLEAN
    BY DEF Record, IInv, TypeOK
  <1>2. /\ size' = size /\ target' = target /\ db' = db
        /\ call' = [call EXCEPT ![h] = NoCall]
    BY DEF Record
  <1>3. OpenIsPresent'
    BY <1>2 DEF IInv, OpenIsPresent, TypeOK
  <1>4. CASE ~ call[h].open
    <2>1. UNCHANGED <<rows, nextId, lost>>
      BY <1>4 DEF Record
    <2>2. TypeOK'
      BY <1>2, <2>1 DEF IInv, TypeOK
    <2>3. NewestSurvive' /\ Numbered'
      BY <2>1 DEF IInv, NewestSurvive, Numbered
    <2> QED
      BY <1>3, <2>2, <2>3 DEF IInv
  <1>5. CASE call[h].open
    <2> DEFINE d == call[h].db
               r == [id |-> nextId, server |-> call[h].server, tool |-> call[h].tool]
               R == rows[d] \cup {r}
               n == call[h].size
    <2>1. /\ d \in Db /\ n \in Nat \ {0} /\ R \in SUBSET Row /\ Distinct(R)
          /\ r.id = nextId /\ \A x \in rows[d] : x.id < nextId
          /\ rows' = [rows EXCEPT ![d] = Newest(R, n)]
          /\ rows' \in [Db -> SUBSET Row] /\ rows'[d] = Newest(R, n)
          /\ nextId <= MaxCalls /\ nextId' = nextId + 1 /\ Loses(d, R, {})
      BY <1>1, <1>5, Enters
    <2> HIDE DEF d, n
    <2>2. \A x \in R : x.id \in Nat /\ x.id <= nextId
      BY <2>1 DEF Row, IInv, TypeOK
    <2>3. lost[d] < nextId /\ \A x \in rows[d] : lost[d] < x.id
      BY <2>1 DEF IInv, Numbered, NewestSurvive
    <2>4. \A x \in R : lost[d] < x.id
      BY <2>1, <2>3
    <2> HIDE DEF R, r
    <2>5. /\ lost' \in [Db -> 0..MaxCalls]
          /\ \A e \in Db \ {d} : lost'[e] = lost[e]
          /\ lost'[d] = lost[d] \/ \E x \in R \ (rows'[d] \cup {}) : lost'[d] = x.id
      <3>1. TypeOK
        BY DEF IInv
      <3> QED
        BY <2>1, <3>1, LosesIs
    <2>6. TypeOK'
      <3>1. nextId' \in 1..MaxCalls + 1
        BY <2>1 DEF IInv, TypeOK
      <3>2. size' \in Sizes /\ target' \in Server \cup {Every} /\ db' \in Db
        BY <1>2 DEF IInv, TypeOK
      <3>3. call' \in [Handler -> {NoCall} \cup
              [at : {"calling"}, server : Ident, tool : Tool, size : Sizes, db : Db,
               open : BOOLEAN]]
        BY <1>2 DEF IInv, TypeOK
      <3> QED
        BY <2>1, <2>5, <3>1, <3>2, <3>3 DEF TypeOK
    <2>7. Newest(R, n) \subseteq R
      BY DEF Newest
    <2>8. \A x \in rows'[d] : lost'[d] < x.id
      <3>1. TAKE x \in rows'[d]
      <3>2. CASE lost'[d] = lost[d]
        BY <2>1, <2>4, <2>7, <3>2
      <3>3. CASE \E y \in R \ rows'[d] : lost'[d] = y.id
        BY <2>1, <3>3, NewestAreNewer
      <3> QED
        BY <2>5, <3>2, <3>3
    <2>9. \A e \in Db \ {d} : rows'[e] = rows[e]
      BY <2>1 DEF IInv, TypeOK
    <2>10. NewestSurvive'
      BY <2>5, <2>8, <2>9 DEF IInv, NewestSurvive
    <2>11. ASSUME NEW e \in Db
           PROVE  /\ \A a, b \in rows'[e] : a.id = b.id => a = b
                  /\ lost'[e] < nextId' /\ \A a \in rows'[e] : a.id < nextId'
      <3>1. CASE e = d
        <4>1. \A a, b \in rows'[d] : a.id = b.id => a = b
          BY <2>1, <2>7 DEF Distinct
        <4>2. nextId \in Nat /\ nextId' = nextId + 1
          BY <2>1 DEF IInv, TypeOK
        <4>3. \A a \in rows'[d] : a.id < nextId'
          BY <2>1, <2>2, <2>7, <4>2
        <4>4. lost'[d] < nextId'
          <5>1. lost[d] \in Nat
            BY <2>1 DEF IInv, TypeOK
          <5>2. CASE lost'[d] = lost[d]
            BY <2>3, <4>2, <5>1, <5>2
          <5>3. CASE \E x \in R : lost'[d] = x.id
            BY <2>2, <4>2, <5>3
          <5> QED
            BY <2>5, <5>2, <5>3
        <4> QED
          BY <3>1, <4>1, <4>3, <4>4
      <3>2. CASE e # d
        <4>1. /\ rows'[e] = rows[e] /\ lost'[e] = lost[e] /\ nextId' = nextId + 1
              /\ rows[e] \in SUBSET Row /\ lost[e] \in Nat /\ nextId \in Nat
          BY <2>1, <2>5, <2>9, <3>2 DEF IInv, TypeOK
        <4>2. /\ \A a, b \in rows[e] : a.id = b.id => a = b
              /\ lost[e] < nextId /\ \A a \in rows[e] : a.id < nextId
          BY DEF IInv, Numbered
        <4> QED
          BY <4>1, <4>2 DEF Row
      <3> QED
        BY <3>1, <3>2
    <2>12. Numbered'
      BY <2>11 DEF Numbered
    <2> QED
      BY <1>3, <2>6, <2>10, <2>12 DEF IInv
  <1> QED
    BY <1>1, <1>4, <1>5

\* A clearing takes what it was asked to take.
LEMMA ClearTakesAsked ==
  ASSUME TypeOK, NEW i \in Ident \cup {Every}, NEW t \in Tool \cup {Every},
         NEW all \in BOOLEAN, MayClear(i, t, all)
  PROVE  Asked(i, t, all) = Matching(rows[db], Filter(i), t)
  <1>1. rows[db] \in SUBSET Row
    BY DEF TypeOK
  <1>2. i # Every => Canonical(i) # Every
    BY CanonicalType DEF Ident
  <1>3. \A r \in rows[db] : r.server # Every /\ r.tool # Every
    BY <1>1 DEF Row, Ident
  <1>4. CASE all
    BY <1>1, <1>4 DEF MayClear, Asked, Matching, Filter
  <1>5. CASE ~ all
    BY <1>1, <1>2, <1>3, <1>5 DEF MayClear, Asked, Matching, Filter
  <1> QED
    BY <1>4, <1>5

\* ClearHistory takes only what was asked for.
LEMMA ClearKeeps ==
  ASSUME IInv, NEW i \in Ident \cup {Every}, NEW t \in Tool \cup {Every},
         NEW all \in BOOLEAN, ClearHistory(i, t, all)
  PROVE  IInv'
  <1> DEFINE M == Matching(rows[db], Filter(i), t)
  <1>1. /\ rows' = [rows EXCEPT ![db] = @ \ M] /\ Loses(db, rows[db], M)
        /\ UNCHANGED <<size, target, db, nextId, call>>
    BY ClearTakesAsked DEF ClearHistory, IInv, TypeOK
  <1> HIDE DEF M
  <1>2. db \in Db /\ rows[db] \in SUBSET Row
    BY DEF IInv, TypeOK
  <1>3. /\ rows' \in [Db -> SUBSET Row] /\ rows'[db] = rows[db] \ M
        /\ \A e \in Db : rows'[e] \subseteq rows[e]
    BY <1>1, <1>2 DEF IInv, TypeOK
  <1>4. lost' \in [Db -> 0..MaxCalls] /\ \A e \in Db : lost'[e] = lost[e]
    <2>1. rows[db] \ (rows'[db] \cup M) = {}
      BY <1>3
    <2>2. TypeOK
      BY DEF IInv
    <2>3. /\ lost' \in [Db -> 0..MaxCalls]
          /\ \A e \in Db \ {db} : lost'[e] = lost[e]
          /\ lost'[db] = lost[db] \/ \E r \in rows[db] \ (rows'[db] \cup M) : lost'[db] = r.id
      BY <1>1, <1>2, <1>3, <2>2, LosesIs
    <2> QED
      BY <2>1, <2>3
  <1>5. TypeOK'
    BY <1>1, <1>3, <1>4 DEF IInv, TypeOK
  <1>6. NewestSurvive'
    BY <1>3, <1>4 DEF IInv, NewestSurvive
  <1>7. Numbered'
    BY <1>1, <1>3, <1>4 DEF IInv, Numbered
  <1>8. OpenIsPresent'
    BY <1>1 DEF IInv, OpenIsPresent
  <1> QED
    BY <1>5, <1>6, <1>7, <1>8 DEF IInv

\* A reload changes the size, the alias or the database.
LEMMA ReloadKeeps ==
  ASSUME IInv, NEW n \in Sizes, NEW s \in Server \cup {Every}, NEW d \in Db, Reload(n, s, d)
  PROVE  IInv'
  <1>1. TypeOK'
    <2> DEFINE Calls == [at : {"calling"}, server : Ident, tool : Tool, size : Sizes, db : Db,
                         open : BOOLEAN]
    <2>1. call' \in [Handler -> {NoCall} \cup Calls]
      <3>1. ASSUME NEW h \in Handler
            PROVE  (IF call[h] = NoCall THEN NoCall ELSE [call[h] EXCEPT !.open = FALSE])
                     \in {NoCall} \cup Calls
        BY <3>1 DEF IInv, TypeOK
      <3>2. CASE d = db
        <4>1. call' = call
          BY <3>2 DEF Reload
        <4> QED
          BY <4>1 DEF IInv, TypeOK
      <3>3. CASE d # db
        <4>1. call' = [h \in Handler |-> IF call[h] = NoCall THEN NoCall
                                         ELSE [call[h] EXCEPT !.open = FALSE]]
          BY <3>3 DEF Reload
        <4> HIDE DEF Calls
        <4> QED
          BY <3>1, <4>1
      <3> QED
        BY <3>2, <3>3
    <2> QED
      BY <2>1 DEF Reload, IInv, TypeOK
  <1>2. NewestSurvive' /\ Numbered'
    BY DEF Reload, IInv, NewestSurvive, Numbered
  <1>3. OpenIsPresent'
    BY DEF Reload, IInv, OpenIsPresent, TypeOK
  <1> QED
    BY <1>1, <1>2, <1>3 DEF IInv

\* A restart ends all calls.
LEMMA RestartKeeps == IInv /\ Restart => IInv'
  BY DEF IInv, TypeOK, NewestSurvive, Numbered, OpenIsPresent, Restart

\* Each step keeps the invariant.
LEMMA StepKeeps == IInv /\ [Next]_vars => IInv'
  <1> SUFFICES ASSUME IInv, [Next]_vars PROVE IInv'
    OBVIOUS
  <1>1. CASE UNCHANGED vars
    BY <1>1 DEF vars, IInv, TypeOK, NewestSurvive, Numbered, OpenIsPresent
  <1> QED
    BY <1>1, CallKeeps, RecordKeeps, ClearKeeps, ReloadKeeps, RestartKeeps DEF Next

\* The history of a database is the newest calls without gaps, but for what was asked to
\* be cleared, whatever calls, clearings, reloads and restarts come between.
THEOREM Invariance == Spec => []IInv
  <1> QED
    BY Initially, StepKeeps, PTL DEF Spec

-----------------------------------------------------------------------------
(* What a recorded call does to the others, and where it is recorded. *)

\* What a recording drops, it drops from a history that is full.
LEMMA DropsStep ==
  ASSUME IInv, NEW d \in Db, [Next]_vars, ~ (rows[d] \subseteq rows'[d]),
         ~ \A h \in Handler : call'[h] = call[h]
  PROVE  \E h \in Handler : call[h] # NoCall /\ call'[h] = NoCall
                             /\ Cardinality(rows'[d]) >= call[h].size
  <1>1. rows'[d] # rows[d]
    OBVIOUS
  <1>2. PICK h \in Handler : Record(h)
    BY <1>1 DEF Next, Call, ClearHistory, Reload, Restart, vars
  <1>3. call[h] # NoCall /\ call[h].open
    BY <1>1, <1>2 DEF Record
  <1> DEFINE r == [id |-> nextId, server |-> call[h].server, tool |-> call[h].tool]
             R == rows[d] \cup {r}
             n == call[h].size
  <1>4. d = call[h].db
    <2>1. \A e \in Db \ {call[h].db} : rows'[e] = rows[e]
      <3>1. \E S : rows' = [rows EXCEPT ![call[h].db] = S]
        BY <1>2, <1>3, Enters
      <3> QED
        BY <3>1 DEF IInv, TypeOK
    <2> QED
      BY <1>1, <2>1
  <1>5. n \in Nat \ {0} /\ R \in SUBSET Row /\ Distinct(R) /\ rows'[d] = Newest(R, n)
    BY <1>2, <1>3, <1>4, Enters
  <1>6. call'[h] = NoCall
    BY <1>2 DEF Record, IInv, TypeOK
  <1> HIDE DEF n, R
  <1>7. Newest(R, n) # R
    BY <1>5 DEF R
  <1>8. PICK x \in R : ~ (Cardinality(Newer(R, x)) < n)
    BY <1>7 DEF Newest
  <1>9. ~ (Cardinality(R) < n)
    BY <1>5, <1>8, RankType, Finite
  <1>10. Cardinality(rows'[d]) = n
    BY <1>5, <1>9, NewestCount
  <1> QED
    BY <1>3, <1>5, <1>6, <1>10 DEF n

\* sqlite.go:129-141: whatever else goes on, a call that is recorded drives out another
\* only when the history is as long as the size the call began with allows.
THEOREM OnlyAFullHistoryDrops == Spec => DropsOnlyWhenFull
  <1>1. IInv /\ [Next]_vars =>
          [\A d \in Db :
             rows[d] \subseteq rows'[d] \/ (\A h \in Handler : call'[h] = call[h])
               \/ Cardinality(rows'[d]) >= size
               \/ \E h \in Handler : call[h] # NoCall /\ call'[h] = NoCall
                                       /\ Cardinality(rows'[d]) >= call[h].size]_vars
    BY DropsStep
  <1> QED
    BY <1>1, Invariance, PTL DEF Spec, DropsOnlyWhenFull

\* server.go:257-271: a call that is over is in the history of the present database, unless
\* a reload has left the one it began with, and the history is within the call's size.
THEOREM AnswersAreRecorded == Spec => AnsweredIsRecorded
  <1>1. ASSUME IInv, NEW h \in Handler, Record(h), call[h].open
        PROVE  /\ Cardinality(rows'[db]) <= call[h].size
               /\ \E r \in rows'[db] \ rows[db] :
                    r.server = call[h].server /\ r.tool = call[h].tool
    <2> DEFINE r == [id |-> nextId, server |-> call[h].server, tool |-> call[h].tool]
               R == rows[db] \cup {r}
               n == call[h].size
    <2>1. call[h] # NoCall /\ call[h].db = db
      BY <1>1 DEF Record, IInv, OpenIsPresent
    <2>2. /\ n \in Nat \ {0} /\ R \in SUBSET Row /\ Distinct(R) /\ rows'[db] = Newest(R, n)
          /\ \A x \in rows[db] : x.id < nextId
          /\ r \in rows'[db]
      BY <1>1, <2>1, Enters
    <2>3. Cardinality(rows'[db]) <= n
      <3> HIDE DEF R, n
      <3> QED
        BY <2>2, NewestCount, Finite
    <2>4. r \notin rows[db]
      BY <2>2 DEF Row
    <2>5. r.server = call[h].server /\ r.tool = call[h].tool
      OBVIOUS
    <2> HIDE DEF r, R
    <2> QED
      BY <2>2, <2>3, <2>4, <2>5
  <1>2. IInv /\ [Next]_vars =>
          [\A h \in Handler :
             Record(h) /\ call[h].open =>
               /\ Cardinality(rows'[db]) <= call[h].size
               /\ \E r \in rows'[db] \ rows[db] :
                    r.server = call[h].server /\ r.tool = call[h].tool]_vars
    BY <1>1
  <1> QED
    BY <1>2, Invariance, PTL DEF Spec, AnsweredIsRecorded

-----------------------------------------------------------------------------
(* Listings. *)

\* The k-th of the newest rows has k - 1 newer ones.
LEMMA FirstIs ==
  ASSUME NEW R \in SUBSET Row, Distinct(R), NEW k \in 1..Cardinality(R)
  PROVE  NewestFirst(R)[k] \in R /\ Cardinality(Newer(R, NewestFirst(R)[k])) = k - 1
  <1>1. Cardinality(R) \in Nat
    BY Finite
  <1>2. k - 1 \in Nat /\ k - 1 < Cardinality(R)
    BY <1>1
  <1>3. \E r \in R : Cardinality(Newer(R, r)) = k - 1
    BY <1>2, RankOnto
  <1>4. NewestFirst(R)[k] = CHOOSE r \in R : Cardinality(Newer(R, r)) = k - 1
    BY DEF NewestFirst
  <1> QED
    BY <1>3, <1>4

\* Turned round, the rows of R are in the order of their ids, each of them once.
LEMMA Listed ==
  ASSUME NEW R \in SUBSET Row, Distinct(R)
  PROVE  LET list == Reverse(NewestFirst(R))
         IN  /\ Len(list) = Cardinality(R)
             /\ \A a \in 1..Len(list) : list[a] \in R
             /\ \A a, b \in 1..Len(list) : a < b => list[a].id < list[b].id
             /\ \A r \in R : \E a \in 1..Len(list) : list[a] = r
  <1> DEFINE first == NewestFirst(R)
             list == Reverse(first)
             n == Cardinality(R)
  <1>1. n \in Nat
    BY Finite
  <1> HIDE DEF n
  <1>2. first \in Seq(R) /\ Len(first) = n
    <2>1. first = [k \in 1..n |-> first[k]] /\ DOMAIN first = 1..n
      BY DEF NewestFirst, n
    <2>2. first \in [1..n -> R]
      <3>1. \A k \in 1..n : first[k] \in R
        BY FirstIs DEF n
      <3> HIDE DEF first
      <3> QED
        BY <2>1, <3>1
    <2> HIDE DEF first
    <2> QED
      BY <1>1, <2>1, <2>2
  <1>3. Len(list) = n /\ \A a \in 1..n : list[a] = first[n - a + 1]
    <2> HIDE DEF first
    <2>1. list = [a \in 1..n |-> first[n - a + 1]]
      BY <1>2 DEF Reverse
    <2> QED
      BY <1>1, <2>1
  <1>4. \A a \in 1..n : list[a] \in R /\ Cardinality(Newer(R, list[a])) = n - a
    <2>1. TAKE a \in 1..n
    <2>2. n - a + 1 \in 1..n
      BY <1>1
    <2>3. first[n - a + 1] \in R /\ Cardinality(Newer(R, first[n - a + 1])) = n - a + 1 - 1
      <3>1. n - a + 1 \in 1..Cardinality(R)
        BY <2>2 DEF n
      <3>2. \A k \in 1..Cardinality(R) :
              first[k] \in R /\ Cardinality(Newer(R, first[k])) = k - 1
        BY FirstIs
      <3> HIDE DEF first
      <3>3. n - a + 1 - 1 = (n - a + 1) - 1
        BY <1>1
      <3> DEFINE k == n - a + 1
      <3>4. first[k] \in R /\ Cardinality(Newer(R, first[k])) = k - 1
        <4> HIDE DEF k
        <4> QED
          BY <3>1, <3>2 DEF k
      <3> QED
        BY <3>3, <3>4
    <2> QED
      BY <1>1, <1>3, <2>3
  <1> HIDE DEF list, first
  <1>5. \A a, b \in 1..n : a < b => list[a].id < list[b].id
    BY <1>1, <1>4, RankOrder
  <1>6. \A r \in R : \E a \in 1..n : list[a] = r
    <2>1. TAKE r \in R
    <2> DEFINE k == Cardinality(Newer(R, r))
    <2>2. k \in Nat /\ k < n
      BY RankType DEF n
    <2> HIDE DEF k
    <2>3. n - k \in 1..n
      BY <1>1, <2>2
    <2>4. list[n - k] \in R /\ Cardinality(Newer(R, list[n - k])) = k
      BY <1>1, <1>4, <2>2, <2>3
    <2>5. list[n - k] = r
      BY <2>4, RankOrder DEF k
    <2> QED
      BY <2>3, <2>5
  <1> QED
    BY <1>3, <1>4, <1>5, <1>6 DEF list, first, n

\* The least of a set of naturals.
LEMMA MinIs ==
  ASSUME NEW S \in SUBSET Nat, S # {}
  PROVE  Min(S) \in S /\ \A x \in S : Min(S) <= x
  <1>1. PICK m \in S : \A x \in S : m <= x
    BY LeastNatural
  <1> QED
    BY <1>1 DEF Min

\* ListHistory, from the invariant: it lists the newest of what matches.
LEMMA ListStep == IInv => ListsTheEnd
  <1> SUFFICES ASSUME IInv, NEW i \in Ident \cup {Every}, NEW t \in Tool \cup {Every},
                      NEW n \in Limits
               PROVE
    LET match == {r \in rows[db] : /\ i = Every \/ r.server = Canonical(i)
                                   /\ t = Every \/ r.tool = t}
        list == ListHistory(i, t, n)
    IN  /\ Len(list) = Min({Cardinality(match), MaxLimit, IF n <= 0 THEN DefaultLimit ELSE n})
        /\ \A a \in 1..Len(list) : list[a] \in match
        /\ \A a, b \in 1..Len(list) : a < b => list[a].id < list[b].id
        /\ \A r \in match, a \in 1..Len(list) :
             (\A b \in 1..Len(list) : list[b] # r) => r.id < list[a].id
    BY DEF ListsTheEnd
  <1> DEFINE match == {r \in rows[db] : /\ i = Every \/ r.server = Canonical(i)
                                        /\ t = Every \/ r.tool = t}
             M == Matching(rows[db], Filter(i), t)
             limit == EffectiveLimit(n)
             asked == IF n <= 0 THEN DefaultLimit ELSE n
             list == ListHistory(i, t, n)
  <1>1. rows[db] \in SUBSET Row /\ Distinct(rows[db])
    BY DEF IInv, TypeOK, Numbered, Distinct
  <1>2. match = M
    <2>1. i # Every => Canonical(i) # Every
      BY CanonicalType DEF IInv, Ident
    <2>2. \A r \in rows[db] : r.server # Every /\ r.tool # Every
      BY <1>1 DEF Row, Ident
    <2> QED
      BY <2>1, <2>2 DEF Matching, Filter
  <1>3. M \in SUBSET Row /\ Distinct(M) /\ Cardinality(M) \in Nat
    BY <1>1, Within DEF Matching
  <1> HIDE DEF M, match
  <1>4. /\ n \in Int /\ limit \in Nat /\ limit <= MaxLimit /\ limit <= asked /\ asked \in Nat
        /\ limit = MaxLimit \/ limit = asked
    BY DEF EffectiveLimit
  <1> DEFINE R == Newest(M, limit)
  <1> HIDE DEF limit
  <1>5. R \in SUBSET M /\ R \in SUBSET Row /\ Distinct(R)
    BY <1>3, Within DEF Newest
  <1>6. Cardinality(R) = IF Cardinality(M) < limit THEN Cardinality(M) ELSE limit
    BY <1>3, <1>4, NewestCount
  <1>7. Cardinality(R) = Min({Cardinality(match), MaxLimit, asked})
    <2> DEFINE S == {Cardinality(M), MaxLimit, asked}
    <2>1. S \in SUBSET Nat /\ S # {}
      BY <1>3, <1>4
    <2>2. Min(S) \in S /\ \A x \in S : Min(S) <= x
      <3> HIDE DEF S
      <3> QED
        BY <2>1, MinIs
    <2>3. Cardinality(R) \in S /\ \A x \in S : Cardinality(R) <= x
      <3> HIDE DEF asked, R
      <3> QED
        BY <1>3, <1>4, <1>6
    <2>4. Min(S) = Cardinality(R)
      <3> DEFINE m == Min(S)
                 c == Cardinality(R)
      <3>1. m \in Nat /\ c \in Nat /\ m <= c /\ c <= m
        <4> HIDE DEF S, R
        <4> QED
          BY <2>1, <2>2, <2>3
      <3> HIDE DEF m, c
      <3>2. m = c
        BY <3>1
      <3> QED
        BY <3>2 DEF m, c
    <2> QED
      BY <1>2, <2>4
  <1>8. \A r \in M \ R, x \in R : r.id < x.id
    BY <1>3, <1>4, NewestAreNewer
  <1>9. list = Reverse(NewestFirst(R))
    BY DEF ListHistory, M, limit
  <1> HIDE DEF R, list
  <1>10. /\ Len(list) = Cardinality(R)
         /\ \A a \in 1..Len(list) : list[a] \in R
         /\ \A a, b \in 1..Len(list) : a < b => list[a].id < list[b].id
         /\ \A r \in R : \E a \in 1..Len(list) : list[a] = r
    BY <1>5, <1>9, Listed
  <1>11. \A r \in match, a \in 1..Len(list) :
           (\A b \in 1..Len(list) : list[b] # r) => r.id < list[a].id
    BY <1>2, <1>8, <1>10
  <1>12. \A a \in 1..Len(list) : list[a] \in match
    BY <1>2, <1>5, <1>10
  <1> QED
    BY <1>7, <1>10, <1>11, <1>12 DEF match, list

\* sqlite.go:149-229: in every state, a listing is the end of the matching part of the
\* history, oldest first, of the length that the limit allows.
THEOREM ListingsAreTheEnd == Spec => []ListsTheEnd
  <1> QED
    BY Invariance, ListStep, PTL

=============================================================================
