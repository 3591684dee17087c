---------------------------- MODULE CommandProofs ---------------------------
(***************************************************************************)
(* Proofs about `mcpshim call' and the daemon's side of it, for any calls, *)
(* command lines, tools, policies and URLs.                                *)
(*                                                                         *)
(* In this order: an exchange; patterns for paths, whose matcher is        *)
(* recursive; the reasons for which a call may be refused; the parser of   *)
(* command lines, which is recursive, too; the invariant of the whole, and *)
(* what follows from it.                                                   *)
(*                                                                         *)
(* What a recursive function computes is proved by induction: a set of     *)
(* naturals that has 0 and with each number the next has all of them.      *)
(***************************************************************************)
EXTENDS Command, FiniteSetTheorems, SequenceTheorems, WellFoundedInduction, TLAPS

-----------------------------------------------------------------------------
(* An exchange stays with the configured origin and its result is honest,  *)
(* for any URLs, policies, limits and bodies.                              *)

\* ExchangeInit: before anything is sent there is nothing to be honest about.
LEMMA ExchangeInitially == ExchangeInit => ExchangeIInv
  BY ExchangeAssumption
     DEF ExchangeInit, ExchangeIInv, ExchangeTypeOK, Stages, StaysHome, ResultIsHonest

\* effectivePolicy: the limit is positive, whatever is configured.
LEMMA LimitPositive ==
  ASSUME ExchangeTypeOK
  PROVE  Limit(policy) \in Nat /\ Limit(policy) > 0
  BY ExchangeAssumption DEF ExchangeTypeOK, PolicyOK, Limit

\* An exchange that ends without a response has no body.
LEMMA FailKeeps ==
  ASSUME ExchangeIInv, NEW why \in Errors, Fail(why)
  PROVE  ExchangeIInv'
  BY DEF ExchangeIInv, ExchangeTypeOK, Fail, Failure, Outcome, Stages, StaysHome,
         ResultIsHonest

\* The client follows a redirect only where CheckRedirect lets it.
LEMMA RedirectKeeps ==
  ASSUME ExchangeIInv, NEW url \in Url, Redirect(url)
  PROVE  ExchangeIInv'
  <1>1. CASE MayFollow(url)
    <2>1. /\ at' = url
          /\ hops' = IF Redirects(policy) = "any" THEN hops + 1 ELSE hops
          /\ stage = "sent"
          /\ Redirects(policy) # "disabled"
          /\ UNCHANGED <<stage, policy, reply, outcome>>
      BY <1>1 DEF Redirect
    <2>2. hops' \in 0..MaxHops
      BY <1>1, <2>1, ExchangeAssumption DEF MayFollow, ExchangeIInv, ExchangeTypeOK
    <2>3. ExchangeTypeOK'
      BY <2>1, <2>2 DEF ExchangeIInv, ExchangeTypeOK
    <2>4. policy.redirects \in {"unset", "disabled", "same-origin", "any"}
      BY ExchangeAssumption DEF ExchangeIInv, ExchangeTypeOK, PolicyOK
    <2>5. StaysHome'
      BY <1>1, <2>1, <2>4 DEF StaysHome, MayFollow, Redirects
    <2> QED
      BY <2>1, <2>3, <2>5 DEF ExchangeIInv, ResultIsHonest
  <1>2. CASE ~MayFollow(url)
    <2>1. Fail("redirect")
      BY <1>2 DEF Redirect
    <2> QED
      BY <2>1, FailKeeps DEF Errors
  <1> QED
    BY <1>1, <1>2

\* execute, from the reading of the body to the result.
LEMMA FinishKeeps ==
  ASSUME ExchangeIInv, Finish
  PROVE  ExchangeIInv'
  <1> DEFINE limit == Limit(policy)
             truncated == BytesRead > limit
             kept == IF truncated THEN limit ELSE BytesRead
             allowed == ReplyTypeAllowed(policy, reply.type)
             good == Successful(policy, reply.status)
  <1>1. reply \in Replies /\ reply.size \in Nat
    BY ExchangeAssumption DEF ExchangeIInv, ExchangeTypeOK, Finish, Replies
  <1>2. limit \in Nat /\ limit > 0
    BY LimitPositive DEF ExchangeIInv
  <1>3. /\ kept \in Nat /\ kept <= limit
        /\ limit < MaxInt => (truncated <=> reply.size > limit)
        /\ limit < MaxInt /\ ~truncated => kept = reply.size
        /\ truncated => kept > 0
    <2>1. MaxInt \in Nat /\ limit <= MaxInt
      BY <1>2, ExchangeAssumption DEF ExchangeIInv, ExchangeTypeOK, PolicyOK, Limit
    <2> QED
      BY <1>1, <1>2, <2>1 DEF ReadLimit, BytesRead
  <1>4. /\ stage' = "done"
        /\ UNCHANGED <<policy, at, hops, reply>>
        /\ \/ /\ kept > 0 /\ ~allowed
              /\ outcome' = [error |-> "type", body |-> 0, truncated |-> truncated]
           \/ /\ ~(kept > 0 /\ ~allowed)
              /\ truncated
              /\ outcome' = [error |-> "size", body |-> kept, truncated |-> truncated]
           \/ /\ ~(kept > 0 /\ ~allowed)
              /\ ~truncated /\ ~good
              /\ outcome' = [error |-> "status", body |-> kept, truncated |-> truncated]
           \/ /\ ~(kept > 0 /\ ~allowed)
              /\ ~truncated /\ good
              /\ outcome' = [error |-> "none", body |-> kept, truncated |-> truncated]
    BY DEF Finish
  <1> HIDE DEF limit, truncated, kept, allowed, good
  <1>5. truncated \in BOOLEAN
    BY DEF truncated
  <1>6. outcome' \in Outcome
    BY <1>3, <1>4, <1>5 DEF Outcome, Errors
  <1>7. ExchangeTypeOK'
    BY <1>4, <1>6 DEF ExchangeIInv, ExchangeTypeOK, Stages
  <1>8. ResultIsHonest'
    <2>1. /\ Limit(policy)' = limit
          /\ ReplyTypeAllowed(policy, reply.type)' = allowed
          /\ Successful(policy, reply.status)' = good
      BY <1>4 DEF limit, allowed, good, Limit, ReplyTypeAllowed, Successful
    <2>2. outcome'.error = "none" => good /\ (outcome'.body > 0 => allowed)
      BY <1>4
    <2> QED
      BY <1>2, <1>3, <1>4, <2>1, <2>2 DEF ResultIsHonest
  <1> QED
    BY <1>4, <1>7, <1>8 DEF ExchangeIInv, StaysHome

\* Each step of an exchange keeps the invariant.
LEMMA ExchangeStepKeeps ==
  ASSUME ExchangeIInv, [ExchangeStep]_exchangeVars
  PROVE  ExchangeIInv'
  <1>1. CASE Compile
    <2>1. CASE Fail("refused")
      BY <2>1, FailKeeps DEF Errors
    <2>2. CASE stage' = "compiled" /\ UNCHANGED <<policy, at, hops, reply, outcome>>
      BY <2>2 DEF ExchangeIInv, ExchangeTypeOK, Stages, StaysHome, ResultIsHonest
    <2> QED
      BY <1>1, <2>1, <2>2 DEF Compile
  <1>2. CASE Send
    BY <1>2, ExchangeAssumption
       DEF Send, ExchangeIInv, ExchangeTypeOK, Stages, StaysHome, ResultIsHonest
  <1>3. ASSUME NEW url \in Url, Redirect(url) PROVE ExchangeIInv'
    BY <1>3, RedirectKeeps
  <1>4. ASSUME NEW r \in Replies, Reply(r) PROVE ExchangeIInv'
    BY <1>4, ExchangeAssumption
       DEF Reply, Answer, ExchangeIInv, ExchangeTypeOK, Stages, StaysHome, ResultIsHonest
  <1>5. CASE TransportFails
    BY <1>5, FailKeeps DEF TransportFails, Errors
  <1>6. CASE TimesOut
    BY <1>6, FailKeeps DEF TimesOut, Errors
  <1>7. CASE Finish
    BY <1>7, FinishKeeps
  <1>8. CASE UNCHANGED exchangeVars
    BY <1>8 DEF exchangeVars, ExchangeIInv, ExchangeTypeOK, StaysHome, ResultIsHonest,
                Limit, ReplyTypeAllowed, Successful
  <1> QED
    BY <1>1, <1>2, <1>3, <1>4, <1>5, <1>6, <1>7, <1>8 DEF ExchangeStep

\* The invariant of an exchange.
THEOREM ExchangeInvariance == ExchangeSpec => []ExchangeIInv
  <1> QED
    BY ExchangeInitially, ExchangeStepKeeps, PTL DEF ExchangeSpec

\* httpbinding.go:335-351: no request leaves the configured origin unless the policy
\* is "any", for any chain of redirects.
THEOREM ExchangesStayHome == ExchangeSpec => []StaysHome
  <1>1. ExchangeIInv => StaysHome
    BY DEF ExchangeIInv
  <1> QED
    BY ExchangeInvariance, <1>1, PTL

\* httpbinding.go:357-410: a result says the truth about the response behind it, for
\* any limit and any size of the body.
THEOREM ResultsAreHonest == ExchangeSpec => []ResultIsHonest
  <1>1. ExchangeIInv => ResultIsHonest
    BY DEF ExchangeIInv
  <1> QED
    BY ExchangeInvariance, <1>1, PTL

-----------------------------------------------------------------------------
(* Patterns for paths: the matcher against the definition by cuts, which   *)
(* say where the segments of the path are cut among those of the pattern.  *)

\* A set of naturals has a least one.
LEMMA LeastNatural ==
  ASSUME NEW T \in SUBSET Nat, T # {}
  PROVE  \E m \in T : \A k \in T : m <= k
  <1>1. PICK x \in T : \A y \in T : ~ (<<y, x>> \in OpToRel(<, Nat))
    BY WFMin, NatLessThanWellFounded
  <1>2. \A y \in T : ~ (y < x)
    BY <1>1 DEF OpToRel
  <1> QED
    BY <1>2

\* Induction over the naturals, for a set.
LEMMA NatInd ==
  ASSUME NEW T \in SUBSET Nat, 0 \in T, \A n \in T : n + 1 \in T
  PROVE  T = Nat
  <1>1. SUFFICES ASSUME Nat \ T # {} PROVE FALSE
    OBVIOUS
  <1>2. PICK m \in Nat \ T : \A k \in Nat \ T : m <= k
    BY <1>1, LeastNatural
  <1>3. m # 0 /\ m - 1 \in Nat
    BY <1>2
  <1>4. m - 1 \in T
    BY <1>2, <1>3
  <1> QED
    BY <1>2, <1>4

\* The k-th segment of P matches what is between two cuts.
Part(P, C, cut, k) ==
  IF P[k] = "**" THEN cut[k] >= cut[k - 1]
  ELSE /\ cut[k] = cut[k - 1] + 1
       /\ P[k] \in {"*", C[cut[k]]}

Cuts(P, C) == [0..Len(P) -> 0..Len(C)]

\* The cut has what P matches from i on match what C has from j on.
CutFrom(P, C, i, j, cut) ==
  /\ cut[i - 1] = j - 1
  /\ cut[Len(P)] = Len(C)
  /\ \A k \in i..Len(P) : Part(P, C, cut, k)

Cut(P, C, i, j) == \E cut \in Cuts(P, C) : CutFrom(P, C, i, j, cut)

\* What is left of an empty rest of the pattern is nothing.
LEMMA CutEnd ==
  ASSUME NEW P \in Seq(STRING), NEW C \in Seq(STRING), NEW j \in 1..Len(C) + 1
  PROVE  Cut(P, C, Len(P) + 1, j) <=> j > Len(C)
  <1> USE DEF Cut, CutFrom, Cuts
  <1>1. ASSUME j > Len(C) PROVE Cut(P, C, Len(P) + 1, j)
    <2> DEFINE cut == [k \in 0..Len(P) |-> Len(C)]
    <2>1. cut \in Cuts(P, C)
      OBVIOUS
    <2>2. CutFrom(P, C, Len(P) + 1, j, cut)
      BY <1>1
    <2> QED
      BY <2>1, <2>2
  <1>2. ASSUME Cut(P, C, Len(P) + 1, j) PROVE j > Len(C)
    BY <1>2
  <1> QED
    BY <1>1, <1>2

\* A cut whose part before i is changed.
LEMMA CutMoved ==
  ASSUME NEW P \in Seq(STRING), NEW C \in Seq(STRING),
         NEW i \in 1..Len(P), NEW j \in 1..Len(C) + 1, NEW cut \in Cuts(P, C),
         cut[Len(P)] = Len(C),
         \A k \in i + 1..Len(P) : Part(P, C, cut, k),
         IF P[i] = "**" THEN cut[i] >= j - 1
         ELSE cut[i] = j /\ P[i] \in {"*", C[cut[i]]}
  PROVE  Cut(P, C, i, j)
  <1> DEFINE moved == [cut EXCEPT ![i - 1] = j - 1]
  <1>1. moved \in Cuts(P, C)
    BY DEF Cuts
  <1>2. /\ moved[i - 1] = j - 1
        /\ \A k \in i..Len(P) : moved[k] = cut[k]
        /\ cut[i] \in Int
    BY DEF Cuts
  <1> HIDE DEF moved
  <1>3. Part(P, C, moved, i)
    BY <1>2 DEF Part
  <1>4. ASSUME NEW k \in i + 1..Len(P) PROVE Part(P, C, moved, k)
    <2>1. k - 1 \in i..Len(P) /\ k \in i..Len(P)
      OBVIOUS
    <2> QED
      BY <2>1, <1>2 DEF Part
  <1>5. CutFrom(P, C, i, j, moved)
    BY <1>2, <1>3, <1>4 DEF CutFrom
  <1> QED
    BY <1>1, <1>5 DEF Cut

\* "**" matches nothing, or one more segment.
LEMMA CutMany ==
  ASSUME NEW P \in Seq(STRING), NEW C \in Seq(STRING),
         NEW i \in 1..Len(P), NEW j \in 1..Len(C) + 1, P[i] = "**"
  PROVE  Cut(P, C, i, j) <=> Cut(P, C, i + 1, j) \/ (j <= Len(C) /\ Cut(P, C, i, j + 1))
  <1>1. ASSUME NEW cut \in Cuts(P, C), CutFrom(P, C, i, j, cut)
        PROVE  Cut(P, C, i + 1, j) \/ (j <= Len(C) /\ Cut(P, C, i, j + 1))
    <2>1. cut[i] \in 0..Len(C) /\ cut[i] >= j - 1
      BY <1>1 DEF CutFrom, Part, Cuts
    <2>2. CASE cut[i] = j - 1
      BY <1>1, <2>2 DEF CutFrom, Cut
    <2>3. CASE cut[i] >= j
      <3>1. j <= Len(C) /\ j + 1 \in 1..Len(C) + 1
        BY <2>1, <2>3
      <3>2. cut[i] >= (j + 1) - 1 /\ \A k \in i + 1..Len(P) : Part(P, C, cut, k)
        BY <1>1, <2>3 DEF CutFrom
      <3>3. Cut(P, C, i, j + 1)
        BY <3>1, <3>2, <1>1, CutMoved DEF CutFrom
      <3> QED
        BY <3>1, <3>3
    <2> QED
      BY <2>1, <2>2, <2>3
  <1>2. ASSUME NEW cut \in Cuts(P, C), CutFrom(P, C, i + 1, j, cut)
        PROVE  Cut(P, C, i, j)
    BY <1>2, CutMoved DEF CutFrom
  <1>3. ASSUME j <= Len(C), NEW cut \in Cuts(P, C), CutFrom(P, C, i, j + 1, cut)
        PROVE  Cut(P, C, i, j)
    <2>1. cut[i] >= j - 1
      BY <1>3 DEF CutFrom, Part, Cuts
    <2> QED
      BY <1>3, <2>1, CutMoved DEF CutFrom
  <1> QED
    BY <1>1, <1>2, <1>3 DEF Cut

\* Any other segment of a pattern matches one segment.
LEMMA CutOne ==
  ASSUME NEW P \in Seq(STRING), NEW C \in Seq(STRING),
         NEW i \in 1..Len(P), NEW j \in 1..Len(C) + 1, P[i] # "**"
  PROVE  Cut(P, C, i, j) <=> j <= Len(C) /\ P[i] \in {"*", C[j]} /\ Cut(P, C, i + 1, j + 1)
  <1>1. ASSUME NEW cut \in Cuts(P, C), CutFrom(P, C, i, j, cut)
        PROVE  j <= Len(C) /\ P[i] \in {"*", C[j]} /\ Cut(P, C, i + 1, j + 1)
    <2>1. cut[i] = j /\ cut[i] \in 0..Len(C) /\ P[i] \in {"*", C[cut[i]]}
      BY <1>1 DEF CutFrom, Part, Cuts
    <2>2. CutFrom(P, C, i + 1, j + 1, cut)
      BY <1>1, <2>1 DEF CutFrom
    <2> QED
      BY <2>1, <2>2 DEF Cut
  <1>2. ASSUME j <= Len(C), P[i] \in {"*", C[j]},
               NEW cut \in Cuts(P, C), CutFrom(P, C, i + 1, j + 1, cut)
        PROVE  Cut(P, C, i, j)
    <2>1. cut[i] = j
      BY <1>2 DEF CutFrom
    <2> QED
      BY <1>2, <2>1, CutMoved DEF CutFrom
  <1> QED
    BY <1>1, <1>2 DEF Cut

\* matchPathSegments, unfolded once.
Once(P, C, m, i, j) ==
  IF i > Len(P) THEN j > Len(C)
  ELSE IF P[i] = "**" THEN m[i + 1][j] \/ (j <= Len(C) /\ m[i][j + 1])
  ELSE /\ j <= Len(C)
       /\ P[i] \in {"*", C[j]}
       /\ m[i + 1][j + 1]

Unfolded(P, C, m) ==
  [i \in 1..Len(P) + 1 |-> [j \in 1..Len(C) + 1 |-> Once(P, C, m, i, j)]]

\* One of the values of that.
LEMMA UnfoldedAt ==
  ASSUME NEW P, NEW C, NEW m, NEW i \in 1..Len(P) + 1, NEW j \in 1..Len(C) + 1
  PROVE  Unfolded(P, C, m)[i][j] = Once(P, C, m, i, j)
  BY Zenon DEF Unfolded

\* SegmentMatches solves the equation that defines it, since the cuts do.
LEMMA Unfolds ==
  ASSUME NEW P \in Seq(STRING), NEW C \in Seq(STRING)
  PROVE  SegmentMatches(P, C) = Unfolded(P, C, SegmentMatches(P, C))
  <1> DEFINE m == [i \in 1..Len(P) + 1 |-> [j \in 1..Len(C) + 1 |-> Cut(P, C, i, j)]]
  <1>1. ASSUME NEW i \in 1..Len(P) + 1, NEW j \in 1..Len(C) + 1
        PROVE  m[i][j] <=> Cut(P, C, i, j)
    OBVIOUS
  <1>2. ASSUME NEW i \in 1..Len(P) + 1, NEW j \in 1..Len(C) + 1
        PROVE  Cut(P, C, i, j) <=> Once(P, C, m, i, j)
    <2> HIDE DEF m
    <2>1. CASE i > Len(P)
      <3>1. i = Len(P) + 1
        BY <2>1
      <3>2. Once(P, C, m, i, j) <=> j > Len(C)
        BY <2>1 DEF Once
      <3> QED
        BY <3>1, <3>2, CutEnd
    <2>2. CASE i <= Len(P) /\ P[i] = "**"
      <3>1. i \in 1..Len(P) /\ i + 1 \in 1..Len(P) + 1 /\ ~(i > Len(P))
        BY <2>2
      <3>2. j <= Len(C) => j + 1 \in 1..Len(C) + 1
        OBVIOUS
      <3>3. Once(P, C, m, i, j) <=> m[i + 1][j] \/ (j <= Len(C) /\ m[i][j + 1])
        BY <2>2, <3>1, Zenon DEF Once
      <3>4. (m[i + 1][j] <=> Cut(P, C, i + 1, j))
            /\ (j <= Len(C) => (m[i][j + 1] <=> Cut(P, C, i, j + 1)))
        BY <1>1, <3>1, <3>2, Zenon
      <3> QED
        BY <2>2, <3>1, <3>3, <3>4, CutMany, Zenon
    <2>3. CASE i <= Len(P) /\ P[i] # "**"
      <3>1. i \in 1..Len(P) /\ i + 1 \in 1..Len(P) + 1 /\ ~(i > Len(P))
        BY <2>3
      <3>2. j <= Len(C) => j + 1 \in 1..Len(C) + 1
        OBVIOUS
      <3>3. Once(P, C, m, i, j) <=> j <= Len(C) /\ P[i] \in {"*", C[j]} /\ m[i + 1][j + 1]
        BY <2>3, <3>1, Zenon DEF Once
      <3>4. j <= Len(C) => (m[i + 1][j + 1] <=> Cut(P, C, i + 1, j + 1))
        BY <1>1, <3>1, <3>2, Zenon
      <3> QED
        BY <2>3, <3>1, <3>3, <3>4, CutOne, Zenon
    <2> QED
      BY <2>1, <2>2, <2>3
  <1>3. m = Unfolded(P, C, m)
    <2>1. ASSUME NEW i \in 1..Len(P) + 1, NEW j \in 1..Len(C) + 1
          PROVE  Cut(P, C, i, j) = Once(P, C, m, i, j)
      <3> HIDE DEF m
      <3>1. Cut(P, C, i, j) \in BOOLEAN
        BY DEF Cut
      <3>2. Once(P, C, m, i, j) \in BOOLEAN
        <4>1. CASE i > Len(P)
          BY <4>1 DEF Once
        <4>2. CASE ~(i > Len(P)) /\ P[i] = "**"
          <5>1. Once(P, C, m, i, j) = (m[i + 1][j] \/ (j <= Len(C) /\ m[i][j + 1]))
            BY <4>2, Zenon DEF Once
          <5> QED
            BY <5>1, Zenon
        <4>3. CASE ~(i > Len(P)) /\ P[i] # "**"
          <5>1. Once(P, C, m, i, j) = (j <= Len(C) /\ P[i] \in {"*", C[j]} /\ m[i + 1][j + 1])
            BY <4>3, Zenon DEF Once
          <5> QED
            BY <5>1, Zenon
        <4> QED
          BY <4>1, <4>2, <4>3
      <3> QED
        BY <3>1, <3>2, <1>2
    <2> QED
      BY <2>1, Zenon DEF Unfolded
  <1>4. SegmentMatches(P, C) = CHOOSE f : f = Unfolded(P, C, f)
    BY DEF SegmentMatches, Unfolded, Once
  <1> HIDE DEF m
  <1> QED
    BY <1>3, <1>4

\* matchPathSegments decides whether there is a cut.
LEMMA SegmentsMatch ==
  ASSUME NEW P \in Seq(STRING), NEW C \in Seq(STRING),
         NEW i \in 1..Len(P) + 1, NEW j \in 1..Len(C) + 1
  PROVE  SegmentMatches(P, C)[i][j] <=> Cut(P, C, i, j)
  <1> DEFINE m == SegmentMatches(P, C)
             Left(x, y) == (Len(P) + 1 - x) + (Len(C) + 1 - y)
             T == {n \in Nat : \A x \in 1..Len(P) + 1, y \in 1..Len(C) + 1 :
                                 Left(x, y) <= n => (m[x][y] <=> Cut(P, C, x, y))}
  <1>1. ASSUME NEW x \in 1..Len(P) + 1, NEW y \in 1..Len(C) + 1
        PROVE  m[x][y] <=> Once(P, C, m, x, y)
    <2>1. m[x][y] = Once(P, C, m, x, y)
      BY Unfolds, UnfoldedAt, Zenon
    <2> QED
      BY <2>1, Zenon
  <1> HIDE DEF m
  <1>2. ASSUME NEW n \in Nat,
               \A x \in 1..Len(P) + 1, y \in 1..Len(C) + 1 :
                 Left(x, y) < n => (m[x][y] <=> Cut(P, C, x, y)),
               NEW x \in 1..Len(P) + 1, NEW y \in 1..Len(C) + 1, Left(x, y) <= n
        PROVE  m[x][y] <=> Cut(P, C, x, y)
    <2>1. CASE x > Len(P)
      <3>1. x = Len(P) + 1
        BY <2>1
      <3>2. Once(P, C, m, x, y) <=> y > Len(C)
        BY <2>1 DEF Once
      <3> QED
        BY <1>1, <3>1, <3>2, CutEnd, Zenon
    <2>2. CASE x <= Len(P) /\ P[x] = "**"
      <3>1. x \in 1..Len(P) /\ x + 1 \in 1..Len(P) + 1 /\ ~(x > Len(P)) /\ Left(x + 1, y) < n
        BY <1>2, <2>2
      <3>2. y <= Len(C) => y + 1 \in 1..Len(C) + 1 /\ Left(x, y + 1) < n
        BY <1>2
      <3>3. Once(P, C, m, x, y) <=> m[x + 1][y] \/ (y <= Len(C) /\ m[x][y + 1])
        BY <2>2, <3>1, Zenon DEF Once
      <3>4. (m[x + 1][y] <=> Cut(P, C, x + 1, y))
            /\ (y <= Len(C) => (m[x][y + 1] <=> Cut(P, C, x, y + 1)))
        BY <1>2, <3>1, <3>2, Zenon
      <3> QED
        BY <1>1, <2>2, <3>1, <3>3, <3>4, CutMany, Zenon
    <2>3. CASE x <= Len(P) /\ P[x] # "**"
      <3>1. x \in 1..Len(P) /\ x + 1 \in 1..Len(P) + 1 /\ ~(x > Len(P))
        BY <2>3
      <3>2. y <= Len(C) => y + 1 \in 1..Len(C) + 1 /\ Left(x + 1, y + 1) < n
        BY <1>2, <2>3
      <3>3. Once(P, C, m, x, y) <=> y <= Len(C) /\ P[x] \in {"*", C[y]} /\ m[x + 1][y + 1]
        BY <2>3, <3>1, Zenon DEF Once
      <3>4. y <= Len(C) => (m[x + 1][y + 1] <=> Cut(P, C, x + 1, y + 1))
        BY <1>2, <3>1, <3>2, Zenon
      <3> QED
        BY <1>1, <2>3, <3>1, <3>3, <3>4, CutOne, Zenon
    <2> QED
      BY <2>1, <2>2, <2>3
  <1>3. 0 \in T
    <2>1. \A x \in 1..Len(P) + 1, y \in 1..Len(C) + 1 : ~(Left(x, y) < 0)
      OBVIOUS
    <2> QED
      BY <2>1, <1>2, Zenon
  <1>4. ASSUME NEW n \in T PROVE n + 1 \in T
    <2>1. n \in Nat /\ n + 1 \in Nat
      OBVIOUS
    <2>2. \A x \in 1..Len(P) + 1, y \in 1..Len(C) + 1 : Left(x, y) < n + 1 => Left(x, y) <= n
      BY <2>1
    <2>3. \A x \in 1..Len(P) + 1, y \in 1..Len(C) + 1 :
            Left(x, y) < n + 1 => (m[x][y] <=> Cut(P, C, x, y))
      BY <2>2, Zenon
    <2>4. \A x \in 1..Len(P) + 1, y \in 1..Len(C) + 1 :
            Left(x, y) <= n + 1 => (m[x][y] <=> Cut(P, C, x, y))
      BY <2>1, <2>3, <1>2, Zenon
    <2> QED
      BY <2>1, <2>4
  <1>5. T = Nat
    <2> HIDE DEF T
    <2>1. T \in SUBSET Nat
      BY DEF T
    <2> QED
      BY <2>1, <1>3, <1>4, NatInd
  <1>6. Left(i, j) \in Nat
    OBVIOUS
  <1>7. m[i][j] <=> Cut(P, C, i, j)
    <2>1. Left(i, j) <= Left(i, j)
      BY <1>6
    <2>2. Left(i, j) \in T
      BY <1>5, <1>6
    <2> QED
      BY <2>1, <2>2, Zenon
  <1> QED
    BY <1>7, Zenon DEF m

\* The largest of a bounded set of naturals.
LEMMA MaxIs ==
  ASSUME NEW S \in SUBSET Nat, S # {}, NEW b \in Nat, \A x \in S : x <= b
  PROVE  Max(S) \in S /\ \A x \in S : x <= Max(S)
  <1> DEFINE U == {u \in Nat : \A x \in S : x <= u}
  <1>1. PICK u \in U : \A k \in U : u <= k
    <2>1. b \in U
      OBVIOUS
    <2> QED
      BY <2>1, LeastNatural
  <1>2. u \in S
    <2>1. SUFFICES ASSUME u \notin S PROVE FALSE
      OBVIOUS
    <2>2. \A x \in S : x < u
      BY <2>1, <1>1
    <2>3. PICK y \in S : y < u
      BY <2>2
    <2>4. u - 1 \in U
      BY <2>2, <2>3, <1>1
    <2> QED
      BY <2>4, <1>1
  <1>3. \A x \in S : u >= x
    BY <1>1
  <1>4. \A x \in S : Max(S) >= x
    BY <1>2, <1>3 DEF Max
  <1>5. Max(S) \in S
    BY <1>2, <1>3 DEF Max
  <1> QED
    BY <1>4, <1>5

\* The smallest of a set of naturals.
LEMMA MinIs ==
  ASSUME NEW S \in SUBSET Nat, S # {}
  PROVE  Min(S) \in S /\ \A x \in S : Min(S) <= x
  <1>1. PICK m \in S : \A x \in S : m <= x
    BY LeastNatural
  <1> QED
    BY <1>1 DEF Min

\* pathSegments keeps texts.
LEMMA PathSegmentsType ==
  ASSUME NEW p \in Seq(STRING)
  PROVE  PathSegments(p) \in Seq(STRING)
  <1> DEFINE full == {i \in 1..Len(p) : p[i] # ""}
  <1>1. Len(p) \in Nat /\ DOMAIN p = 1..Len(p) /\ \A i \in 1..Len(p) : p[i] \in STRING
    OBVIOUS
  <1>2. PathSegments(p) = IF full = {} THEN <<>> ELSE SubSeq(p, Min(full), Max(full))
    BY <1>1 DEF PathSegments
  <1>3. full \subseteq 1..Len(p)
    OBVIOUS
  <1> HIDE DEF full
  <1>4. CASE full = {}
    BY <1>2, <1>4
  <1>5. CASE full # {}
    <2>1. Min(full) \in 1..Len(p) /\ Max(full) \in 1..Len(p)
      <3>1. full \in SUBSET Nat /\ \A i \in full : i <= Len(p)
        BY <1>1, <1>3
      <3> QED
        BY <1>1, <1>3, <1>5, <3>1, MinIs, MaxIs
    <2>2. \A i \in Min(full)..Max(full) : p[i] \in STRING
      BY <1>1, <2>1
    <2>3. SubSeq(p, Min(full), Max(full)) \in Seq(STRING)
      BY <2>1, <2>2, SubSeqProperties
    <2> QED
      BY <1>2, <1>5, <2>3
  <1> QED
    BY <1>4, <1>5

\* matchPathSegments agrees with the definition by cuts.
LEMMA PatternsMatch ==
  ASSUME NEW p \in Seq(STRING), NEW c \in Seq(STRING)
  PROVE  MatchPathSegments(PathSegments(p), PathSegments(c)) <=> PathMatches(p, c)
  <1> DEFINE P == PathSegments(p)
             C == PathSegments(c)
  <1>1. P \in Seq(STRING) /\ C \in Seq(STRING)
    BY PathSegmentsType
  <1>2. PathMatches(p, c) <=> \E cut \in Cuts(P, C) :
           /\ cut[0] = 0 /\ cut[Len(P)] = Len(C)
           /\ \A i \in DOMAIN P : Part(P, C, cut, i)
    BY Zenon DEF PathMatches, Part, Cuts
  <1> HIDE DEF P, C
  <1>3. \A cut : CutFrom(P, C, 1, 1, cut) <=>
           /\ cut[0] = 0 /\ cut[Len(P)] = Len(C)
           /\ \A i \in DOMAIN P : Part(P, C, cut, i)
    BY <1>1 DEF CutFrom
  <1>4. PathMatches(p, c) <=> Cut(P, C, 1, 1)
    BY <1>2, <1>3, Zenon DEF Cut
  <1>5. 1 \in 1..Len(P) + 1 /\ 1 \in 1..Len(C) + 1
    BY <1>1
  <1> QED
    BY <1>1, <1>4, <1>5, SegmentsMatch, Zenon DEF MatchPathSegments, P, C

-----------------------------------------------------------------------------
(* The reasons for which a call may be refused. *)

\* validateHTTPInputDefault lets pass only what validateInputValue does.
LEMMA DefaultsAreValues ==
  ASSUME NEW input, InputOK(input), input.default # Null
  PROVE  ValueOK(input, input.default)
  <1> DEFINE v == input.default
  <1>1. SUFFICES ASSUME NEW k \in 0..Len(input.items),
                        NEW p \in {q \in DOMAIN v : Len(q) = k}
                 PROVE  IF v[p].kind = "null" THEN Level(input, k).type = ""
                        ELSE NodeOK(Level(input, k), v[p])
    BY DEF ValueOK
  <1>2. DeclarationOK(Level(input, k))
    <2>1. CASE k = 0
      BY <2>1 DEF InputOK, Level
    <2>2. CASE k # 0
      <3>1. k \in 1..Len(input.items)
        BY <2>2
      <3> QED
        BY <3>1 DEF InputOK
    <2> QED
      BY <2>1, <2>2
  <1>3. DefaultOK(input, v)
    BY DEF InputOK, DeclarationOK
  <1>4. NodeOK(Level(input, k), v[p])
    BY <1>3 DEF DefaultOK
  <1>5. Level(input, k).type \in InputTypes
    BY <1>2 DEF DeclarationOK
  <1>6. v[p].kind = "null" => Level(input, k).type = ""
    BY <1>4, <1>5 DEF NodeOK, HasType, InputTypes
  <1> QED
    BY <1>4, <1>6

\* An input that is always present has a value once its default is filled in.
LEMMA PresentInEffective ==
  ASSUME NEW tool, NEW args, ArgumentFaults(tool, args) = {},
         NEW n \in DOMAIN tool.inputs, AlwaysPresent(tool.inputs[n])
  PROVE  n \in DOMAIN Effective(tool, args)
  <1> DEFINE effective == Effective(tool, args)
  <1>1. tool.inputs[n].required => n \in DOMAIN effective
    <2>1. ~ \E m \in DOMAIN tool.inputs \ DOMAIN effective : tool.inputs[m].required
      BY Zenon DEF ArgumentFaults
    <2> QED
      BY <2>1
  <1>2. tool.inputs[n].default # Null => n \in DOMAIN effective
    BY Zenon DEF Effective
  <1> QED
    BY <1>1, <1>2 DEF AlwaysPresent

Whys == {"missing", "deep", "required", "invalid"}

\* renderTemplate misses nothing in a template that the validator accepts.
LEMMA TemplatesRender ==
  ASSUME NEW t, NEW inputs, TemplateOK(t, inputs), NEW args,
         \A n \in DOMAIN inputs : AlwaysPresent(inputs[n]) => n \in DOMAIN args
  PROVE  Faults(t, args) \cap Whys = {}
  <1>1. SUFFICES ASSUME NEW p \in DOMAIN t PROVE FaultsAt(t, args, p) \cap Whys = {}
    BY DEF Faults, Visited
  <1>2. DepthOK(p)
    BY DEF TemplateOK
  <1> DEFINE node == t[p]
             named == IF node.tag = "format" THEN node.names ELSE {}
  <1>3. ~(node.tag = "arg" /\ ~Supplied(node, args) /\ ~HasDefault(t, p) /\ ~node.omit)
    BY DEF TemplateOK, Supplied
  <1>4. named \ DOMAIN args = {}
    BY DEF TemplateOK
  <1>5. FaultsAt(t, args, p) \subseteq {"argument too deep", "not a scalar"}
    BY <1>2, <1>3, <1>4, Zenon DEF FaultsAt
  <1> QED
    BY <1>5 DEF Whys

\* A fault for another reason.
LEMMA OtherWhy ==
  ASSUME NEW why, NEW name, NEW f, f = Fault(why, name), why \notin Whys
  PROVE  f.why \notin Whys
  BY DEF Fault

AllRender(templates, args) == \A n \in DOMAIN templates : Faults(templates[n], args) \cap Whys = {}

\* Queries and headers never lack an argument.
LEMMA RenderReasons ==
  ASSUME NEW templates, NEW args, NEW place, AllRender(templates, args),
         NEW f \in RenderFaults(templates, args, place)
  PROVE  f.why \notin Whys
  <1>1. PICK n \in DOMAIN templates :
          \/ f \in FaultsIn(Faults(templates[n], args), n)
          \/ f = Fault("not a scalar", "")
    BY DEF RenderFaults, Unless
  <1>2. f = Fault("not a scalar", "") => f.why \notin Whys
    BY OtherWhy DEF Whys
  <1>3. ASSUME f \in FaultsIn(Faults(templates[n], args), n) PROVE f.why \notin Whys
    <2>1. PICK why \in Faults(templates[n], args) : f = Fault(why, n)
      BY <1>3 DEF FaultsIn
    <2>2. why \notin Whys
      BY DEF AllRender
    <2> QED
      BY <2>1, <2>2 DEF Fault
  <1> QED
    BY <1>1, <1>2, <1>3

\* Nor does the body.
LEMMA BodyReasons ==
  ASSUME NEW tool, NEW args,
         \A body \in tool.body : Faults(body.template, args) \cap Whys = {},
         NEW f \in BodyFaults(tool, args)
  PROVE  f.why \notin Whys
  <1>1. PICK body \in tool.body :
          \/ f \in FaultsIn(Faults(body.template, args), "body")
          \/ f = Fault("omitted", "body")
          \/ f = Fault("unsupported body", "")
    BY DEF BodyFaults, EncodeFaults, Unless
  <1>2. ASSUME f \in FaultsIn(Faults(body.template, args), "body") PROVE f.why \notin Whys
    <2>1. PICK why \in Faults(body.template, args) : f = Fault(why, "body")
      BY <1>2 DEF FaultsIn
    <2> QED
      BY <2>1 DEF Fault
  <1> QED
    BY <1>1, <1>2, OtherWhy DEF Whys

\* Nor does the path, since placeholders are of required inputs.
LEMMA PathReasons ==
  ASSUME NEW tool, NEW args, ToolPathOK(tool),
         \A n \in DOMAIN tool.inputs : AlwaysPresent(tool.inputs[n]) => n \in DOMAIN args,
         NEW f \in PathFaults(tool, args), IsTool(tool)
  PROVE  f.why \notin Whys
  <1> DEFINE failing == {i \in DOMAIN tool.path : SegmentFaults(tool.path[i], args) # {}}
  <1>1. f \in SegmentFaults(tool.path[Min(failing)], args) /\ failing # {}
    BY Zenon DEF PathFaults
  <1>2. Min(failing) \in DOMAIN tool.path
    <2>1. failing \in SUBSET Nat /\ failing \subseteq DOMAIN tool.path
      BY DEF IsTool
    <2> HIDE DEF failing
    <2> QED
      BY <1>1, <2>1, MinIs
  <1> HIDE DEF failing
  <1> DEFINE segment == tool.path[Min(failing)]
  <1>3. segment.tag = "fixed" \/ segment.name \in DOMAIN args
    BY <1>2 DEF ToolPathOK, AlwaysPresent
  <1>4. f = Fault("segment", segment.name)
    BY <1>1, <1>3, Zenon DEF SegmentFaults
  <1> QED
    BY <1>4 DEF Fault, Whys

\* What validateHTTPTool lets pass makes compileTypedRequest refuse only arguments.
LEMMA TypedReasons ==
  ASSUME NEW tool, ToolOK(tool), NEW args, NEW f \in TypedFaults(tool, args)
  PROVE  /\ f.why \notin {"missing", "deep"}
         /\ f.why = "invalid" =>
              /\ f.name \in DOMAIN args \cap DOMAIN tool.inputs
              /\ ~ValueOK(tool.inputs[f.name], args[f.name])
         /\ f.why = "required" =>
              /\ f.name \in DOMAIN tool.inputs \ DOMAIN args
              /\ tool.inputs[f.name].required
              /\ tool.inputs[f.name].default = Null
  <1> DEFINE effective == Effective(tool, args)
  <1>1. ASSUME ArgumentFaults(tool, args) = {},
               \/ f \in PathFaults(tool, effective)
               \/ f \in RenderFaults(tool.query, effective, "query")
               \/ f \in RenderFaults(tool.headers, effective, "header")
               \/ f \in BodyFaults(tool, effective)
        PROVE  f.why \notin Whys
    <2>1. \A n \in DOMAIN tool.inputs : AlwaysPresent(tool.inputs[n]) => n \in DOMAIN effective
      BY <1>1, PresentInEffective
    <2> HIDE DEF effective
    <2>2. AllRender(tool.query, effective) /\ AllRender(tool.headers, effective)
      BY <2>1, TemplatesRender DEF ToolOK, AllRender
    <2>3. \A body \in tool.body : Faults(body.template, effective) \cap Whys = {}
      BY <2>1, TemplatesRender DEF ToolOK
    <2>4. ToolPathOK(tool) /\ IsTool(tool)
      BY DEF ToolOK
    <2>5. CASE f \in PathFaults(tool, effective)
      BY <2>1, <2>4, <2>5, PathReasons
    <2>6. CASE f \in RenderFaults(tool.query, effective, "query")
      BY <2>2, <2>6, RenderReasons
    <2>7. CASE f \in RenderFaults(tool.headers, effective, "header")
      BY <2>2, <2>7, RenderReasons
    <2>8. CASE f \in BodyFaults(tool, effective)
      BY <2>3, <2>8, BodyReasons
    <2> QED
      BY <1>1, <2>5, <2>6, <2>7, <2>8
  <1>2. ASSUME f \in ArgumentFaults(tool, args)
        PROVE  \/ f.why = "unknown"
               \/ /\ f.why = "required"
                  /\ f.name \in DOMAIN tool.inputs \ DOMAIN effective
                  /\ tool.inputs[f.name].required
               \/ /\ f.why = "invalid"
                  /\ f.name \in DOMAIN effective
                  /\ ~ValueOK(tool.inputs[f.name], effective[f.name])
    BY <1>2 DEF ArgumentFaults, Fault
  <1>3. ASSUME f \in ArgumentFaults(tool, args)
        PROVE  DOMAIN args \subseteq DOMAIN tool.inputs \/ f.why = "unknown"
    BY <1>3 DEF ArgumentFaults, Fault
  <1>4. \A n \in DOMAIN effective :
          \/ n \in DOMAIN args /\ effective[n] = args[n]
          \/ /\ n \in DOMAIN tool.inputs \ DOMAIN args
             /\ tool.inputs[n].default # Null
             /\ effective[n] = tool.inputs[n].default
    BY DEF Effective
  <1>5. \A n \in DOMAIN tool.inputs \ DOMAIN effective :
          n \notin DOMAIN args /\ tool.inputs[n].default = Null
    BY DEF Effective
  <1>6. \A n \in DOMAIN tool.inputs :
          tool.inputs[n].default # Null => ValueOK(tool.inputs[n], tool.inputs[n].default)
    BY DefaultsAreValues DEF ToolOK
  <1> HIDE DEF effective
  <1>7. CASE f \in ArgumentFaults(tool, args)
    BY <1>2, <1>3, <1>4, <1>5, <1>6, <1>7
  <1>8. CASE f.why \notin Whys
    BY <1>8 DEF Whys
  <1>9. f \in ArgumentFaults(tool, args) \/ f.why \notin Whys
    <2>1. \/ f \in ArgumentFaults(tool, args)
          \/ /\ ArgumentFaults(tool, args) = {}
             /\ \/ f \in PathFaults(tool, effective)
                \/ f \in RenderFaults(tool.query, effective, "query")
                \/ f \in RenderFaults(tool.headers, effective, "header")
                \/ f \in BodyFaults(tool, effective)
      BY DEF TypedFaults, OrElse, effective
    <2> QED
      BY <1>1, <2>1
  <1> QED
    BY <1>7, <1>8, <1>9

\* Raw calls are refused for other reasons.
LEMMA RawReasons ==
  ASSUME NEW raw, NEW args, NEW f \in RawFaults(raw, args)
  PROVE  f.why \notin Whys
  <1>1. f \in {Fault("method", ""), Fault("malformed path", ""), Fault("path", ""),
               Fault("query", ""), Fault("header", ""), Fault("type without body", ""),
               Fault("unsupported body", "")}
    BY DEF RawFaults, OrElse, Unless, EncodeFaults
  <1> QED
    BY <1>1, OtherWhy DEF Whys

\* So are requests.
LEMMA PolicyReasons ==
  ASSUME NEW p, NEW method, NEW type, NEW size, NEW f \in RequestFaults(p, method, type, size)
  PROVE  f.why \notin Whys
  <1>1. f \in {Fault("too large", ""), Fault("content type", ""), Fault("body not allowed", "")}
    BY DEF RequestFaults, OrElse, Unless
  <1> QED
    BY <1>1, OtherWhy DEF Whys

\* renderTypedPath makes one segment of each placeholder.
LEMMA SegmentsAreOne ==
  ASSUME NEW tool, ToolOK(tool), NEW args, PathFaults(tool, args) = {},
         NEW i \in DOMAIN tool.path
  PROVE  /\ Segment(tool.path[i], args) \notin {".", ".."}
         /\ IF tool.path[i].tag = "fixed" THEN Segment(tool.path[i], args) = tool.path[i].text
            ELSE Segment(tool.path[i], args) \notin {"", "a/b"}
  <1> DEFINE failing == {k \in DOMAIN tool.path : SegmentFaults(tool.path[k], args) # {}}
             segment == tool.path[i]
  <1>1. failing = {}
    <2>1. SUFFICES ASSUME failing # {} PROVE FALSE
      OBVIOUS
    <2>2. failing \in SUBSET Nat
      BY DEF ToolOK, IsTool
    <2>3. SegmentFaults(tool.path[Min(failing)], args) = {}
      BY <2>1, Zenon DEF PathFaults
    <2>4. Min(failing) \in failing
      <3> HIDE DEF failing
      <3> QED
        BY <2>1, <2>2, MinIs
    <2> QED
      BY <2>3, <2>4
  <1>2. SegmentFaults(segment, args) = {}
    BY <1>1
  <1>3. SegmentAccepted(segment, args)
    BY <1>2, Zenon DEF SegmentFaults
  <1>4. segment \in Segments
    BY DEF ToolOK, IsTool
  <1> HIDE DEF segment
  <1>5. CASE segment.tag = "fixed"
    <2>1. ~Traverses(tool.path[i].text)
      BY <1>5 DEF ToolOK, ToolPathOK, segment
    <2> QED
      BY <1>5, <2>1 DEF Segment, Traverses, segment
  <1>6. CASE segment.tag = "placeholder"
    <2>1. OneSegment(Decimal(args[segment.name]))
      BY <1>3, <1>6 DEF SegmentAccepted
    <2> QED
      BY <1>6, <2>1 DEF Segment, OneSegment, segment
  <1> QED
    BY <1>4, <1>5, <1>6 DEF Segments

\* canonicalizeRawPath and the allowlist.
LEMMA RawPathsMatch ==
  ASSUME NEW raw, RawOK(raw), NEW args, args.path \in Seq(STRING), RawFaults(raw, args) = {}
  PROVE  /\ \A i \in DOMAIN args.path : args.path[i] \notin {".", ".."}
         /\ \E p \in raw.paths : PathMatches(p, args.path)
  <1>1. PathAccepted(args.path) /\ MatchesAnyPath(raw.paths, args.path)
    BY DEF RawFaults, OrElse, Unless
  <1>2. PICK p \in raw.paths : MatchPathSegments(PathSegments(p), PathSegments(args.path))
    BY <1>1 DEF MatchesAnyPath
  <1>3. PathMatches(p, args.path)
    BY <1>2, PatternsMatch DEF RawOK, IsRaw
  <1> QED
    BY <1>1, <1>3 DEF PathAccepted, Traverses

-----------------------------------------------------------------------------
(* Command lines. *)

\* The equation that Reading solves.
ReadOf(line, g) ==
  [k \in 0..Len(line) |-> IF k = 0 THEN Unparsed ELSE Read(g[k - 1], line[k])]

\* The parser reads one token after the other.
LEMMA ReadingIs ==
  ASSUME NEW line, Len(line) \in Nat
  PROVE  /\ Reading(line)[0] = Unparsed
         /\ \A n \in 1..Len(line) : Reading(line)[n] = Read(Reading(line)[n - 1], line[n])
  <1> DEFINE Reads(n, g) ==
               g = [k \in 0..n |-> IF k = 0 THEN Unparsed ELSE Read(g[k - 1], line[k])]
             T == {n \in Nat : \E g : Reads(n, g)}
  <1>1. 0 \in T
    <2> DEFINE g == [k \in 0..0 |-> Unparsed]
    <2>1. Reads(0, g)
      OBVIOUS
    <2> QED
      BY <2>1
  <1>2. ASSUME NEW n \in T PROVE n + 1 \in T
    <2>1. PICK g : Reads(n, g)
      OBVIOUS
    <2> DEFINE h == [k \in 0..n + 1 |-> IF k = n + 1 THEN Read(g[n], line[n + 1]) ELSE g[k]]
    <2>2. n \in Nat
      OBVIOUS
    <2>3. \A k \in 0..n + 1 : h[k] = IF k = 0 THEN Unparsed ELSE Read(h[k - 1], line[k])
      <3> SUFFICES ASSUME NEW k \in 0..n + 1
                   PROVE  h[k] = IF k = 0 THEN Unparsed ELSE Read(h[k - 1], line[k])
        OBVIOUS
      <3>1. CASE k = n + 1
        <4>1. k - 1 = n /\ k - 1 \in 0..n + 1 /\ k # 0 /\ k - 1 # n + 1
          BY <2>2, <3>1
        <4> QED
          BY <3>1, <4>1
      <3>2. CASE k # n + 1
        <4>1. k \in 0..n
          BY <2>2, <3>2
        <4>2. g[k] = IF k = 0 THEN Unparsed ELSE Read(g[k - 1], line[k])
          BY <2>1, <4>1
        <4>3. k # 0 => k - 1 \in 0..n + 1 /\ k - 1 # n + 1
          BY <2>2, <4>1
        <4> QED
          BY <3>2, <4>2, <4>3
      <3> QED
        BY <3>1, <3>2
    <2>4. Reads(n + 1, h)
      BY <2>3
    <2>5. n + 1 \in Nat
      BY <2>2
    <2> QED
      BY <2>4, <2>5, Zenon
  <1>3. T = Nat
    <2> HIDE DEF T
    <2>1. T \in SUBSET Nat
      BY DEF T
    <2> QED
      BY <2>1, <1>1, <1>2, NatInd
  <1>4. \E g : g = ReadOf(line, g)
    BY <1>3 DEF ReadOf
  <1>5. Reading(line) = CHOOSE g : g = ReadOf(line, g)
    BY DEF Reading, ReadOf
  <1>6. Reading(line) = ReadOf(line, Reading(line))
    BY <1>4, <1>5
  <1>7. ASSUME NEW g, g = ReadOf(line, g), NEW n \in 0..Len(line)
        PROVE  g[n] = IF n = 0 THEN Unparsed ELSE Read(g[n - 1], line[n])
    BY <1>7 DEF ReadOf
  <1> QED
    BY <1>6, <1>7

Options == {"server", "tool"}

\* The variables of parseCallArgs.
Finding ==
  [selected : [Options -> Tokens], rest : Seq(Tokens), help : BOOLEAN,
   wants : {None} \cup Options, through : BOOLEAN]

\* The names of the flags among the first n tokens.
Flags(tokens, n) == {tokens[i].name : i \in {j \in 1..n : IsFlag(tokens[j])}}

\* The names of the flags among the first n tokens of a line that are not the command's own.
ForTheTool(line, n) ==
  {line[i].name : i \in {j \in 1..n : /\ j # SeparatorAt(line)
                                      /\ IsFlag(line[j])
                                      /\ ~(j < SeparatorAt(line) /\ Own(line[j]))}}

\* parseCallArgs begins with nothing found.
LEMMA UnparsedIs == Unparsed \in Finding /\ Flags(Unparsed.rest, Len(Unparsed.rest)) = {}
  <1>1. Word("") \in Tokens
    <2>1. None \in STRING \cup {None} /\ "" \in STRING \cup {None}
      BY CommandAssumption, Zenon
    <2> QED
      BY <2>1 DEF Word, Given, Tokens
  <1>2. [which \in {"server", "tool"} |-> Word("")] \in [Options -> Tokens]
    BY <1>1 DEF Options
  <1>3. <<>> \in Seq(Tokens) /\ None \in {None} \cup Options /\ FALSE \in BOOLEAN
    OBVIOUS
  <1>4. Unparsed \in Finding
    BY <1>2, <1>3, Zenon DEF Unparsed, Finding
  <1>5. Unparsed.rest = <<>>
    BY DEF Unparsed
  <1>6. Flags(<<>>, Len(<<>>)) = {}
    BY DEF Flags
  <1> QED
    BY <1>4, <1>5, <1>6

\* The separator is the first of its kind, or none is.
LEMMA SeparatorIs ==
  ASSUME NEW line \in Seq(Tokens)
  PROVE  /\ SeparatorAt(line) \in 1..Len(line) + 1
         /\ \A i \in 1..SeparatorAt(line) - 1 : line[i] # Separator
         /\ SeparatorAt(line) <= Len(line) => line[SeparatorAt(line)] = Separator
  <1> DEFINE S == {i \in 1..Len(line) : line[i] = Separator} \cup {Len(line) + 1}
  <1>1. SeparatorAt(line) = Min(S)
    <2>1. DOMAIN line = 1..Len(line)
      OBVIOUS
    <2> QED
      BY <2>1 DEF SeparatorAt
  <1>2. S \in SUBSET Nat /\ S # {} /\ S \subseteq 1..Len(line) + 1 /\ Len(line) + 1 \in S
    OBVIOUS
  <1>3. Min(S) \in S /\ \A x \in S : Min(S) <= x
    <2> HIDE DEF S
    <2> QED
      BY <1>2, MinIs
  <1>4. SeparatorAt(line) \in S /\ \A x \in S : SeparatorAt(line) <= x
    BY <1>1, <1>3
  <1>5. \A x : x \in S <=> (x \in 1..Len(line) /\ line[x] = Separator) \/ x = Len(line) + 1
    OBVIOUS
  <1> HIDE DEF S
  <1>6. Len(line) \in Nat
    OBVIOUS
  <1>7. SeparatorAt(line) \in 1..Len(line) + 1
    BY <1>2, <1>4
  <1>8. ASSUME NEW i \in 1..SeparatorAt(line) - 1 PROVE line[i] # Separator
    <2>1. i \in 1..Len(line) /\ ~(SeparatorAt(line) <= i)
      BY <1>6, <1>7
    <2> QED
      BY <1>4, <1>5, <2>1
  <1>9. SeparatorAt(line) <= Len(line) => line[SeparatorAt(line)] = Separator
    <2>1. SeparatorAt(line) <= Len(line) => SeparatorAt(line) # Len(line) + 1
      BY <1>6, <1>7
    <2> QED
      BY <1>4, <1>5, <2>1
  <1> QED
    BY <1>7, <1>8, <1>9

\* One more token, a flag or not.
LEMMA FlagsAppend ==
  ASSUME NEW rest \in Seq(Tokens), NEW token \in Tokens
  PROVE  Flags(Append(rest, token), Len(Append(rest, token))) =
           Flags(rest, Len(rest)) \cup {token.name : x \in {y \in {token} : IsFlag(token)}}
  <1>1. /\ Len(Append(rest, token)) = Len(rest) + 1
        /\ \A i \in 1..Len(rest) : Append(rest, token)[i] = rest[i]
        /\ Append(rest, token)[Len(rest) + 1] = token
        /\ Len(rest) \in Nat
    BY AppendProperties
  <1> DEFINE more == Append(rest, token)
  <1> HIDE DEF more
  <1>2. ASSUME NEW x PROVE x \in Flags(more, Len(rest) + 1) <=>
                             x \in Flags(rest, Len(rest)) \/ (x = token.name /\ IsFlag(token))
    <2>1. x \in Flags(more, Len(rest) + 1) <=>
            \E i \in 1..Len(rest) + 1 : IsFlag(more[i]) /\ x = more[i].name
      BY DEF Flags
    <2>2. x \in Flags(rest, Len(rest)) <=>
            \E i \in 1..Len(rest) : IsFlag(rest[i]) /\ x = rest[i].name
      BY DEF Flags
    <2> QED
      BY <1>1, <2>1, <2>2 DEF more
  <1> QED
    BY <1>1, <1>2 DEF more

\* The same, for what is for the tool.
LEMMA ForTheToolNext ==
  ASSUME NEW line \in Seq(Tokens), NEW n \in 1..Len(line)
  PROVE  ForTheTool(line, n) =
           ForTheTool(line, n - 1) \cup
             {line[n].name : x \in {y \in {n} : /\ n # SeparatorAt(line)
                                                /\ IsFlag(line[n])
                                                /\ ~(n < SeparatorAt(line) /\ Own(line[n]))}}
  <1> DEFINE Kept(j) == /\ j # SeparatorAt(line)
                        /\ IsFlag(line[j])
                        /\ ~(j < SeparatorAt(line) /\ Own(line[j]))
  <1>1. \A x : x \in ForTheTool(line, n) <=> \E j \in 1..n : Kept(j) /\ x = line[j].name
    BY Zenon DEF ForTheTool
  <1>2. \A x : x \in ForTheTool(line, n - 1) <=> \E j \in 1..n - 1 : Kept(j) /\ x = line[j].name
    BY Zenon DEF ForTheTool
  <1>3. \A j : j \in 1..n <=> j \in 1..n - 1 \/ j = n
    OBVIOUS
  <1> HIDE DEF Kept
  <1>4. \A x : x \in ForTheTool(line, n) <=>
                 x \in ForTheTool(line, n - 1) \/ (Kept(n) /\ x = line[n].name)
    BY <1>1, <1>2, <1>3, Zenon
  <1> QED
    BY <1>4, Zenon DEF Kept

\* What parseCallArgs has found when n tokens are read.
Follows(line, n, found) ==
  /\ found \in Finding
  /\ found.through <=> SeparatorAt(line) <= n
  /\ found.wants # None => n >= 1 /\ n < SeparatorAt(line) /\ line[n] \in Selectors
  /\ Flags(found.rest, Len(found.rest)) = ForTheTool(line, n)

\* A token is kept.
LEMMA KeptIs ==
  ASSUME NEW found \in Finding, NEW token \in Tokens
  PROVE  [found EXCEPT !.rest = Append(@, token)] \in Finding
  <1>1. Append(found.rest, token) \in Seq(Tokens)
    BY DEF Finding
  <1> QED
    BY <1>1 DEF Finding

\* An option of the command is not kept, and no other token is one.
LEMMA OptionIs ==
  ASSUME NEW found \in Finding, NEW token \in Tokens, found.wants = None
  PROVE  LET read == ReadOption(found, token)
         IN  /\ read \in Finding
             /\ read.through = found.through
             /\ read.wants # None => token \in Selectors
             /\ read.rest = IF Own(token) THEN found.rest ELSE Append(found.rest, token)
  <1> DEFINE read == ReadOption(found, token)
  <1>1. token.name \in STRING \cup {None} /\ token.text \in STRING \cup {None}
    BY DEF Tokens
  <1>2. CASE token \in Selectors
    <2>1. token.name \in Options
      BY <1>2 DEF Selectors, Flag, Given, Options
    <2>2. read = [found EXCEPT !.wants = token.name]
      BY <1>2 DEF ReadOption
    <2>3. Own(token)
      BY <2>1 DEF Own, Options
    <2> QED
      BY <1>2, <2>1, <2>2, <2>3 DEF Finding
  <1>3. CASE token \notin Selectors /\ token.name \in {"server", "tool"}
    <2>1. read = [found EXCEPT !.selected[token.name] = Word(token.text)]
      BY <1>3 DEF ReadOption
    <2>2. Word(token.text) \in Tokens
      BY <1>1 DEF Word, Given, Tokens
    <2>3. Own(token)
      BY <1>3 DEF Own
    <2> QED
      BY <1>3, <2>1, <2>2, <2>3 DEF Finding, Options
  <1>4. CASE token \notin Selectors /\ token.name \notin {"server", "tool"}
    <2>1. CASE token = Flag("help")
      <3>1. read = [found EXCEPT !.help = TRUE]
        BY <1>4, <2>1 DEF ReadOption
      <3>2. Own(token)
        BY <2>1 DEF Own
      <3> QED
        BY <3>1, <3>2 DEF Finding
    <2>2. CASE token # Flag("help") /\ token \in JSON
      <3>1. read = found
        BY <1>4, <2>2 DEF ReadOption
      <3>2. Own(token)
        BY <2>2 DEF Own
      <3> QED
        BY <3>1, <3>2
    <2>3. CASE token # Flag("help") /\ token \notin JSON
      <3>1. read = [found EXCEPT !.rest = Append(@, token)]
        BY <1>4, <2>3 DEF ReadOption
      <3>2. ~Own(token)
        BY <1>4, <2>3 DEF Own
      <3>3. read \in Finding
        BY <3>1, KeptIs
      <3>4. read.through = found.through /\ read.wants = found.wants
            /\ read.rest = Append(found.rest, token)
        BY <3>1 DEF Finding
      <3> QED
        BY <3>2, <3>3, <3>4
    <2> QED
      BY <2>1, <2>2, <2>3
  <1> QED
    BY <1>2, <1>3, <1>4

\* One more token.
LEMMA ReadFollows ==
  ASSUME NEW line \in Seq(Tokens), Clear(line), NEW n \in 1..Len(line),
         NEW found, Follows(line, n - 1, found)
  PROVE  Follows(line, n, Read(found, line[n]))
  <1> DEFINE token == line[n]
             S == SeparatorAt(line)
             read == Read(found, token)
             mine == {token.name : x \in {y \in {n} : /\ n # S
                                                      /\ IsFlag(token)
                                                      /\ ~(n < S /\ Own(token))}}
             flags == {token.name : x \in {y \in {token} : IsFlag(token)}}
  <1>1. token \in Tokens
    OBVIOUS
  <1>2. /\ S \in 1..Len(line) + 1
        /\ \A i \in 1..S - 1 : line[i] # Separator
        /\ S <= Len(line) => line[S] = Separator
    BY SeparatorIs
  <1>3. Len(line) \in Nat /\ n \in Nat /\ n >= 1 /\ n <= Len(line) /\ S \in Nat
    BY <1>2
  <1>4. ForTheTool(line, n) = ForTheTool(line, n - 1) \cup mine
    BY ForTheToolNext
  <1>5. found \in Finding /\ found.rest \in Seq(Tokens) /\ found.through \in BOOLEAN
    BY DEF Follows, Finding
  <1>6. Flags(Append(found.rest, token), Len(Append(found.rest, token))) =
          Flags(found.rest, Len(found.rest)) \cup flags
    BY <1>1, <1>5, FlagsAppend
  <1>7. Flags(found.rest, Len(found.rest)) = ForTheTool(line, n - 1)
    BY DEF Follows
  <1>8. (found.through <=> S <= n - 1)
        /\ (found.wants # None => n - 1 >= 1 /\ n - 1 < S /\ line[n - 1] \in Selectors)
    BY DEF Follows
  <1>9. /\ IsFlag(Separator)
        /\ IsFlag(token) => flags = {token.name}
        /\ ~IsFlag(token) => flags = {}
    BY CommandAssumption DEF IsFlag, Separator, Flag, Given
  <1>10. n = S \/ ~IsFlag(token) \/ (n < S /\ Own(token)) => mine = {}
    OBVIOUS
  <1>11. n # S /\ IsFlag(token) /\ ~(n < S /\ Own(token)) => mine = {token.name}
    OBVIOUS
  <1> HIDE DEF mine, flags, S, token, read
  <1>12. CASE found.through
    <2>1. read = [found EXCEPT !.rest = Append(@, token)]
      BY <1>12 DEF Read, read
    <2>2. read \in Finding
      BY <1>1, <1>5, <2>1, KeptIs
    <2>3. read.through /\ read.wants = found.wants /\ read.rest = Append(found.rest, token)
      BY <1>5, <1>12, <2>1 DEF Finding
    <2>4. S <= n /\ n # S /\ ~(n < S) /\ found.wants = None
      BY <1>3, <1>8, <1>12
    <2>5. flags = mine
      BY <1>9, <1>10, <1>11, <2>4
    <2> QED
      BY <1>4, <1>6, <1>7, <2>2, <2>3, <2>4, <2>5 DEF Follows, S, token, read
  <1>13. CASE ~found.through /\ found.wants # None
    <2>1. n - 1 >= 1 /\ n - 1 < S /\ line[n - 1] \in Selectors
      BY <1>8, <1>13
    <2>2. n - 1 \in 1..S - 1 /\ (n - 1) + 1 = n
      BY <1>3, <2>1
    <2>3. ~IsFlag(token)
      BY <2>1, <2>2 DEF Clear, S, token
    <2>4. n # S
      BY <1>2, <1>3, <1>9, <2>3 DEF token
    <2>5. n < S /\ ~(S <= n)
      BY <1>3, <2>1, <2>4
    <2>6. read = [found EXCEPT !.selected[found.wants] = token, !.wants = None]
      BY <1>13 DEF Read, read
    <2>7. read \in Finding /\ read.wants = None /\ read.rest = found.rest /\ ~read.through
      BY <1>1, <1>5, <1>13, <2>6 DEF Finding
    <2>8. mine = {}
      BY <1>10, <2>3
    <2> QED
      BY <1>4, <1>7, <2>5, <2>7, <2>8 DEF Follows, S, token, read
  <1>14. CASE ~found.through /\ found.wants = None /\ token = Separator
    <2>1. ~(n \in 1..S - 1)
      BY <1>2, <1>14 DEF token
    <2>2. n = S
      BY <1>3, <1>8, <1>14, <2>1
    <2>3. read = [found EXCEPT !.through = TRUE]
      BY <1>14 DEF Read, read
    <2>4. read \in Finding /\ read.wants = None /\ read.rest = found.rest /\ read.through
      BY <1>5, <1>14, <2>3 DEF Finding
    <2>5. mine = {}
      BY <1>10, <2>2
    <2>6. S <= n
      BY <1>3, <2>2
    <2> QED
      BY <1>4, <1>7, <2>4, <2>5, <2>6 DEF Follows, S, token, read
  <1>15. CASE ~found.through /\ found.wants = None /\ token # Separator
    <2>1. n # S
      BY <1>2, <1>3, <1>15 DEF token
    <2>2. n < S /\ ~(S <= n)
      BY <1>3, <1>8, <1>15, <2>1
    <2>3. read = ReadOption(found, token)
      BY <1>15 DEF Read, read
    <2>4. /\ read \in Finding
          /\ read.through = found.through
          /\ read.wants # None => token \in Selectors
          /\ read.rest = IF Own(token) THEN found.rest ELSE Append(found.rest, token)
      BY <1>1, <1>5, <1>15, <2>3, OptionIs
    <2>5. Flags(read.rest, Len(read.rest)) = ForTheTool(line, n)
      <3>1. CASE Own(token)
        BY <1>4, <1>7, <1>10, <2>2, <2>4, <3>1
      <3>2. CASE ~Own(token)
        <4>1. flags = mine
          BY <1>9, <1>10, <1>11, <2>1, <3>2
        <4> QED
          BY <1>4, <1>6, <1>7, <2>4, <3>2, <4>1
      <3> QED
        BY <3>1, <3>2
    <2> QED
      BY <1>3, <1>15, <2>2, <2>4, <2>5 DEF Follows, S, token, read
  <1>16. read = Read(found, line[n])
    BY DEF read, token
  <1> QED
    BY <1>12, <1>13, <1>14, <1>15, <1>5, <1>16

\* parseCallArgs keeps for the tool what comes after the separator and what the command has no
\* use for.
LEMMA ParseFollows ==
  ASSUME NEW line \in Seq(Tokens), Clear(line)
  PROVE  Follows(line, Len(line), Parse(line))
  <1> DEFINE T == {n \in Nat : n \in 0..Len(line) => Follows(line, n, Reading(line)[n])}
  <1>1. /\ Len(line) \in Nat
        /\ Reading(line)[0] = Unparsed
        /\ \A n \in 1..Len(line) : Reading(line)[n] = Read(Reading(line)[n - 1], line[n])
    BY ReadingIs
  <1>2. 0 \in T
    <2>1. SeparatorAt(line) \in 1..Len(line) + 1
      BY SeparatorIs
    <2>2. ~(SeparatorAt(line) <= 0)
      BY <1>1, <2>1
    <2>3. Unparsed.wants = None /\ Unparsed.through = FALSE
      BY DEF Unparsed
    <2>4. ForTheTool(line, 0) = {}
      BY DEF ForTheTool
    <2>5. Follows(line, 0, Unparsed)
      BY <2>2, <2>3, <2>4, UnparsedIs DEF Follows
    <2> QED
      BY <1>1, <2>5
  <1>3. ASSUME NEW n \in T PROVE n + 1 \in T
    <2>1. n \in Nat /\ n + 1 \in Nat /\ (n + 1) - 1 = n
      OBVIOUS
    <2>2. ASSUME n + 1 \in 0..Len(line) PROVE Follows(line, n + 1, Reading(line)[n + 1])
      <3>1. n \in 0..Len(line) /\ n + 1 \in 1..Len(line)
        BY <1>1, <2>1, <2>2
      <3>2. Follows(line, (n + 1) - 1, Reading(line)[n])
        BY <2>1, <3>1
      <3>3. Reading(line)[n + 1] = Read(Reading(line)[n], line[n + 1])
        BY <1>1, <2>1, <3>1
      <3>4. Follows(line, n + 1, Read(Reading(line)[n], line[n + 1]))
        BY <3>1, <3>2, ReadFollows
      <3> QED
        BY <3>3, <3>4
    <2> QED
      BY <2>1, <2>2, Zenon
  <1>4. T = Nat
    <2> HIDE DEF T
    <2>1. T \in SUBSET Nat
      BY DEF T
    <2> QED
      BY <2>1, <1>2, <1>3, NatInd
  <1> QED
    BY <1>1, <1>4 DEF Parse

\* A token that is no flag is taken off the front.
LEMMA TailFlags ==
  ASSUME NEW rest \in Seq(Tokens), rest # <<>>, ~IsFlag(Head(rest))
  PROVE  /\ Tail(rest) \in Seq(Tokens)
         /\ Flags(Tail(rest), Len(Tail(rest))) = Flags(rest, Len(rest))
  <1> DEFINE tail == Tail(rest)
  <1>1. /\ tail \in Seq(Tokens)
        /\ Len(rest) \in Nat /\ Len(rest) >= 1 /\ Len(tail) = Len(rest) - 1
        /\ \A i \in 1..Len(rest) - 1 : tail[i] = rest[i + 1]
        /\ Head(rest) = rest[1]
    OBVIOUS
  <1> HIDE DEF tail
  <1>2. ASSUME NEW x PROVE x \in Flags(tail, Len(tail)) <=> x \in Flags(rest, Len(rest))
    <2>1. x \in Flags(tail, Len(tail)) <=>
            \E i \in 1..Len(tail) : IsFlag(tail[i]) /\ x = tail[i].name
      BY DEF Flags
    <2>2. x \in Flags(rest, Len(rest)) <=>
            \E i \in 1..Len(rest) : IsFlag(rest[i]) /\ x = rest[i].name
      BY DEF Flags
    <2>3. ASSUME NEW i \in 1..Len(tail), IsFlag(tail[i]), x = tail[i].name
          PROVE  x \in Flags(rest, Len(rest))
      <3>1. i + 1 \in 1..Len(rest) /\ tail[i] = rest[i + 1]
        BY <1>1
      <3> QED
        BY <2>2, <2>3, <3>1
    <2>4. ASSUME NEW i \in 1..Len(rest), IsFlag(rest[i]), x = rest[i].name
          PROVE  x \in Flags(tail, Len(tail))
      <3>1. i # 1
        BY <1>1, <2>4
      <3>2. i - 1 \in 1..Len(rest) - 1 /\ (i - 1) + 1 = i
        BY <1>1, <3>1
      <3>3. tail[i - 1] = rest[i] /\ i - 1 \in 1..Len(tail)
        BY <1>1, <3>2
      <3> QED
        BY <2>1, <2>4, <3>3
    <2> QED
      BY <2>1, <2>2, <2>3, <2>4
  <1> QED
    BY <1>1, <1>2 DEF tail

\* Taking the server or the tool from the front of the rest takes no flag, if it is one of
\* those that the configuration has.
LEMMA SelectedKeeps ==
  ASSUME NEW found \in Finding, NEW which \in Options, NEW x,
         Selected(found, which).selected[which] = Word(x)
  PROVE  /\ Selected(found, which) \in Finding
         /\ Flags(Selected(found, which).rest, Len(Selected(found, which).rest)) =
              Flags(found.rest, Len(found.rest))
         /\ \A other \in Options \ {which} :
              Selected(found, which).selected[other] = found.selected[other]
  <1> DEFINE taken == Selected(found, which)
  <1>1. CASE ~(found.selected[which] = Word("") /\ found.rest # <<>>)
    <2>1. taken = found
      BY <1>1 DEF Selected
    <2> QED
      BY <2>1
  <1>2. CASE found.selected[which] = Word("") /\ found.rest # <<>>
    <2>1. taken = [found EXCEPT !.selected[which] = Head(found.rest), !.rest = Tail(found.rest)]
      BY <1>2 DEF Selected
    <2>2. found.rest \in Seq(Tokens) /\ found.selected \in [Options -> Tokens]
      BY DEF Finding
    <2>3. Head(found.rest) \in Tokens /\ Tail(found.rest) \in Seq(Tokens)
      BY <1>2, <2>2, HeadTailProperties
    <2>4. /\ taken \in Finding
          /\ taken.rest = Tail(found.rest)
          /\ taken.selected[which] = Head(found.rest)
          /\ \A other \in Options \ {which} : taken.selected[other] = found.selected[other]
      BY <2>1, <2>2, <2>3 DEF Finding
    <2>5. ~IsFlag(Head(found.rest))
      BY <2>4 DEF IsFlag, Word, Given
    <2> QED
      BY <1>2, <2>2, <2>4, <2>5, TailFlags
  <1> QED
    BY <1>1, <1>2

\* The arguments of a line for a tool that the configuration has are the flags that are
\* for the tool.
LEMMA LineArguments ==
  ASSUME NEW line \in Seq(Tokens), Clear(line), Known(Parsed(line)), NEW detail
  PROVE  DOMAIN DynamicArgs(Parsed(line).rest, detail) = ForTheTool(line, Len(line))
  <1> DEFINE found == Parse(line)
             server == Selected(found, "server")
             both == Selected(server, "tool")
  <1>1. found \in Finding /\ Flags(found.rest, Len(found.rest)) = ForTheTool(line, Len(line))
    BY ParseFollows DEF Follows
  <1>2. Parsed(line) = both
    BY DEF Parsed
  <1>3. both.selected["server"] = Word("service") /\ both.selected["tool"] = Word("tool")
    BY <1>2 DEF Known
  <1>4. server \in Finding
    <2>1. \A rest \in Seq(Tokens) : rest # <<>> => Head(rest) \in Tokens /\ Tail(rest) \in Seq(Tokens)
      BY HeadTailProperties
    <2> QED
      BY <1>1, <2>1 DEF Finding, Selected, Options
  <1>5. "server" \in Options /\ "tool" \in Options /\ "server" # "tool"
    BY DEF Options
  <1> HIDE DEF both
  <1>6. /\ both \in Finding
        /\ Flags(both.rest, Len(both.rest)) = Flags(server.rest, Len(server.rest))
        /\ \A other \in Options \ {"tool"} : both.selected[other] = server.selected[other]
    <2> HIDE DEF server
    <2>1. Selected(server, "tool").selected["tool"] = Word("tool")
      BY <1>3 DEF both
    <2> QED
      BY <1>4, <1>5, <2>1, SelectedKeeps DEF both
  <1>7. server.selected["server"] = Word("service")
    BY <1>3, <1>5, <1>6
  <1>8. Flags(server.rest, Len(server.rest)) = Flags(found.rest, Len(found.rest))
    <2> HIDE DEF found
    <2> QED
      BY <1>1, <1>5, <1>7, SelectedKeeps
  <1>9. both.rest \in Seq(Tokens)
    BY <1>6 DEF Finding
  <1>10. DOMAIN DynamicArgs(both.rest, detail) = Flags(both.rest, Len(both.rest))
    <2>1. DOMAIN both.rest = 1..Len(both.rest)
      BY <1>9
    <2> QED
      BY <2>1 DEF DynamicArgs, Flags
  <1> QED
    BY <1>1, <1>2, <1>6, <1>8, <1>10

-----------------------------------------------------------------------------
(* The invariant. *)

\* A command that no call has come of has not touched the exchange.
LEMMA CommandInitially ==
  ASSUME NEW calls, NEW commands, CommandInit(calls, commands)
  PROVE  CommandIInv
  <1>1. ExchangeInit => ExchangeIInv
    BY ExchangeInitially
  <1>2. ASSUME NEW c, StartsCall(c) PROVE CommandIInv
    <2>1. cmd.at = "called" /\ cmd.line = <<>>
          /\ cmd = [at |-> cmd.at, line |-> cmd.line, found |-> cmd.found, detail |-> cmd.detail]
      BY <1>2 DEF StartsCall, NoCommand
    <2>2. ExchangeInit /\ Loadable(c) /\ call = c /\ fault = NoFault
      BY <1>2 DEF StartsCall, Starts
    <2>3. PathAsConfigured
      BY <2>2 DEF ExchangeInit, PathAsConfigured
    <2> QED
      BY <1>1, <2>1, <2>2, <2>3 DEF CommandIInv
  <1>3. ASSUME NEW c, StartsCommand(c) PROVE CommandIInv
    <2>1. /\ ExchangeInit /\ call = None /\ fault = NoFault /\ stage = "idle"
          /\ cmd.at = "typed" /\ cmd.line = c.line /\ cmd.found = Parsed(c.line)
          /\ c.line \in Seq(Tokens) /\ ToolOK(service)
          /\ cmd = [at |-> cmd.at, line |-> cmd.line, found |-> cmd.found, detail |-> cmd.detail]
      BY <1>3 DEF StartsCommand, ExchangeInit
    <2>2. PathAsConfigured
      BY <2>1 DEF PathAsConfigured
    <2> QED
      BY <1>1, <2>1, <2>2 DEF CommandIInv, LineRead
  <1> QED
    BY <1>2, <1>3 DEF CommandInit

\* The steps of the command before there is a call, and a registry change.
LEMMA CommandKeeps ==
  ASSUME NEW tools, CommandIInv, CommandStep \/ Reload(tools)
  PROVE  CommandIInv'
  <1>1. ASSUME UNCHANGED <<exchangeVars, path, fault>>
        PROVE  ExchangeIInv'
    <2>1. UNCHANGED exchangeVars
      BY <1>1
    <2>2. ExchangeIInv
      BY DEF CommandIInv
    <2> QED
      BY <2>1, <2>2, ExchangeStepKeeps
  <1>2. cmd.at \in {"typed", "inspected"}
    BY DEF CommandStep, Usage, Inspect, MissingArguments, CallFails, Call, Reload
  <1>3. /\ stage = "idle" /\ call = None /\ fault = NoFault
        /\ LineRead /\ ToolOK(service)
    BY <1>2 DEF CommandIInv
  <1>4. ASSUME UNCHANGED exchangeVars PROVE PathAsConfigured'
    BY <1>3, <1>4 DEF PathAsConfigured, exchangeVars
  <1>5. CASE Over
    <2>1. UNCHANGED <<exchangeVars, path, fault>> /\ call' = call /\ stage' = stage
      BY <1>5 DEF Over, vars, exchangeVars
    <2>2. cmd'.at = "over"
          /\ cmd' = [at |-> cmd'.at, line |-> cmd'.line, found |-> cmd'.found, detail |-> cmd'.detail]
      BY <1>5 DEF Over, NoCommand
    <2> QED
      BY <1>1, <1>3, <1>4, <2>1, <2>2 DEF CommandIInv
  <1>6. CASE Inspect
    <2>1. UNCHANGED exchangeVars /\ UNCHANGED <<path, fault, call, stage, service>>
      BY <1>6 DEF Inspect, vars, exchangeVars
    <2>2. PICK detail : cmd' = [cmd EXCEPT !.at = "inspected", !.detail = detail]
      BY <1>6, Zenon DEF Inspect
    <2>3. cmd = [at |-> cmd.at, line |-> cmd.line, found |-> cmd.found, detail |-> cmd.detail]
      BY Zenon DEF CommandIInv
    <2>4. cmd' = [at |-> "inspected", line |-> cmd.line, found |-> cmd.found, detail |-> detail]
      BY <2>2, <2>3
    <2>5. LineRead' /\ ToolOK(service')
      BY <1>3, <2>1, <2>4 DEF LineRead
    <2>6. cmd'.at = "inspected"
          /\ cmd' = [at |-> cmd'.at, line |-> cmd'.line, found |-> cmd'.found, detail |-> cmd'.detail]
      BY <2>4
    <2> QED
      BY <1>1, <1>3, <1>4, <2>1, <2>5, <2>6 DEF CommandIInv
  <1>7. CASE Reload(tools)
    <2>1. UNCHANGED exchangeVars /\ UNCHANGED <<path, fault, call, stage, cmd>>
      BY <1>7 DEF Reload, vars, exchangeVars
    <2>2. cmd.at = "inspected" /\ ToolOK(service')
      BY <1>7 DEF Reload
    <2>3. LineRead'
      BY <1>3, <2>1 DEF LineRead
    <2> QED
      BY <1>1, <1>3, <1>4, <2>1, <2>2, <2>3 DEF CommandIInv
  <1>8. CASE Call
    <2> DEFINE args == DynamicArgs(cmd.found.rest, cmd.detail)
    <2>1. /\ UNCHANGED exchangeVars /\ UNCHANGED <<path, fault, service, stage>>
          /\ cmd' = [cmd EXCEPT !.at = "called"]
          /\ call' = [kind |-> "typed", tool |-> service, args |-> args, policy |-> policy]
          /\ Known(cmd.found) /\ Complete
      BY <1>8, Zenon DEF Call, exchangeVars
    <2>2. cmd = [at |-> cmd.at, line |-> cmd.line, found |-> cmd.found, detail |-> cmd.detail]
      BY Zenon DEF CommandIInv
    <2>3. cmd' = [at |-> "called", line |-> cmd.line, found |-> cmd.found, detail |-> cmd.detail]
      BY <2>1, <2>2
    <2>4. cmd'.line = cmd.line /\ cmd'.found = cmd.found /\ cmd'.detail = cmd.detail
          /\ cmd'.at = "called"
          /\ cmd' = [at |-> cmd'.at, line |-> cmd'.line, found |-> cmd'.found, detail |-> cmd'.detail]
      BY <2>3
    <2>5. LineRead' /\ Known(cmd'.found) /\ Complete'
      BY <1>3, <2>1, <2>4 DEF LineRead, Complete
    <2>6. call'.kind = "typed" /\ call'.tool = service /\ call'.args = args
      BY <2>1
    <2>7. Loadable(call')
      BY <1>3, <2>6 DEF Loadable
    <2>8. call'.args = DynamicArgs(cmd'.found.rest, cmd'.detail)
      BY <2>4, <2>6
    <2> HIDE DEF args
    <2> QED
      BY <1>1, <1>3, <1>4, <2>1, <2>4, <2>5, <2>6, <2>7, <2>8 DEF CommandIInv
  <1> QED
    BY <1>5, <1>6, <1>7, <1>8 DEF CommandStep, Usage, MissingArguments, CallFails

\* Each step of the daemon is one of the exchange.
LEMMA NextIsExchangeStep ==
  ASSUME Next
  PROVE  ExchangeStep
  <1>1. ASSUME NEW f, Refuse(f), stage = "idle" PROVE ExchangeStep
    BY <1>1 DEF Refuse, ExchangeStep, Compile
  <1>2. CASE RefuseArguments
    BY <1>1, <1>2 DEF RefuseArguments
  <1>3. CASE RefuseRequest
    BY <1>1, <1>3 DEF RefuseRequest
  <1>4. CASE CompileRequest
    BY <1>4 DEF CompileRequest, ExchangeStep, Compile
  <1>5. CASE SendRequest
    BY <1>5 DEF SendRequest, ExchangeStep
  <1>6. CASE ~(RefuseArguments \/ RefuseRequest \/ CompileRequest \/ SendRequest)
    BY <1>6, Zenon DEF Next, ExchangeStep
  <1> QED
    BY <1>2, <1>3, <1>4, <1>5, <1>6

\* What the daemon's steps do to the call and what is known of it.
LEMMA NextIs ==
  ASSUME Next
  PROVE  \/ /\ stage = "idle" /\ stage' = "done" /\ Refused(call, fault')
            /\ UNCHANGED <<call, path>>
         \/ /\ stage = "idle" /\ stage' = "compiled" /\ CompileFaults(call) = {}
            /\ path' = RequestPath(call) /\ UNCHANGED <<call, fault>>
         \/ stage = "compiled" /\ stage' = "sent" /\ call' = None /\ UNCHANGED fault
         \/ /\ stage \in {"sent", "answered"} /\ stage' \in {"sent", "answered", "done"}
            /\ UNCHANGED <<call, path, fault>>
  <1>1. CASE RefuseArguments
    <2>1. PICK f \in CompileFaults(call) : Refuse(f) /\ stage = "idle"
      BY <1>1 DEF RefuseArguments
    <2> QED
      BY <2>1 DEF Refuse, Fail, Refused
  <1>2. CASE RefuseRequest
    <2>1. PICK faults \in PolicyFaults(call) :
            stage = "idle" /\ CompileFaults(call) = {} /\ \E f \in faults : Refuse(f)
      BY <1>2 DEF RefuseRequest
    <2> QED
      BY <2>1 DEF Refuse, Fail, Refused
  <1>3. CASE CompileRequest
    BY <1>3 DEF CompileRequest
  <1>4. CASE SendRequest
    BY <1>4 DEF SendRequest, Send
  <1>5. ASSUME NEW url \in Url, Redirect(url), Untouched
        PROVE  /\ stage \in {"sent", "answered"} /\ stage' \in {"sent", "answered", "done"}
               /\ UNCHANGED <<call, path, fault>>
    BY <1>5 DEF Redirect, Fail, Untouched
  <1>6. ASSUME NEW r \in Replies, Reply(r), Untouched
        PROVE  /\ stage \in {"sent", "answered"} /\ stage' \in {"sent", "answered", "done"}
               /\ UNCHANGED <<call, path, fault>>
    BY <1>6 DEF Reply, Answer, Untouched
  <1>7. CASE (TransportFails \/ TimesOut \/ Finish) /\ Untouched
    BY <1>7 DEF TransportFails, TimesOut, Finish, Fail, Untouched
  <1> QED
    BY <1>1, <1>2, <1>3, <1>4, <1>5, <1>6, <1>7 DEF Next

\* compileTypedRequest and compileRawRequest: what compiles has a path as it is configured.
LEMMA CompiledPath ==
  ASSUME NEW c, Loadable(c), CompileFaults(c) = {}
  PROVE  LET sent == RequestPath(c)
         IN  /\ \A i \in DOMAIN sent : sent[i] \notin {".", ".."}
             /\ IF c.kind = "raw" THEN \E p \in c.tool.paths : PathMatches(p, sent)
                ELSE /\ DOMAIN sent = DOMAIN c.tool.path
                     /\ \A i \in DOMAIN sent :
                          IF c.tool.path[i].tag = "fixed" THEN sent[i] = c.tool.path[i].text
                          ELSE sent[i] \notin {"", "a/b"}
  <1>1. CASE c.kind = "typed"
    <2> DEFINE effective == Effective(c.tool, c.args)
    <2>1. ToolOK(c.tool) /\ TypedFaults(c.tool, c.args) = {}
      BY <1>1 DEF Loadable, CompileFaults
    <2>2. PathFaults(c.tool, effective) = {}
      BY <2>1 DEF TypedFaults, OrElse
    <2>3. RequestPath(c) = [i \in DOMAIN c.tool.path |-> Segment(c.tool.path[i], effective)]
      BY <1>1 DEF RequestPath
    <2> HIDE DEF effective
    <2> DEFINE sent == RequestPath(c)
    <2>4. DOMAIN sent = DOMAIN c.tool.path
      BY <2>3
    <2>5. ASSUME NEW i \in DOMAIN sent
          PROVE  /\ sent[i] \notin {".", ".."}
                 /\ IF c.tool.path[i].tag = "fixed" THEN sent[i] = c.tool.path[i].text
                    ELSE sent[i] \notin {"", "a/b"}
      <3>1. i \in DOMAIN c.tool.path /\ sent[i] = Segment(c.tool.path[i], effective)
        BY <2>3
      <3> HIDE DEF sent
      <3> QED
        BY <2>1, <2>2, <3>1, SegmentsAreOne
    <2> HIDE DEF sent
    <2> QED
      BY <1>1, <2>4, <2>5 DEF sent
  <1>2. CASE c.kind # "typed"
    <2>1. RawOK(c.tool) /\ c.args.path \in Seq(STRING) /\ RawFaults(c.tool, c.args) = {}
      BY <1>2 DEF Loadable, CompileFaults
    <2>2. RequestPath(c) = c.args.path
      BY <1>2 DEF RequestPath
    <2>3. c.kind = "raw"
      BY <1>2 DEF Loadable
    <2> QED
      BY <2>1, <2>2, <2>3, RawPathsMatch
  <1> QED
    BY <1>1, <1>2

\* The steps of the daemon.
LEMMA DaemonKeeps ==
  ASSUME CommandIInv, Called(Next)
  PROVE  CommandIInv'
  <1>1. /\ cmd.at = "called" /\ Next
        /\ cmd' = IF call' = None THEN [NoCommand EXCEPT !.at = "called"] ELSE cmd
    BY Zenon DEF Called
  <1>2. ExchangeIInv'
    BY <1>1, NextIsExchangeStep, ExchangeStepKeeps DEF CommandIInv
  <1>3. cmd = [at |-> cmd.at, line |-> cmd.line, found |-> cmd.found, detail |-> cmd.detail]
    BY Zenon DEF CommandIInv
  <1>4. /\ cmd'.at = "called"
        /\ cmd' = [at |-> cmd'.at, line |-> cmd'.line, found |-> cmd'.found, detail |-> cmd'.detail]
        /\ cmd'.line # <<>> => cmd' = cmd /\ call' # None
    BY <1>1, <1>3 DEF NoCommand
  <1>5. cmd'.line # <<>> => call' = call
    BY <1>1, <1>4, NextIs
  <1>6. cmd'.line # <<>> =>
          /\ LineRead'
          /\ Known(cmd'.found)
          /\ Complete'
          /\ call'.kind = "typed"
          /\ call'.args = DynamicArgs(cmd'.found.rest, cmd'.detail)
    BY <1>1, <1>4, <1>5 DEF CommandIInv, LineRead, Complete
  <1>7. PathAsConfigured' /\ stage' # "idle"
        /\ (fault' # NoFault => stage' = "done" /\ Loadable(call') /\ Refused(call', fault'))
    <2>1. CASE /\ stage = "idle" /\ stage' = "done" /\ Refused(call, fault')
               /\ UNCHANGED <<call, path>>
      <3>1. Loadable(call)
        BY <1>1, <2>1 DEF CommandIInv
      <3> QED
        BY <2>1, <3>1 DEF PathAsConfigured
    <2>2. CASE /\ stage = "idle" /\ stage' = "compiled" /\ CompileFaults(call) = {}
               /\ path' = RequestPath(call) /\ UNCHANGED <<call, fault>>
      <3>1. Loadable(call) /\ fault' = NoFault
        BY <1>1, <2>2 DEF CommandIInv
      <3>2. PathAsConfigured'
        BY <2>2, <3>1, CompiledPath DEF PathAsConfigured
      <3> QED
        BY <2>2, <3>1, <3>2
    <2>3. CASE stage \in {"compiled", "sent", "answered"} /\ stage' \in {"sent", "answered", "done"}
               /\ UNCHANGED fault
      BY <2>3 DEF CommandIInv, PathAsConfigured
    <2> QED
      BY <1>1, <2>1, <2>2, <2>3, NextIs
  <1> QED
    BY <1>2, <1>4, <1>6, <1>7 DEF CommandIInv

\* Each step keeps the invariant.
LEMMA CommandStepKeeps ==
  ASSUME NEW tools, CommandIInv, [CommandNext(tools)]_commandVars
  PROVE  CommandIInv'
  <1>1. CASE CommandNext(tools)
    BY <1>1, CommandKeeps, DaemonKeeps DEF CommandNext
  <1>2. CASE UNCHANGED commandVars
    <2>1. /\ UNCHANGED exchangeVars /\ UNCHANGED <<stage, call, path, fault, service, cmd>>
      BY <1>2 DEF commandVars, vars, exchangeVars
    <2>2. ExchangeIInv'
      BY <2>1, ExchangeStepKeeps DEF CommandIInv
    <2>3. PathAsConfigured'
      BY <2>1 DEF CommandIInv, PathAsConfigured
    <2> QED
      BY <2>1, <2>2, <2>3 DEF CommandIInv, LineRead, Complete
  <1> QED
    BY <1>1, <1>2

\* The invariant of a command and its call.
THEOREM CommandInvariance ==
  ASSUME NEW calls, NEW commands, NEW tools
  PROVE  CommandSpec(calls, commands, tools) => []CommandIInv
  <1>1. CommandInit(calls, commands) => CommandIInv
    BY CommandInitially
  <1>2. CommandIInv /\ [CommandNext(tools)]_commandVars => CommandIInv'
    BY CommandStepKeeps
  <1> QED
    BY <1>1, <1>2, PTL DEF CommandSpec

-----------------------------------------------------------------------------
(* Properties of commands and calls. *)

\* Each step of a command is one of the exchange, or none.
LEMMA CommandStepImplements ==
  ASSUME NEW tools, [CommandNext(tools)]_commandVars
  PROVE  [ExchangeStep]_exchangeVars
  <1>1. CASE CommandStep
    BY <1>1 DEF CommandStep, Usage, Inspect, MissingArguments, CallFails, Call, Over, vars,
                exchangeVars
  <1>2. CASE Reload(tools)
    BY <1>2 DEF Reload, vars, exchangeVars
  <1>3. CASE Called(Next)
    <2>1. Next
      BY <1>3 DEF Called
    <2> QED
      BY <2>1, NextIsExchangeStep
  <1>4. CASE UNCHANGED commandVars
    BY <1>4 DEF commandVars, vars, exchangeVars
  <1> QED
    BY <1>1, <1>2, <1>3, <1>4 DEF CommandNext

\* A command does with its request what an exchange does, and nothing else: what is proved of
\* exchanges holds for every call.
THEOREM CommandsAreExchanges ==
  ASSUME NEW calls, NEW commands, NEW tools
  PROVE  CommandSpec(calls, commands, tools) => ExchangeSpec
  <1>1. CommandInit(calls, commands) => ExchangeInit
    BY Zenon DEF CommandInit, StartsCall, Starts, StartsCommand
  <1>2. [CommandNext(tools)]_commandVars => [ExchangeStep]_exchangeVars
    BY CommandStepImplements
  <1> QED
    BY <1>1, <1>2, PTL DEF CommandSpec, ExchangeSpec

\* Calls from the command line and from the socket stay with the configured origin unless the
\* policy is "any", and their results are honest.
THEOREM CallsAreExchanges ==
  ASSUME NEW calls, NEW commands, NEW tools
  PROVE  CommandSpec(calls, commands, tools) => [](StaysHome /\ ResultIsHonest)
  <1>1. ExchangeIInv => StaysHome /\ ResultIsHonest
    BY DEF ExchangeIInv
  <1> QED
    BY <1>1, CommandsAreExchanges, ExchangeInvariance, PTL

\* Why the daemon refuses a call.
LEMMA Reasons ==
  ASSUME CommandIInv, fault # NoFault, fault.why \in Whys
  PROVE  /\ call.kind = "typed" /\ ToolOK(call.tool)
         /\ fault.why \notin {"missing", "deep"}
         /\ fault.why = "invalid" =>
              /\ fault.name \in DOMAIN call.args \cap DOMAIN call.tool.inputs
              /\ ~ValueOK(call.tool.inputs[fault.name], call.args[fault.name])
         /\ fault.why = "required" =>
              /\ fault.name \in DOMAIN call.tool.inputs \ DOMAIN call.args
              /\ call.tool.inputs[fault.name].required
              /\ call.tool.inputs[fault.name].default = Null
  <1>1. Loadable(call) /\ Refused(call, fault)
    BY DEF CommandIInv
  <1>2. ASSUME NEW faults \in PolicyFaults(call), fault \in faults
        PROVE  FALSE
    <2>1. \E p, method, type, size : faults = RequestFaults(p, method, type, size)
      BY DEF PolicyFaults
    <2> QED
      BY <1>2, <2>1, PolicyReasons
  <1>3. fault \in CompileFaults(call)
    BY <1>1, <1>2 DEF Refused
  <1>4. call.kind = "typed"
    <2>1. call.kind # "typed" => fault \in RawFaults(call.tool, call.args)
      BY <1>3 DEF CompileFaults
    <2> QED
      BY <2>1, RawReasons
  <1>5. ToolOK(call.tool) /\ fault \in TypedFaults(call.tool, call.args)
    BY <1>1, <1>3, <1>4 DEF Loadable, CompileFaults
  <1> QED
    BY <1>4, <1>5, TypedReasons

\* http.go:460-677 against httpbinding.go:413-503: what the validator has checked ahead does not
\* make a call fail, whatever the configuration.
THEOREM LoadedConfigurationsDoNotFail ==
  ASSUME NEW calls, NEW commands, NEW tools
  PROVE  CommandSpec(calls, commands, tools) => []OnlyArgumentsRefused
  <1>1. ASSUME CommandIInv PROVE OnlyArgumentsRefused
    <2>1. CASE fault = NoFault
      BY <2>1 DEF NoFault, Fault, OnlyArgumentsRefused
    <2>2. CASE fault # NoFault
      <3>1. fault.why \in Whys =>
              /\ fault.why \notin {"missing", "deep"}
              /\ fault.why = "invalid" => fault.name \in DOMAIN call.args
              /\ fault.why = "required" => call.tool.inputs[fault.name].default = Null
        BY <1>1, <2>2, Reasons
      <3> QED
        BY <3>1 DEF OnlyArgumentsRefused, Whys
    <2> QED
      BY <2>1, <2>2
  <1> QED
    BY <1>1, CommandInvariance, PTL

\* docs/http-services.md:240-241: the matcher agrees with the definition of `*` and `**` for all
\* patterns and paths, of any length.
THEOREM PatternsAreHonoured ==
  ASSUME NEW calls, NEW commands, NEW tools
  PROVE  CommandSpec(calls, commands, tools) => []PatternsMeanWhatTheySay
  <1>1. ASSUME CommandIInv PROVE PatternsMeanWhatTheySay
    <2>1. ASSUME stage = "idle", call # None, call.kind = "raw", NEW p \in call.tool.paths
          PROVE  p \in Seq(STRING) /\ call.args.path \in Seq(STRING)
      <3>1. Loadable(call)
        BY <1>1, <2>1 DEF CommandIInv
      <3> QED
        BY <2>1, <3>1 DEF Loadable, RawOK, IsRaw
    <2> QED
      BY <2>1, PatternsMatch DEF PatternsMeanWhatTheySay
  <1> QED
    BY <1>1, CommandInvariance, PTL

\* The path of a request is one that the configuration describes, whatever the arguments.
THEOREM RequestsAreAsConfigured ==
  ASSUME NEW calls, NEW commands, NEW tools
  PROVE  CommandSpec(calls, commands, tools) => []PathAsConfigured
  <1>1. CommandIInv => PathAsConfigured
    BY DEF CommandIInv
  <1> QED
    BY <1>1, CommandInvariance, PTL

\* client.go:684,572-576: the flags of a line reach the tool, unless they are the command's own,
\* for lines of any length.
THEOREM FlagsReachTheTool ==
  ASSUME NEW calls, NEW commands, NEW tools
  PROVE  CommandSpec(calls, commands, tools) => []ReachesTheTool
  <1>1. ASSUME CommandIInv PROVE ReachesTheTool
    <2> SUFFICES ASSUME cmd.at = "called", stage = "idle", Clear(cmd.line), cmd.line # <<>>
                 PROVE  DOMAIN call.args = ForTheTool(cmd.line, Len(cmd.line))
      <3>1. cmd.at = "called" /\ cmd.line # <<>> => DOMAIN cmd.line = 1..Len(cmd.line)
        BY <1>1 DEF CommandIInv, LineRead
      <3> QED
        BY <3>1 DEF ReachesTheTool, ForTheTool
    <2>1. /\ cmd.line \in Seq(Tokens) /\ cmd.found = Parsed(cmd.line) /\ Known(cmd.found)
          /\ call.args = DynamicArgs(cmd.found.rest, cmd.detail)
      BY <1>1 DEF CommandIInv, LineRead
    <2> QED
      BY <2>1, LineArguments
  <1> QED
    BY <1>1, CommandInvariance, PTL

\* validateInputValue looks at the root of a value.
LEMMA RootIs ==
  ASSUME NEW input, Len(input.items) \in Nat, NEW v, <<>> \in DOMAIN v, ValueOK(input, v)
  PROVE  IF Kind(v) = "null" THEN input.type = "" ELSE HasType(input.type, v[<<>>])
  <1>1. 0 \in 0..Len(input.items) /\ <<>> \in {q \in DOMAIN v : Len(q) = 0}
    OBVIOUS
  <1>2. IF v[<<>>].kind = "null" THEN Level(input, 0).type = "" ELSE NodeOK(Level(input, 0), v[<<>>])
    BY <1>1 DEF ValueOK
  <1>3. Level(input, 0) = input
    BY DEF Level
  <1> QED
    BY <1>2, <1>3 DEF NodeOK, Kind

\* A leaf has a root.
LEMMA LeafIs ==
  ASSUME NEW node
  PROVE  <<>> \in DOMAIN Leaf(node) /\ Leaf(node)[<<>>] = node
  BY DEF Leaf

\* A text has a root.
LEMMA TextIs ==
  ASSUME NEW x
  PROVE  <<>> \in DOMAIN Text(x) /\ Text(x)[<<>>].kind = "string"
  BY LeafIs DEF Text

\* A text spells null, a boolean, a number, an array, or nothing but itself.
LEMMA ValueIs ==
  ASSUME NEW x
  PROVE  LET root == Value(x)[<<>>]
         IN  /\ <<>> \in DOMAIN Value(x)
             /\ CASE x = "null" -> root.kind = "null"
                  [] x \in {"true", "TRUE"} -> root.kind = "boolean"
                  [] x \in {"3", " 3", "1.0"} -> root.kind = "number"
                  [] x = "1.5" -> root.kind = "number" /\ root.half = 3
                  [] x = "nan" -> root.kind = "nan"
                  [] x = "[null]" -> root.kind = "array"
                  [] OTHER -> Value(x) = Text(x)
  <1>1. <<>> \in DOMAIN Text(x)
    BY TextIs
  <1>2. Null[<<>>].kind = "null" /\ <<>> \in DOMAIN Null
    BY LeafIs DEF Null
  <1>3. Bool[<<>>].kind = "boolean" /\ <<>> \in DOMAIN Bool
    BY LeafIs DEF Bool
  <1>4. ASSUME NEW h
        PROVE  Number(h)[<<>>].kind = "number" /\ Number(h)[<<>>].half = h /\ <<>> \in DOMAIN Number(h)
    BY LeafIs DEF Number
  <1>5. NaN[<<>>].kind = "nan" /\ <<>> \in DOMAIN NaN
    BY LeafIs DEF NaN
  <1>6. ASSUME NEW of PROVE Array(of)[<<>>].kind = "array" /\ <<>> \in DOMAIN Array(of)
    <2> DEFINE positions == {<<>>} \cup UNION {{<<k>> \o q : q \in DOMAIN of[k]} : k \in DOMAIN of}
    <2>1. <<>> \in positions
      OBVIOUS
    <2> HIDE DEF positions
    <2>2. Array(of) = [p \in positions |-> IF p = <<>> THEN [kind |-> "array"] ELSE of[Head(p)][Tail(p)]]
      BY Zenon DEF Array, Tree, positions
    <2> QED
      BY <2>1, <2>2
  <1>7. CASE x \in {"null", "true", "TRUE", "nan", "[null]"}
    BY <1>2, <1>3, <1>5, <1>6, <1>7 DEF Value
  <1>8. CASE x \in {"3", " 3", "1.0", "1.5"}
    BY <1>4, <1>8 DEF Value
  <1>9. CASE x \notin {"null", "true", "TRUE", "nan", "[null]", "3", " 3", "1.0", "1.5"}
    BY <1>1, <1>9 DEF Value
  <1> QED
    BY <1>7, <1>8, <1>9

\* 1.5 is no integer.
LEMMA ThreeHalves ==
  ASSUME NEW half, half = 3
  PROVE  half % 2 # 0
  OBVIOUS

\* normalizeAs makes of a text what the declared type allows, if it allows the text or what
\* that spells, but for the numbers that it does not read.
LEMMA NormalizeAsIsBest ==
  ASSUME NEW input, input.type \in InputTypes \ {""}, Len(input.items) \in Nat, NEW x,
         ~ValueOK(input, NormalizeAs(x, input.type))
  PROVE  /\ ~ValueOK(input, Text(x))
         /\ ValueOK(input, Value(x)) => x \in Unread(input.type)
  <1> DEFINE root == Value(x)[<<>>]
  <1>1. <<>> \in DOMAIN Text(x) /\ Text(x)[<<>>].kind = "string"
    BY TextIs
  <1>2. ASSUME ValueOK(input, Value(x))
        PROVE  root.kind # "null" /\ HasType(input.type, root)
    BY <1>2, ValueIs, RootIs DEF Kind
  <1>3. CASE input.type = "string"
    <2>1. ~ValueOK(input, Text(x))
      BY <1>3 DEF NormalizeAs
    <2>2. ASSUME ValueOK(input, Value(x)) PROVE FALSE
      <3>1. root.kind = "string"
        BY <1>2, <1>3, <2>2 DEF HasType
      <3>2. Value(x) = Text(x)
        BY <3>1, ValueIs
      <3> QED
        BY <2>1, <2>2, <3>2
    <2> QED
      BY <2>1, <2>2
  <1>4. CASE input.type # "string"
    <2>1. ~ValueOK(input, Text(x))
      <3>1. ~HasType(input.type, Text(x)[<<>>])
        BY <1>1, <1>4 DEF HasType
      <3> QED
        BY <1>1, <3>1, RootIs DEF Kind
    <2>2. ASSUME ValueOK(input, Value(x)) PROVE x \in Unread(input.type)
      <3>1. Value(x) # Text(x) /\ NormalizeAs(x, input.type) # Value(x)
        BY <2>1, <2>2
      <3>2. /\ x \notin {"null", "[null]"}
            /\ x \in {"true", "TRUE"} => input.type # "boolean"
            /\ x \in Ints => input.type # "integer"
            /\ x \in Floats => input.type # "number"
        BY <1>4, <3>1 DEF NormalizeAs
      <3>3. root.kind # "null" /\ HasType(input.type, root)
        BY <1>2, <2>2
      <3>4. \/ x \in {"true", "TRUE"} /\ root.kind = "boolean"
            \/ x \in {"3", " 3", "1.0"} /\ root.kind = "number"
            \/ x = "1.5" /\ root.kind = "number" /\ root.half = 3
            \/ x = "nan" /\ root.kind = "nan"
        BY <3>1, <3>2, ValueIs
      <3> HIDE DEF root
      <3>5. \/ input.type = "integer" /\ root.kind = "number" /\ root.half % 2 = 0
            \/ input.type # "integer" /\ input.type = root.kind
        BY <3>3 DEF HasType
      <3>6. input.type \in {"integer", "number"} /\ x \in {"3", " 3", "1.0"}
        <4>1. CASE x \in {"true", "TRUE"} /\ root.kind = "boolean"
          BY <3>2, <3>5, <4>1
        <4>2. CASE x \in {"3", " 3", "1.0"} /\ root.kind = "number"
          BY <3>5, <4>2
        <4>3. CASE x = "1.5" /\ root.kind = "number" /\ root.half = 3
          <5>1. input.type # "number"
            BY <3>2, <4>3 DEF Floats
          <5>2. root.half % 2 # 0
            BY <4>3, ThreeHalves
          <5> QED
            BY <3>5, <4>3, <5>1, <5>2
        <4>4. CASE x = "nan" /\ root.kind = "nan"
          BY <3>5, <4>4 DEF InputTypes
        <4> QED
          BY <3>4, <4>1, <4>2, <4>3, <4>4
      <3> QED
        BY <3>2, <3>6 DEF Unread, Ints, Floats
    <2> QED
      BY <2>1, <2>2
  <1> QED
    BY <1>3, <1>4

\* The client sends each argument that the daemon requires, and each in the best way.
LEMMA InformedCalls ==
  ASSUME CommandIInv, cmd.at = "called", cmd.line # <<>>, fault # NoFault, Informed
  PROVE  /\ fault.why # "required"
         /\ fault.why = "invalid" /\ call.tool.inputs[fault.name].type # "" =>
              LET text == LastText(cmd.found.rest, fault.name)
                  input == call.tool.inputs[fault.name]
              IN  text # None =>
                    /\ ~ValueOK(input, Text(text))
                    /\ ValueOK(input, Value(text)) => text \in Unread(input.type)
  <1> DEFINE rest == cmd.found.rest
             n == fault.name
             inputs == call.tool.inputs
  <1>1. Complete /\ call.args = DynamicArgs(rest, cmd.detail)
    BY DEF CommandIInv
  <1>2. /\ cmd.detail # None
        /\ cmd.detail = [m \in DOMAIN inputs |->
                           [type |-> inputs[m].type, required |-> inputs[m].required]]
    BY DEF Informed, Detail
  <1>3. fault.why \in {"required", "invalid"} =>
          /\ ToolOK(call.tool)
          /\ fault.why = "invalid" => /\ n \in DOMAIN call.args \cap DOMAIN inputs
                                      /\ ~ValueOK(inputs[n], call.args[n])
          /\ fault.why = "required" => n \in DOMAIN inputs \ DOMAIN call.args /\ inputs[n].required
    BY Reasons DEF Whys
  <1> HIDE DEF rest, n, inputs
  <1>4. fault.why # "required"
    <2> SUFFICES ASSUME fault.why = "required" PROVE FALSE
      OBVIOUS
    <2>1. n \in DOMAIN inputs /\ inputs[n].required /\ n \notin DOMAIN call.args /\ ToolOK(call.tool)
      BY <1>3
    <2>2. n \in DOMAIN cmd.detail /\ cmd.detail[n].required
      BY <1>2, <2>1
    <2>3. PICK i \in DOMAIN rest : rest[i].name = n
      BY <1>1, <1>2, <2>2 DEF Complete, Missing, rest
    <2>4. n # None
      BY <2>1, CommandAssumption, Zenon DEF ToolOK, IsTool, inputs
    <2>5. n \in DOMAIN DynamicArgs(rest, cmd.detail)
      BY <2>3, <2>4 DEF DynamicArgs, IsFlag
    <2> QED
      BY <1>1, <2>1, <2>5
  <1>5. ASSUME fault.why = "invalid", inputs[n].type # "", NEW text,
               text = LastText(rest, n), text # None
        PROVE  /\ ~ValueOK(inputs[n], Text(text))
               /\ ValueOK(inputs[n], Value(text)) => text \in Unread(inputs[n].type)
    <2>1. n \in DOMAIN call.args /\ n \in DOMAIN inputs /\ ~ValueOK(inputs[n], call.args[n])
          /\ ToolOK(call.tool)
      BY <1>3, <1>5
    <2>2. Declared(cmd.detail, n) = inputs[n].type
      BY <1>2, <2>1 DEF Declared
    <2>3. call.args[n] = NormalizeAs(text, inputs[n].type)
      BY <1>1, <1>5, <2>1, <2>2 DEF DynamicArgs
    <2>4. inputs[n].type \in InputTypes \ {""}
      BY <1>5, <2>1 DEF ToolOK, InputOK, DeclarationOK, inputs
    <2>5. Len(inputs[n].items) \in Nat
      BY <2>1 DEF ToolOK, IsTool, inputs
    <2> QED
      BY <1>5, <2>1, <2>3, <2>4, <2>5, NormalizeAsIsBest
  <1> QED
    BY <1>4, <1>5 DEF rest, n, inputs

\* client.go:519-542 against httpbinding.go:413-490: a client that was told what the daemon still
\* has sends every required argument, and each, unless its type is unknown, as a value that is
\* allowed if the text or what it spells is; but for numbers that it does not read as such.
THEOREM RefusalsHaveAReason ==
  ASSUME NEW calls, NEW commands, NEW tools
  PROVE  CommandSpec(calls, commands, tools) => []RefusedForAReason
  <1>1. CommandIInv => RefusedForAReason
    BY InformedCalls DEF RefusedForAReason
  <1> QED
    BY <1>1, CommandInvariance, PTL

=============================================================================
