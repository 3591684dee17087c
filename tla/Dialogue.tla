------------------------------ MODULE Dialogue ------------------------------
(***************************************************************************)
(* What the daemon promises to an upstream server that asks the user       *)
(* questions in the middle of a call (type Session, mcp/session.go:12-21): *)
(* questions reach the user one at a time, an answer is the answer to the  *)
(* question that was asked, an answer that the user gave is not thrown     *)
(* away, and nothing is asked once the call has been answered for.         *)
(* A reply that is no answer is reported as an error.                      *)
(***************************************************************************)
CONSTANTS Question, Answers, Malformed, None, Error

VARIABLES
  asking,   \* the question before the user
  given,    \* what the user answered to each question
  outcome,  \* what the upstream server was told
  over      \* the call is about to be answered for

vars == <<asking, given, outcome, over>>

Init ==
  /\ asking = None
  /\ given = [q \in Question |-> None]
  /\ outcome = [q \in Question |-> None]
  /\ over = FALSE

Ask(q) ==
  /\ ~over /\ asking = None /\ outcome[q] = None
  /\ asking' = q
  /\ UNCHANGED <<given, outcome, over>>

Give(q, a) ==
  /\ asking = q /\ given[q] = None
  /\ given' = [given EXCEPT ![q] = a]
  /\ UNCHANGED <<asking, outcome, over>>

Told(reply) == IF reply \in Malformed THEN Error ELSE reply

Settle(q) ==
  /\ asking = q /\ given[q] # None
  /\ outcome' = [outcome EXCEPT ![q] = Told(given[q])]
  /\ asking' = None
  /\ UNCHANGED <<given, over>>

\* The question could not be asked, or the user went away.
Fail(q) ==
  /\ outcome[q] = None /\ given[q] = None
  /\ outcome' = [outcome EXCEPT ![q] = Error]
  /\ asking' = IF asking = q THEN None ELSE asking
  /\ UNCHANGED <<given, over>>

Finish ==
  /\ asking = None
  /\ over' = TRUE
  /\ UNCHANGED <<asking, given, outcome>>

Next ==
  \/ \E q \in Question :
       \/ Ask(q) \/ Settle(q) \/ Fail(q)
       \/ \E a \in Answers : Give(q, a)
  \/ Finish

Spec == Init /\ [][Next]_vars

=============================================================================
