---------------------------- MODULE Elicitation ----------------------------
(***************************************************************************)
(* One connection between a command-line client and the daemon, from the   *)
(* moment the daemon has decoded the request: internal/server/session.go,  *)
(* handleConn in server.go, and call and promptElicitation in client.go.   *)
(*                                                                         *)
(* While the handler runs the operation, the upstream server may ask the   *)
(* user questions.  Each question has a goroutine of its own (the library  *)
(* mcp-go starts it), and all of them share the connection with the        *)
(* handler, which writes the final response when the operation returns or  *)
(* its context expires.  Messages carry no identifier: what makes an       *)
(* answer the answer to a question is that session.mu is held from the     *)
(* writing of the question to the reading of the answer.                   *)
(*                                                                         *)
(* Either process may die at any time, and the client's fifteen minutes    *)
(* may run out, which is the same as dying.                                *)
(***************************************************************************)
EXTENDS Sequences

CONSTANTS
  Question,  \* questions that the upstream server asks during the call
  Answers,   \* what a client may reply: accept, decline, cancel, or something else
  Malformed, \* replies of another action, without an answer, or with an unknown one;
             \* mcpshim sends none of these, another program may
  None,      \* no question, no answer
  Error,     \* the error that the upstream server is told
  Final      \* the final response

ASSUME ElicitationAssumption ==
  /\ None \notin Question \cup Answers \cup {Error, Final}
  /\ Final \notin Question
  /\ Error \notin Answers
  /\ Malformed \subseteq Answers

VARIABLES
  handler,   \* handleConn: in the operation, before markFinished, before the reply, done
  finished,  \* session.finished
  mu,        \* the question whose goroutine holds session.mu
  pc,        \* where each question's goroutine is
  outcome,   \* what it returned
  toCli, toDaemon,  \* the two directions of the connection
  cli,       \* the client process
  asked,     \* the question it shows to the user
  given      \* the replies that it has written

daemon == <<handler, finished, mu, pc, outcome>>
client == <<cli, asked, given>>
vars == <<daemon, toCli, toDaemon, client>>

TypeOK ==
  /\ handler \in {"call", "finish", "reply", "closed", "dead"}
  /\ finished \in BOOLEAN
  /\ mu \in Question \cup {None}
  /\ pc \in [Question -> {"idle", "lock", "read", "over"}]
  /\ outcome \in [Question -> Answers \cup {None, Error}]
  /\ toCli \in Seq(Question \cup {Final})
  /\ toDaemon \in Seq(Answers)
  /\ cli \in {"read", "prompt", "over", "gone"}
  /\ asked \in Question \cup {None}
  /\ given \in [Question -> Answers \cup {None}]

Init ==
  /\ handler = "call"
  /\ finished = FALSE
  /\ mu = None
  /\ pc = [q \in Question |-> "idle"]
  /\ outcome = [q \in Question |-> None]
  /\ toCli = <<>>
  /\ toDaemon = <<>>
  /\ cli = "read"
  /\ asked = None
  /\ given = [q \in Question |-> None]

Alive == handler # "dead"

-----------------------------------------------------------------------------
(* The daemon: questions. *)

\* mcp-go calls Elicit in a goroutine of its own while the operation runs.
Elicit(q) ==
  /\ handler = "call"
  /\ pc[q] = "idle"
  /\ pc' = [pc EXCEPT ![q] = "lock"]
  /\ UNCHANGED <<handler, finished, mu, outcome, toCli, toDaemon, client>>

\* RequestElicitation returns an error to the upstream server.
Fails(q) ==
  /\ pc' = [pc EXCEPT ![q] = "over"]
  /\ outcome' = [outcome EXCEPT ![q] = Error]

\* The question is on the wire and its goroutine waits for the answer.
Asks(q) ==
  /\ pc' = [pc EXCEPT ![q] = "read"]
  /\ toCli' = IF cli = "gone" THEN toCli ELSE Append(toCli, q)
  /\ UNCHANGED outcome

\* Fault: the lock covers the writing of the question only.
SendUnlocks(q) ==
  /\ Alive /\ pc[q] = "lock" /\ mu = None
  /\ \/ finished /\ Fails(q) /\ UNCHANGED toCli
     \/ ~finished /\ Asks(q)
  /\ UNCHANGED <<handler, finished, mu, toDaemon, client>>

\* Fault: a question does not look at `finished'.
SendAnyway(q) ==
  /\ Alive /\ pc[q] = "lock" /\ mu = None
  /\ Asks(q)
  /\ mu' = q
  /\ UNCHANGED <<handler, finished, toDaemon, client>>

\* Lock, the check of `finished', and Encode.  Only the flush meets a client that is
\* gone, and its error is ignored; the writer remembers it and fails the next question.
Send(q) ==
  /\ Alive /\ pc[q] = "lock" /\ mu = None
  /\ \/ /\ finished \/ cli = "gone"
        /\ Fails(q)
        /\ UNCHANGED <<mu, toCli>>
     \/ /\ ~finished
        /\ Asks(q)
        /\ mu' = q
  /\ UNCHANGED <<handler, finished, toDaemon, client>>

\* What the upstream server is told of a reply.
Told(reply) == IF reply \in Malformed THEN Error ELSE reply

\* Fault: the goroutine returns without unlocking.
ReadKeepsLock(q) ==
  /\ Alive /\ pc[q] = "read" /\ toDaemon # <<>>
  /\ outcome' = [outcome EXCEPT ![q] = Told(Head(toDaemon))]
  /\ toDaemon' = Tail(toDaemon)
  /\ pc' = [pc EXCEPT ![q] = "over"]
  /\ UNCHANGED <<handler, finished, mu, toCli, client>>

\* Decode returns a reply, the lock is released and the upstream server is told.
ReadAnswer(q) ==
  /\ Alive /\ pc[q] = "read" /\ toDaemon # <<>>
  /\ outcome' = [outcome EXCEPT ![q] = Told(Head(toDaemon))]
  /\ toDaemon' = Tail(toDaemon)
  /\ pc' = [pc EXCEPT ![q] = "over"]
  /\ mu' = None
  /\ UNCHANGED <<handler, finished, toCli, client>>

\* Decode meets the end of the connection.
ReadFails(q) ==
  /\ Alive /\ pc[q] = "read" /\ toDaemon = <<>> /\ cli = "gone"
  /\ Fails(q)
  /\ mu' = None
  /\ UNCHANGED <<handler, finished, toCli, toDaemon, client>>

-----------------------------------------------------------------------------
(* The daemon: the handler. *)

\* handleCtx returns: the operation is over, or its context has expired.
OperationReturns ==
  /\ handler = "call"
  /\ handler' = "finish"
  /\ UNCHANGED <<finished, mu, pc, outcome, toCli, toDaemon, client>>

\* Fault: markFinished does not take the lock.
MarkFinishedUnlocked ==
  /\ handler = "finish"
  /\ finished' = TRUE
  /\ handler' = "reply"
  /\ UNCHANGED <<mu, pc, outcome, toCli, toDaemon, client>>

\* A question that waits for its answer holds the lock, and the handler waits with it.
MarkFinished ==
  /\ handler = "finish"
  /\ mu = None
  /\ finished' = TRUE
  /\ handler' = "reply"
  /\ UNCHANGED <<mu, pc, outcome, toCli, toDaemon, client>>

Reply ==
  /\ handler = "reply"
  /\ handler' = "closed"
  /\ toCli' = IF cli = "gone" THEN toCli ELSE Append(toCli, Final)
  /\ UNCHANGED <<finished, mu, pc, outcome, toDaemon, client>>

\* The process ends, its connections are closed.
DaemonDies ==
  /\ Alive
  /\ handler' = "dead"
  /\ UNCHANGED <<finished, mu, pc, outcome, toCli, toDaemon, client>>

-----------------------------------------------------------------------------
(* The client. *)

\* call decodes the next message: a question, or the final response.
CliReads ==
  /\ cli = "read" /\ toCli # <<>>
  /\ toCli' = Tail(toCli)
  /\ IF Head(toCli) = Final
       THEN cli' = "over" /\ UNCHANGED asked
       ELSE cli' = "prompt" /\ asked' = Head(toCli)
  /\ UNCHANGED <<daemon, toDaemon, given>>

\* promptElicitation returns and the reply is written.
UserAnswers(a) ==
  /\ cli = "prompt" /\ handler \notin {"closed", "dead"}
  /\ toDaemon' = Append(toDaemon, a)
  /\ given' = [given EXCEPT ![asked] = a]
  /\ cli' = "read"
  /\ asked' = None
  /\ UNCHANGED <<daemon, toCli>>

CliGone ==
  /\ cli' = "gone"
  /\ asked' = None
  /\ toCli' = <<>>
  /\ UNCHANGED <<daemon, toDaemon, given>>

\* call meets the end of the connection.
CliFails ==
  /\ cli = "read" /\ toCli = <<>> /\ handler \in {"closed", "dead"}
  /\ CliGone

\* The user interrupts the client, or its deadline passes.
CliDies ==
  /\ cli \in {"read", "prompt"}
  /\ CliGone

-----------------------------------------------------------------------------

QuestionStep(q) == Send(q) \/ ReadAnswer(q) \/ ReadFails(q)
HandlerStep == OperationReturns \/ MarkFinished \/ Reply
ClientStep == CliReads \/ CliFails

Next ==
  \/ \E q \in Question : Elicit(q) \/ QuestionStep(q)
  \/ HandlerStep
  \/ DaemonDies
  \/ ClientStep
  \/ \E a \in Answers : UserAnswers(a)
  \/ CliDies

Spec == Init /\ [][Next]_vars

\* Goroutines are scheduled, a context bounds the operation, and the client reads what
\* arrives.  The user may never answer, and nothing has to die.
Fairness ==
  /\ \A q \in Question : WF_vars(QuestionStep(q))
  /\ WF_vars(HandlerStep)
  /\ WF_vars(ClientStep)

FairSpec == Spec /\ Fairness

-----------------------------------------------------------------------------
(* Properties. *)

Dialog == INSTANCE Dialogue WITH asking <- mu, over <- finished

\* session.go:15-17: the connection keeps the promise of the Session interface, although
\* messages have no identifiers, questions come from several goroutines, the operation
\* may return while a question is open, and either side may die.
Correlates == Dialog!Spec

\* session.go:57-58: once the final response is written nothing else is on the wire,
\* nobody waits for an answer and the client shows no question.
FinalLast ==
  handler = "closed" =>
    /\ mu = None
    /\ \A q \in Question : pc[q] # "read"
    /\ toCli \in {<<>>, <<Final>>}
    /\ cli # "prompt"

\* The stages of the open question q; one of them holds while its goroutine has the lock.
Unread(q) == toCli = <<q>> /\ toDaemon = <<>> /\ cli = "read" /\ given[q] = None
Shown(q) == toCli = <<>> /\ toDaemon = <<>> /\ cli = "prompt" /\ asked = q /\ given[q] = None
Answered(q) ==
  toCli = <<>> /\ given[q] # None /\ toDaemon = <<given[q]>> /\ cli \in {"read", "gone"}
Deserted(q) == toCli = <<>> /\ toDaemon = <<>> /\ cli = "gone" /\ given[q] = None

LockIsReaders == \A q \in Question : mu = q <=> pc[q] = "read"

Outcomes ==
  \A q \in Question :
    /\ outcome[q] = None <=> pc[q] # "over"
    /\ pc[q] \in {"idle", "lock"} => given[q] = None

Staged == \A q \in Question : mu = q => Unread(q) \/ Shown(q) \/ Answered(q) \/ Deserted(q)

Silent ==
  mu = None =>
    /\ toDaemon = <<>>
    /\ cli # "prompt"
    /\ toCli \in {<<>>, <<Final>>}
    /\ toCli = <<Final>> \/ cli = "over" => handler \in {"closed", "dead"}

Closing ==
  /\ handler \in {"reply", "closed"} => finished
  /\ finished => mu = None

\* The inductive invariant behind Correlates and FinalLast.
IInv == TypeOK /\ LockIsReaders /\ Outcomes /\ Staged /\ Silent /\ Closing

\* The client ends, with the final response or with an error, whoever dies and however
\* the questions interleave with the end of the operation, or it is the user who leaves
\* a question unanswered: nobody waits for anybody else for ever (session.mu is held
\* while the daemon reads, and markFinished waits for it).
Ends == <>(cli \in {"over", "gone"}) \/ <>[](cli = "prompt")

=============================================================================
