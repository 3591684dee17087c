------------------------- MODULE ElicitationProofs -------------------------
(***************************************************************************)
(* Proofs about Elicitation, for any number of questions and answers: the  *)
(* connection keeps the promise of Dialogue.                               *)
(***************************************************************************)
EXTENDS Elicitation, TLAPS

USE ElicitationAssumption

\* The queues that hold at most one message.
LEMMA Singleton ==
  ASSUME NEW S, NEW x \in S
  PROVE  /\ <<>> \in Seq(S) /\ <<x>> \in Seq(S)
         /\ <<x>> # <<>>
         /\ Append(<<>>, x) = <<x>>
         /\ Head(<<x>>) = x
         /\ Tail(<<x>>) = <<>>
  OBVIOUS

LEMMA InitInv == Init => IInv
  <1> SUFFICES ASSUME Init PROVE IInv
    OBVIOUS
  <1>1. TypeOK
    <2>1. <<>> \in Seq(Question \cup {Final}) /\ <<>> \in Seq(Answers)
      OBVIOUS
    <2> QED
      BY <2>1 DEF Init, TypeOK
  <1>2. LockIsReaders /\ Outcomes /\ Staged /\ Silent /\ Closing
    BY DEF Init, LockIsReaders, Outcomes, Staged, Silent, Closing
  <1> QED
    BY <1>1, <1>2 DEF IInv

LEMMA ElicitStep ==
  ASSUME IInv, NEW q \in Question, Elicit(q)
  PROVE  IInv'
  <1> USE DEF IInv, Elicit, client
  <1>1. TypeOK'
    BY DEF TypeOK
  <1>2. LockIsReaders'
    BY DEF LockIsReaders
  <1>3. Outcomes'
    BY DEF Outcomes
  <1>4. Staged'
    BY DEF Staged, Unread, Shown, Answered, Deserted
  <1>5. Silent'
    BY DEF Silent
  <1>6. Closing'
    BY DEF Closing
  <1> QED
    BY <1>1, <1>2, <1>3, <1>4, <1>5, <1>6

LEMMA SendStep ==
  ASSUME IInv, NEW q \in Question, Send(q)
  PROVE  IInv'
  <1> USE DEF IInv, Send, client, Alive, Fails, Asks
  <1>1. TypeOK'
    BY DEF TypeOK, LockIsReaders, Silent
  <1>2. LockIsReaders'
    BY DEF TypeOK, LockIsReaders
  <1>3. Outcomes'
    BY DEF TypeOK, Outcomes
  <1>4. Staged'
    <2>1. CASE UNCHANGED <<mu, toCli>> /\ (finished \/ cli = "gone")
      BY <2>1 DEF TypeOK, LockIsReaders, Staged, Unread, Shown, Answered, Deserted, Closing
    <2>2. CASE ~finished /\ mu' = q
      <3>1. toCli = <<>> /\ toDaemon = <<>> /\ given[q] = None /\ cli \in {"read", "gone"}
        BY <2>2 DEF TypeOK, Silent, Closing, Outcomes
      <3> QED
        BY <2>2, <3>1, Singleton DEF Staged, Unread, Deserted
    <2> QED
      BY <2>1, <2>2
  <1>5. Silent'
    BY DEF Silent
  <1>6. Closing'
    BY DEF Closing
  <1> QED
    BY <1>1, <1>2, <1>3, <1>4, <1>5, <1>6

LEMMA ReadAnswerStep ==
  ASSUME IInv, NEW q \in Question, ReadAnswer(q)
  PROVE  IInv'
  <1> USE DEF IInv, ReadAnswer, client, Alive, Told
  <1>1. TypeOK'
    BY DEF TypeOK
  <1>2. LockIsReaders'
    BY DEF TypeOK, LockIsReaders
  <1>3. Outcomes'
    BY DEF TypeOK, Outcomes
  <1>4. Staged'
    BY DEF Staged, Unread, Shown, Answered, Deserted
  <1>5. Silent'
    BY DEF TypeOK, LockIsReaders, Staged, Unread, Shown, Answered, Deserted, Silent
  <1>6. Closing'
    BY DEF Closing
  <1> QED
    BY <1>1, <1>2, <1>3, <1>4, <1>5, <1>6

LEMMA ReadFailsStep ==
  ASSUME IInv, NEW q \in Question, ReadFails(q)
  PROVE  IInv'
  <1> USE DEF IInv, ReadFails, client, Alive, Fails
  <1>1. TypeOK'
    BY DEF TypeOK
  <1>2. LockIsReaders'
    BY DEF TypeOK, LockIsReaders
  <1>3. Outcomes'
    BY DEF TypeOK, Outcomes
  <1>4. Staged'
    BY DEF Staged, Unread, Shown, Answered, Deserted
  <1>5. Silent'
    BY Singleton DEF TypeOK, LockIsReaders, Staged, Unread, Shown, Answered, Deserted, Silent
  <1>6. Closing'
    BY DEF Closing
  <1> QED
    BY <1>1, <1>2, <1>3, <1>4, <1>5, <1>6

LEMMA OperationReturnsStep ==
  ASSUME IInv, OperationReturns
  PROVE  IInv'
  <1> USE DEF IInv, OperationReturns, client
  <1>1. TypeOK'
    BY DEF TypeOK
  <1>2. LockIsReaders'
    BY DEF LockIsReaders
  <1>3. Outcomes'
    BY DEF Outcomes
  <1>4. Staged'
    BY DEF Staged, Unread, Shown, Answered, Deserted
  <1>5. Silent'
    BY DEF Silent
  <1>6. Closing'
    BY DEF Closing
  <1> QED
    BY <1>1, <1>2, <1>3, <1>4, <1>5, <1>6

LEMMA MarkFinishedStep ==
  ASSUME IInv, MarkFinished
  PROVE  IInv'
  <1> USE DEF IInv, MarkFinished, client
  <1>1. TypeOK'
    BY DEF TypeOK
  <1>2. LockIsReaders'
    BY DEF LockIsReaders
  <1>3. Outcomes'
    BY DEF Outcomes
  <1>4. Staged'
    BY DEF Staged, Unread, Shown, Answered, Deserted
  <1>5. Silent'
    BY DEF Silent
  <1>6. Closing'
    BY DEF Closing
  <1> QED
    BY <1>1, <1>2, <1>3, <1>4, <1>5, <1>6

LEMMA ReplyStep ==
  ASSUME IInv, Reply
  PROVE  IInv'
  <1> USE DEF IInv, Reply, client
  <1>1. TypeOK'
    BY DEF TypeOK
  <1>2. LockIsReaders'
    BY DEF LockIsReaders
  <1>3. Outcomes'
    BY DEF Outcomes
  <1>4. Staged'
    BY DEF TypeOK, LockIsReaders, Silent, Closing, Staged, Unread, Shown, Answered, Deserted
  <1>5. Silent'
    BY Singleton DEF Silent
  <1>6. Closing'
    BY DEF Closing
  <1> QED
    BY <1>1, <1>2, <1>3, <1>4, <1>5, <1>6

LEMMA DaemonDiesStep ==
  ASSUME IInv, DaemonDies
  PROVE  IInv'
  <1> USE DEF IInv, DaemonDies, client, Alive
  <1>1. TypeOK'
    BY DEF TypeOK
  <1>2. LockIsReaders'
    BY DEF LockIsReaders
  <1>3. Outcomes'
    BY DEF Outcomes
  <1>4. Staged'
    BY DEF Staged, Unread, Shown, Answered, Deserted
  <1>5. Silent'
    BY DEF Silent
  <1>6. Closing'
    BY DEF Closing
  <1> QED
    BY <1>1, <1>2, <1>3, <1>4, <1>5, <1>6

LEMMA CliReadsStep ==
  ASSUME IInv, CliReads
  PROVE  IInv'
  <1> USE DEF IInv, CliReads, daemon
  <1>1. TypeOK'
    BY DEF TypeOK
  <1>2. LockIsReaders'
    BY DEF LockIsReaders
  <1>3. Outcomes'
    BY DEF Outcomes
  <1>4. Staged'
    BY DEF Staged, Unread, Shown, Answered, Deserted
  <1>5. Silent'
    <2>1. CASE toCli = <<Final>>
      BY <2>1, Singleton DEF TypeOK, Silent
    <2>2. CASE mu = None => toCli = <<>>
      BY <2>2 DEF Silent
    <2> QED
      BY <2>1, <2>2 DEF Silent
  <1>6. Closing'
    BY DEF Closing
  <1> QED
    BY <1>1, <1>2, <1>3, <1>4, <1>5, <1>6

LEMMA UserAnswersStep ==
  ASSUME IInv, NEW a \in Answers, UserAnswers(a)
  PROVE  IInv'
  <1> USE DEF IInv, UserAnswers, daemon
  <1>1. TypeOK'
    BY DEF TypeOK, LockIsReaders, Staged, Unread, Shown, Answered, Deserted, Silent
  <1>2. LockIsReaders'
    BY DEF LockIsReaders
  <1>3. Outcomes'
    BY DEF TypeOK, LockIsReaders, Staged, Unread, Shown, Answered, Deserted, Silent, Outcomes
  <1>4. Staged'
    BY Singleton DEF TypeOK, Staged, Unread, Shown, Answered, Deserted
  <1>5. Silent'
    BY DEF Silent
  <1>6. Closing'
    BY DEF Closing
  <1> QED
    BY <1>1, <1>2, <1>3, <1>4, <1>5, <1>6

LEMMA CliFailsStep ==
  ASSUME IInv, CliFails
  PROVE  IInv'
  <1> USE DEF IInv, CliFails, daemon, CliGone
  <1>1. TypeOK'
    BY DEF TypeOK
  <1>2. LockIsReaders'
    BY DEF LockIsReaders
  <1>3. Outcomes'
    BY DEF Outcomes
  <1>4. Staged'
    BY DEF Staged, Unread, Shown, Answered, Deserted
  <1>5. Silent'
    BY DEF Silent
  <1>6. Closing'
    BY DEF Closing
  <1> QED
    BY <1>1, <1>2, <1>3, <1>4, <1>5, <1>6

LEMMA CliDiesStep ==
  ASSUME IInv, CliDies
  PROVE  IInv'
  <1> USE DEF IInv, CliDies, daemon, CliGone
  <1>1. TypeOK'
    BY DEF TypeOK
  <1>2. LockIsReaders'
    BY DEF LockIsReaders
  <1>3. Outcomes'
    BY DEF Outcomes
  <1>4. Staged'
    BY DEF Staged, Unread, Shown, Answered, Deserted
  <1>5. Silent'
    BY DEF Silent
  <1>6. Closing'
    BY DEF Closing
  <1> QED
    BY <1>1, <1>2, <1>3, <1>4, <1>5, <1>6

LEMMA NextInv == IInv /\ [Next]_vars => IInv'
  <1> SUFFICES ASSUME IInv, [Next]_vars PROVE IInv'
    OBVIOUS
  <1>1. CASE UNCHANGED vars
    BY <1>1 DEF vars, daemon, client, IInv, TypeOK, LockIsReaders, Outcomes, Staged,
       Unread, Shown, Answered, Deserted, Silent, Closing
  <1>2. ASSUME NEW q \in Question, Elicit(q) \/ QuestionStep(q) PROVE IInv'
    BY <1>2, ElicitStep, SendStep, ReadAnswerStep, ReadFailsStep DEF QuestionStep
  <1>3. CASE HandlerStep \/ DaemonDies
    BY <1>3, OperationReturnsStep, MarkFinishedStep, ReplyStep, DaemonDiesStep DEF HandlerStep
  <1>4. CASE ClientStep \/ CliDies
    BY <1>4, CliReadsStep, CliFailsStep, CliDiesStep DEF ClientStep
  <1>5. ASSUME NEW a \in Answers, UserAnswers(a) PROVE IInv'
    BY <1>5, UserAnswersStep
  <1> QED
    BY <1>1, <1>2, <1>3, <1>4, <1>5 DEF Next

\* The inductive invariant holds of every reachable state of the connection.
THEOREM Invariance == Spec => []IInv
  BY InitInv, NextInv, PTL DEF Spec

\* Once the final response is written, nothing else is on the wire, for any number of
\* questions: session.finished and session.mu together do what session.go:57-58 says.
THEOREM NothingAfterFinal == Spec => []FinalLast
  <1>1. IInv => FinalLast
    BY DEF IInv, TypeOK, LockIsReaders, Silent, Closing, FinalLast
  <1> QED
    BY <1>1, Invariance, PTL

\* What the steps of the connection do to the conversation.
LEMMA DialogInit == Init => Dialog!Init
  BY DEF Init, Dialog!Init

LEMMA DialogStep == IInv /\ [Next]_vars => [Dialog!Next]_Dialog!vars
  <1> SUFFICES ASSUME IInv, [Next]_vars PROVE [Dialog!Next]_Dialog!vars
    OBVIOUS
  <1> USE DEF IInv, TypeOK
  <1>1. CASE UNCHANGED vars
    BY <1>1 DEF vars, daemon, client, Dialog!vars
  <1>2. ASSUME NEW q \in Question, Elicit(q) PROVE [Dialog!Next]_Dialog!vars
    BY <1>2 DEF Elicit, client, Dialog!vars
  <1>3. ASSUME NEW q \in Question, Send(q) PROVE [Dialog!Next]_Dialog!vars
    <2>1. outcome[q] = None /\ given[q] = None /\ mu = None
      BY <1>3 DEF Send, Outcomes
    <2>2. CASE Fails(q) /\ UNCHANGED mu
      BY <1>3, <2>1, <2>2 DEF Send, Fails, client, Dialog!Next, Dialog!Fail
    <2>3. CASE ~finished /\ Asks(q) /\ mu' = q
      BY <1>3, <2>1, <2>3 DEF Send, Asks, client, Dialog!Next, Dialog!Ask
    <2> QED
      BY <1>3, <2>2, <2>3 DEF Send
  <1>4. ASSUME NEW q \in Question, ReadAnswer(q) PROVE [Dialog!Next]_Dialog!vars
    <2>1. mu = q
      BY <1>4 DEF ReadAnswer, LockIsReaders
    <2>2. given[q] # None /\ Head(toDaemon) = given[q]
      BY <1>4, <2>1, Singleton DEF ReadAnswer, Staged, Unread, Shown, Answered, Deserted
    <2>3. Dialog!Settle(q)
      BY <1>4, <2>1, <2>2 DEF ReadAnswer, client, Told, Dialog!Settle, Dialog!Told
    <2> QED
      BY <2>3 DEF Dialog!Next
  <1>5. ASSUME NEW q \in Question, ReadFails(q) PROVE [Dialog!Next]_Dialog!vars
    <2>1. mu = q /\ outcome[q] = None
      BY <1>5 DEF ReadFails, LockIsReaders, Outcomes
    <2>2. given[q] = None
      BY <1>5, <2>1, Singleton DEF ReadFails, Staged, Unread, Shown, Answered, Deserted
    <2>3. Dialog!Fail(q)
      BY <1>5, <2>1, <2>2 DEF ReadFails, Fails, client, Dialog!Fail
    <2> QED
      BY <2>3 DEF Dialog!Next
  <1>6. CASE OperationReturns \/ Reply \/ DaemonDies
    BY <1>6 DEF OperationReturns, Reply, DaemonDies, client, Dialog!vars
  <1>7. CASE MarkFinished
    BY <1>7 DEF MarkFinished, client, Dialog!Next, Dialog!Finish
  <1>8. CASE CliReads \/ CliFails \/ CliDies
    BY <1>8 DEF CliReads, CliFails, CliDies, CliGone, daemon, Dialog!vars
  <1>9. ASSUME NEW a \in Answers, UserAnswers(a) PROVE [Dialog!Next]_Dialog!vars
    <2>1. PICK q \in Question : mu = q
      BY <1>9 DEF UserAnswers, Silent
    <2>2. asked = q /\ given[q] = None
      BY <1>9, <2>1, Singleton DEF UserAnswers, Staged, Unread, Shown, Answered, Deserted
    <2>3. Dialog!Give(q, a)
      BY <1>9, <2>1, <2>2 DEF UserAnswers, daemon, Dialog!Give
    <2> QED
      BY <2>3 DEF Dialog!Next
  <1> QED
    BY <1>1, <1>2, <1>3, <1>4, <1>5, <1>6, <1>7, <1>8, <1>9
    DEF Next, QuestionStep, HandlerStep, ClientStep

\* The connection implements Dialogue: questions reach the user one at a time, an answer
\* goes to the question it was given to although messages carry no identifier, it is
\* never thrown away, and nothing is asked once the handler has finished.
THEOREM KeepsThePromise == Spec => Correlates
  BY Invariance, DialogInit, DialogStep, PTL DEF Spec, Correlates, Dialog!Spec

=============================================================================
