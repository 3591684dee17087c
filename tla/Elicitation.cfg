SPECIFICATION FairSpec
CONSTANTS
  Question = {q1, q2, q3}
  Answers = {accept, decline, other}
  Malformed = {other}
  None = None
  Error = Error
  Final = Final
INVARIANT IInv
INVARIANT FinalLast
PROPERTY Correlates
PROPERTY Ends
CHECK_DEADLOCK FALSE
