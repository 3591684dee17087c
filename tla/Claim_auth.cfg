SPECIFICATION Spec
CONSTANTS
  Server = {s1}
  Service = {}
  Endpoint = {e1}
  State = {o1}
  Proc = {p1}
  Ticker = Ticker
  Retrier = {r1}
  None = None
  Spent = Spent
  AttemptCap = 2
  Stimuli = {"server", "tick"}
SYMMETRY Symmetry
PROPERTY AuthRequiredNotRetried
CHECK_DEADLOCK FALSE
