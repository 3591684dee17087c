SPECIFICATION FairSpec
CONSTANTS
  Server = {s1}
  Service = {}
  Endpoint = {e1, e2}
  State = {o1}
  Proc = {p1}
  Ticker = Ticker
  Retrier = {r1}
  None = None
  Spent = Spent
  AttemptCap = 2
  Stimuli = {"change", "tick", "auth", "login", "server"}
PROPERTY Recovers
CHECK_DEADLOCK FALSE
