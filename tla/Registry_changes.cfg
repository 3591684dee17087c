SPECIFICATION Spec
CONSTANTS
  Server = {s1, s2}
  Service = {h1}
  Endpoint = {e1}
  State = {o1, o2, o3}
  Proc = {p1}
  Ticker = Ticker
  Retrier = {r1}
  None = None
  Spent = Spent
  AttemptCap = 2
  Stimuli = {"refresh", "change", "auth", "server", "login"}
SYMMETRY Symmetry
INVARIANT IInv
INVARIANT NoLostRetry
CHECK_DEADLOCK FALSE
