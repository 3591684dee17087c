SPECIFICATION OSpec
CONSTANTS
  Server = {s1}
  Service = {}
  Endpoint = {e1}
  State = {o1}
  Proc = {p1}
  Ticker = Ticker
  Retrier = {r1, r2}
  None = None
  Spent = Spent
  AttemptCap = 2
  Stimuli = {"refresh", "server", "change", "tick", "auth", "login"}
SYMMETRY Symmetry
INVARIANT AgreeAfterLoneAttempt
INVARIANT OneRetryPerServer
PROPERTY ParkedUntilRequested
CHECK_DEADLOCK FALSE
