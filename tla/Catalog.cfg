SPECIFICATION FairSpec
CONSTANTS
  a = a
  b = b
  u = u
  v = v
  d1 = d1
  d2 = d2
  Id = {a, b}
  URL = {u, v}
  Database = {d1, d2}
  Gen = {g1, g2}
  Chain = {k1}
  Handler = {h1}
  None = None
  MaxBusy = 1
  Documents <- Files
  Items <- Asked
INVARIANT FiledUnderItsServer
INVARIANT StatusAddsUp
INVARIANT RetryAttemptsItsOwn
INVARIANT Durable
INVARIANT Unambiguous
INVARIANT ForgetsExactly
PROPERTY OldRegistriesFade
CHECK_DEADLOCK FALSE
