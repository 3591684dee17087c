SPECIFICATION Spec
CONSTANTS
  Op = {o1, o2}
  Client = {c1, c2}
  None = None
SYMMETRY Symmetry
INVARIANT PerformedOnce
INVARIANT OneResource
INVARIANT LoginIsRenewable
INVARIANT NoNeedlessLogin
CHECK_DEADLOCK FALSE
