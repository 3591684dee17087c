SPECIFICATION Spec
CONSTANTS
  Endpoint = {A, B}
  Op = {o1}
  None = None
  Faults = {"crash", "edit", "store"}
SYMMETRY Symmetry
INVARIANT IInv
INVARIANT TokensStayHome
INVARIANT ClientsStayHome
INVARIANT LogoutHolds
