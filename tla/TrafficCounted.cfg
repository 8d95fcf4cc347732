\* Every fault, a handler writing rows back, users deleted and created again.
CONSTANTS
  Users = {u1, u2}
  Handlers = {h1}
  None = None
  Faults <- AllFaults
  Churn = TRUE
  MaxSent = 2
SPECIFICATION FairSpec
INVARIANTS TypeOK NeverOverbilled ExactSinceBaseline
PROPERTY EventuallyCounted
