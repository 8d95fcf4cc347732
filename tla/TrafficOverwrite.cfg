\* A row written back late takes traffic away.
CONSTANTS
  Users = {u1}
  Handlers = {h1}
  None = None
  Faults = {}
  Churn = FALSE
  MaxSent = 3
SPECIFICATION Spec
PROPERTY StoredNeverDecreases
