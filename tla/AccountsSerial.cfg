\* One request at a time; the core's file and the store may refuse,
\* and the panel restarts at any step.
CONSTANTS
  Users = {u1, u2}
  Admins = {a1}
  NoRow = NoRow
  Idle = Idle
  Keep = Keep
  Quotas = {0, 1}
  MaxUsed = 1
  Lifecycle = FALSE
  Faults <- AllFaults
SPECIFICATION Spec
SYMMETRY Symmetry
INVARIANTS TypeOK FailureSpoilsOnlyItsUser
