\* A request racing the lifecycle goroutine enables a user again.
CONSTANTS
  Users = {u1}
  Admins = {a1}
  NoRow = NoRow
  Idle = Idle
  Keep = Keep
  Quotas = {1, 2}
  MaxUsed = 2
  Lifecycle = TRUE
  Faults = {}
SPECIFICATION Spec
PROPERTY PatchKeepsOthers
