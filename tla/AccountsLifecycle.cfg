\* A request and the lifecycle goroutine; calls fail and the panel restarts.
CONSTANTS
  Users = {u1, u2}
  Admins = {a1}
  NoRow = NoRow
  Idle = Idle
  Keep = Keep
  Quotas = {1}
  MaxUsed = 1
  Lifecycle = TRUE
  Faults <- AllFaults
SPECIFICATION FairSpec
INVARIANT ServedHasRow
PROPERTY QuotaEnforced
