\* No fault: every written change reaches the core, and the adapter is a UserTable.
CONSTANTS
  Users = {u1, u2}
  Creds = {c1}
  NoCreds = NoCreds
  Unknown = Unknown
  Callers = {w1, w2}
  Boot = Boot
  NoReq = NoReq
  Nothing = Nothing
  Seed <- EmptySeed
  HasTemplate = TRUE
  Faults = {}
  MaxOps = 3
  MaxReloads = 2
SPECIFICATION FairSpec
PROPERTIES EventuallyServed ImplementsUserTable ImplementsLoading
CHECK_DEADLOCK FALSE
