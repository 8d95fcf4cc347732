\* A panel restart within the debounce forgets the reload, and nobody enabled is left.
CONSTANTS
  Users = {u1, u2}
  Creds = {c1}
  NoCreds = NoCreds
  Unknown = Unknown
  Callers = {w1}
  Boot = Boot
  NoReq = NoReq
  Nothing = Nothing
  Seed <- EmptySeed
  HasTemplate = TRUE
  Faults = {"crash"}
  MaxOps = 2
  MaxReloads = 2
SPECIFICATION FairSpec
PROPERTY RemovedIsCutOff
CHECK_DEADLOCK FALSE
