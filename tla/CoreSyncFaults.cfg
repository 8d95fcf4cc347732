\* Every fault: safety of the written changes.
CONSTANTS
  Users = {u1, u2}
  Creds = {c1}
  NoCreds = NoCreds
  Unknown = Unknown
  Callers = {w1, w2}
  Boot = Boot
  NoReq = NoReq
  Nothing = Nothing
  Seed <- EmptySeed
  HasTemplate = TRUE
  Faults <- AllFaults
  MaxOps = 4
  MaxReloads = 2
SPECIFICATION Spec
SYMMETRY Symmetry
INVARIANTS TypeOK AckedInFile AckedServedOrPending
