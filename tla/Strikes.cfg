\* One user, a limit of one or two bytes per second, polls and checks every
\* two seconds, every disturbance until they end.
CONSTANTS
  Users = {u1}
  None = None
  Limits = {1, 2}
  MaxRate = 2
  MaxBytes = 4
  PollInterval = 2
  StrikeLimit = 3
  Faults <- AllFaults
SPECIFICATION FairSpec
INVARIANTS TypeOK HonestNeverStruck
PROPERTIES TwoReadingsToDisable  HogDisabled
