SPECIFICATION FairSpec
CONSTANTS
  None = None
  U1 = u1
  U2 = u2
  Users = {u1, u2}
  CoreIds <- Sorted
  Sites <- TypicalSites
  Addresses <- TypicalAddresses
  Records <- TypicalRecords
INVARIANTS
  TypeOK
  RunsAsConfigured
  NothingLeftOpen
  EveryoneSynced
PROPERTIES
  DdnsWritesRight
  DdnsConverges
