SPECIFICATION Spec
CONSTANTS
  None = None
  U1 = u1
  U2 = u2
  K1 = k1
  K2 = k2
  Users = {u1, u2}
  Secrets <- TwoSecrets
  Names <- Called
  Settings <- TypicalSettings
  Addresses = {a1}
  ConnIds = {c1, c2}
  Goroutines = {g1, g2}
SYMMETRY Interchangeable
INVARIANTS
  TypeOK
  LinkWorks
  RoundTrip
  ForeignKept
  MarkersExact
  AttributionExact
PROPERTIES
  NobodyLockedOut
  KillerThorough
