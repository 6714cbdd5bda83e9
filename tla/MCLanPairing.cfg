SPECIFICATION FairSpec
CONSTANTS
  Socket = {s1, s2}
  PeerId = {d1, d2}
  Device = {d1}
  None = None
  MaxClients = 2
  MaxOffers = 2
  Addresses = 2
  Signed = TRUE
INVARIANTS
  AdmittedOnce
  AccessIsGranted
  PendingIsCurrent
PROPERTIES
  PairingsEnd
