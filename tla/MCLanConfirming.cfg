SPECIFICATION FairSpec
CONSTANTS
  Socket = {s1}
  PeerId = {d1}
  Device = {d1}
  None = None
  MaxClients = 1
  MaxOffers = 1
  Addresses = 1
  Signed = FALSE
PROPERTIES
  ConfirmingEnds
