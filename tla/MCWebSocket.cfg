SPECIFICATION FairSpec
CONSTANTS
  MaxOpens = 3
  MaxAddresses = 2
  Handshake = 2
  CloseWait = 1
CHECK_DEADLOCK FALSE
INVARIANTS
  SignalsInOrder
  HandshakeBounded
  EveryAddressTried
PROPERTIES
  AttemptsEnd
