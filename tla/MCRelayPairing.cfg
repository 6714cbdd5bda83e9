SPECIFICATION Spec
CONSTANTS
  Socket = {s1, s2, s3}
  Account = {a1}
  PeerId = {p1, p2, p3}
  Service = {v1}
  Code = {c1, c2}
  Key = {}
  None = None
  MaxSessions = 3
  MaxPerClient = 1
  MaxRoutes = 2
  MaxAttempts = 1
  AuthTicks = 1
  LoginTicks = 0
  OfferTicks = 1
  ConfirmTicks = 2
  RouteTicks = 1
  WindowTicks = 1
SYMMETRY Symmetry
CONSTRAINT OneInTransit
INVARIANTS
  Sound
  OnePairingAtATime
  PairingScope
PROPERTIES
  ImplementsContract
