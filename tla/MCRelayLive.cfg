SPECIFICATION FairSpec
CONSTANTS
  Socket = {s1, s2}
  Account = {a1}
  PeerId = {p1, p2}
  Service = {v1}
  Code = {c1}
  Key = {k1}
  None = None
  MaxSessions = 2
  MaxPerClient = 1
  MaxRoutes = 1
  MaxAttempts = 1
  AuthTicks = 1
  LoginTicks = 0
  OfferTicks = 1
  ConfirmTicks = 1
  RouteTicks = 1
  WindowTicks = 1
INVARIANTS
  UniquePeer
  RouteScope
PROPERTIES
  EntriesEnd
