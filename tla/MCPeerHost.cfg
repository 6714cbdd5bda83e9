SPECIFICATION FairSpec
CONSTANTS
  Socket = {s1, s2, s3}
  Ticket = {t1, t2}
  None = None
  MaxPlaces = 1
  MaxLinks = 2
  MaxTickets = 1
  MaxSessions = 2
CHECK_DEADLOCK FALSE
INVARIANTS
  TicketOpensOnce
  TrustIsCurrent
  SocketsAreOwned
PROPERTIES
  PlacesComeBack
