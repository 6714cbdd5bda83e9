SPECIFICATION Spec
CONSTANTS
  Req = {r1, r2}
  Host = {p1}
  Link = {l1, l2}
  None = None
  MaxRequests = 2
  MaxUrls = 2
  RequestTicks = 1
  LocalTicks = 1
  TicketTicks = 1
  LocalEnabled = TRUE
  Midway = TRUE
SYMMETRY Symmetry
INVARIANTS
  CompletedOnce
