\* One administrator with two sessions, one ticket, two requests at a time.
CONSTANTS
  Admins = {a1}
  Nobody = nobody
  Tokens = {k1, k2}
  NoToken = notoken
  Tickets = {t1}
  NoTicket = noticket
  Requests = {r1, r2}
  TTL = 2
  MaxTime = 3
  MaxFaults = 1
  MaxMessages = 2
\* Stops when sessions and messages are used up.
CHECK_DEADLOCK FALSE
SPECIFICATION Spec
SYMMETRY MCSymmetry
INVARIANT TypeOK
INVARIANT ClosedAtIsOfClosing
PROPERTY LogoutIsFinal
