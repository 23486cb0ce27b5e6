\* Two requests at a time, on different orders.
CONSTANTS
  w1 = w1
  q1 = q1
  q2 = q2
  a = a
  b = b
  Orders = {w1, q1, q2}
  Hostnames = {a, b}
  HostOf <- MCHostOf
  WalletPaid = {w1}
  Slots = {1, 2}
  MaxAttempts = 2
  Requests = {r1, r2}
  MaxFaults = 1
  MaxRefunds = 1
  Serialized = TRUE
\* Stops when its orders are settled.
CHECK_DEADLOCK FALSE
SPECIFICATION FairSpec
INVARIANT ServedOrRefunded
PROPERTY ImplementsOutcome
PROPERTY WalletOrderSettles
PROPERTY QrisOrderSettles
