\* A webhook that is delivered again while its order is being provisioned.
CONSTANTS
  w1 = w1
  q1 = q1
  q2 = q2
  a = a
  b = b
  Orders = {w1, q1, q2}
  Hostnames = {a, b}
  HostOf <- MCHostOf
  WalletPaid = {w1}
  Slots = {1, 2}
  MaxAttempts = 2
  Requests = {r1, r2}
  MaxFaults = 0
  MaxRefunds = 1
  Serialized = FALSE
\* Stops when its orders are settled.
CHECK_DEADLOCK FALSE
SPECIFICATION Spec
SYMMETRY MCSymmetry
INVARIANT ServedOrRefunded
