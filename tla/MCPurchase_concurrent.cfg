\* Two requests at a time on any of three orders, as the program serves them.
CONSTANTS
  w1 = w1
  q1 = q1
  q2 = q2
  a = a
  b = b
  Orders = {w1, q1, q2}
  Hostnames = {a, b}
  HostOf <- MCHostOf
  WalletPaid = {w1}
  Slots = {1, 2}
  MaxAttempts = 2
  Requests = {r1, r2}
  MaxFaults = 2
  MaxRefunds = 1
  Serialized = FALSE
\* Stops when its orders are settled.
CHECK_DEADLOCK FALSE
SPECIFICATION Spec
SYMMETRY MCSymmetry
INVARIANT TypeOK
INVARIANT ServiceHasItsInstance
INVARIANT ServicePortsLeadToIt
INVARIANT SuccessIsInsertable
INVARIANT WalletOrderOutcome
INVARIANT QrisOrderPaid
INVARIANT NothingLeftBehind
