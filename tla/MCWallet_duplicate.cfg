\* Two deliveries of one webhook at a time.
CONSTANTS
  u1 = u1
  u2 = u2
  t2 = t2
  s2 = s2
  Users = {u1}
  Topups = {t1}
  Orders = {o1}
  Services = {s1}
  Requests = {r1, r2}
  UserOf <- MCUserOf
  AmountOf <- MCAmountOf
  RefundOf <- MCRefundOf
  Opening <- MCOpening
  Adjustments = {1}
  MaxAdjusts = 0
  MaxRenewals = 2
  Serialized = FALSE
SPECIFICATION Spec
INVARIANT TopupCreditedOnce
