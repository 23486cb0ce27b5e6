\* Two users with two requests in flight, and those of one user one at a time.
CONSTANTS
  u1 = u1
  u2 = u2
  t2 = t2
  s2 = s2
  Users = {u1, u2}
  Topups = {t1}
  Orders = {o1}
  Services = {s1, s2}
  Requests = {r1, r2}
  UserOf <- MCUserOf
  AmountOf <- MCAmountOf
  RefundOf <- MCRefundOf
  Opening <- MCOpening
  Adjustments = {3}
  MaxAdjusts = 1
  MaxRenewals = 2
  Serialized = TRUE
SPECIFICATION FairSpec
INVARIANT BalanceMatchesLedger
INVARIANT TopupCreditedOnce
INVARIANT TermsMatchRenewals
PROPERTY ImplementsLedger
PROPERTY PaidTopupIsCredited
