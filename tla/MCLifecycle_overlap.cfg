\* One service, two requests at a time, packages that change, a fault and half a
\* cycle.
CONSTANTS
  Services = {s1}
  Users = {u1, u2}
  small = small
  large = large
  Packages = {small, large}
  regular = regular
  short = short
  big = big
  Versions = {regular, short, big}
  PackageOf <- MCPackageOf
  Offered = {regular, big}
  Price <- MCPrice
  Days <- MCDays
  Has <- MCHas
  NoService = noservice
  Nobody = nobody
  NoVersion = noversion
  Requests = {r1, r2}
  MaxFaults = 1
  MaxTime = 1
  MaxExpiry = 3
\* Nothing to do when time is up.
CHECK_DEADLOCK FALSE
SPECIFICATION Spec
SYMMETRY MCSymmetry
INVARIANT TypeOK
INVARIANT AgreesUnlessSpoilt
INVARIANT RefundAtMostPaid
PROPERTY TerminatedForGood
