\* Two domains, two requests at a time and two faults.
CONSTANTS
  Domains = {d1, d2}
  NoDomain = none
  Requests = {r1, r2}
  MaxFaults = 2
\* Stops when every domain has its row.
CHECK_DEADLOCK FALSE
SPECIFICATION Spec
SYMMETRY MCSymmetry
INVARIANT TypeOK
INVARIANT ActiveIsRouted
INVARIANT RoutedIsActive
