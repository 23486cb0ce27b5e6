\* Two services, runs one or more units of time apart, and one fault.
CONSTANTS
  Services = {s1, s2}
  Duration = 2
  MaxTime = 4
  MaxFaults = 1
\* Stops when time is up.
CHECK_DEADLOCK FALSE
SPECIFICATION Spec
SYMMETRY MCSymmetry
INVARIANT TypeOK
INVARIANT OneOpenAlert
INVARIANT ClearedIsResolved
PROPERTY OpensWhenSustained
