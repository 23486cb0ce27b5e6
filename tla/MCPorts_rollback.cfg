\* One service reconfigured by one request after the other, without faults.
CONSTANTS
  Services = {s1}
  NoService = none
  Ports = {1, 2, 3}
  Pool = {1, 2, 3}
  Kinds = {0}
  Requests = {r1}
  MaxFaults = 0
\* Stops when no port is left.
CHECK_DEADLOCK FALSE
SPECIFICATION Spec
INVARIANT RolledBackIfNotRecorded
