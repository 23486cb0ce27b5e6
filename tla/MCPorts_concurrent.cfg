\* Two services, an SSH and a web port each; two requests at a time.
CONSTANTS
  Services = {s1, s2}
  NoService = none
  Ports = {1, 2, 3, 4, 5, 6}
  Pool = {1, 2, 3, 4, 5}
  Kinds = {0, 1}
  Requests = {r1, r2}
  MaxFaults = 2
\* Stops when no port is left.
CHECK_DEADLOCK FALSE
SPECIFICATION Spec
SYMMETRY MCSymmetry
INVARIANT TypeOK
INVARIANT RecordableIsForwarded
INVARIANT ActiveIsForwarded
INVARIANT SshPortIsActive
PROPERTY SecondBundleOnlyByStaleLoad
