\* three services with any dependencies, cycles included; boot, one request, one failure
CONSTANTS
  Services = {s1, s2, s3}
  Processes = {s1, s2}
  NoService = NoService
  MaxRequests = 1
  MaxFailures = 1
SPECIFICATION MCSpec
CHECK_DEADLOCK FALSE
SYMMETRY Symmetry
INVARIANT TypeOK
INVARIANT LocksHeld
INVARIANT StartAllStarts
PROPERTY StartedAfterDependencies
