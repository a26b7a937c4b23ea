CONSTANTS
  s1 = s1
  s2 = s2
  Service = {s1, s2}
  NoService = NoService
  MaxRequests = 4
  MaxFaults = 1
SYMMETRY Symmetry
SPECIFICATION Spec
CHECK_DEADLOCK FALSE
INVARIANT TypeOK
PROPERTY OnlyKnownMisroutes
PROPERTY OnlyKnownOrphans
PROPERTY OnlyKnownFalseActives
