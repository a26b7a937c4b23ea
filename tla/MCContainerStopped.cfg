\* a probe on its way overlaps a stop by a user
CONSTANTS
  Users = {u1}
  Requests = {"stop"}
  MaxRequests = 1
  MaxFaults = 0
  MaxProbes = 2
  FAILURE_THRESHOLD = 2
SPECIFICATION MCFairSpec
CHECK_DEADLOCK FALSE
PROPERTY OnlyEligibleRestarted
