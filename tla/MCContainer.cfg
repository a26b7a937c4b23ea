\* stops and restarts by a user, boot, the healthcheck and the drift loop overlap
CONSTANTS
  Users = {u1}
  Requests = {"stop", "restart"}
  MaxRequests = 1
  MaxFaults = 1
  MaxProbes = 2
  FAILURE_THRESHOLD = 2
SPECIFICATION MCFairSpec
CHECK_DEADLOCK FALSE
INVARIANT TypeOK
PROPERTY OnlyKnownMismarks
PROPERTY StatusConverges
PROPERTY SickRestarts
