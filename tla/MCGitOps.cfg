\* a webhook, the poller, a request and one kill of the control plane
CONSTANTS
  Task = {t1, t2}
  NoTask = NoTask
  Commit = {c1, c2}
  NoCommit = NoCommit
  MaxPushes = 1
  MaxRequests = 1
  MaxCrashes = 1
  MaxRows = 3
SPECIFICATION FairSpec
CHECK_DEADLOCK FALSE
INVARIANT TypeOK
INVARIANT RetriesBounded
PROPERTY FollowsTable
PROPERTY OnlyKnownStrandings
PROPERTY PushNoticed
