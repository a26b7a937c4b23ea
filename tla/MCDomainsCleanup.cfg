\* the drain against two requests and a kill, on one domain
CONSTANTS
  Task = {t1, t2}
  NoTask = NoTask
  Service = {s1, s2}
  NoService = NoService
  Domain = {d1}
  NoDomain = NoDomain
  Requests = {"expose", "unexpose", "delete", "update"}
  MaxAttempts = 2
  MaxRequests = 2
  MaxCrashes = 1
SPECIFICATION FairSpec
CHECK_DEADLOCK FALSE
PROPERTY CleanupResolves
