\* from any bindings, two requests overlap with the drain and a kill
CONSTANTS
  Task = {t1, t2}
  NoTask = NoTask
  Service = {s1, s2}
  NoService = NoService
  Domain = {d1, d2}
  NoDomain = NoDomain
  Requests = {"expose", "unexpose", "delete", "update"}
  MaxAttempts = 2
  MaxRequests = 2
  MaxCrashes = 1
SPECIFICATION Spec
CHECK_DEADLOCK FALSE
INVARIANT TypeOK
INVARIANT RoutesUnique
PROPERTY OtherRulesKept
PROPERTY OnlyKnownOrphans
PROPERTY OnlyKnownOutages
SYMMETRY Symmetry
