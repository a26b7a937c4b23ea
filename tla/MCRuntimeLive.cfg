\* every handler ends and the marked service is restored
CONSTANTS
  Task = {t1, t2}
  Inst = {i1, i2}
  NoInst = NoInst
  Requests = {"start", "deploy", "rollback", "shutdown"}
  CanCrash = FALSE
  CanFail = FALSE
  GroupsStay = FALSE
  AutoRestart = TRUE
  StartAuto = FALSE
  StopWithHoster = TRUE
  MaxRestarts = 1
  CountCap = 2
SPECIFICATION FairSpec
CHECK_DEADLOCK FALSE
PROPERTY LockReleased
PROPERTY CrashResolves
PROPERTY RestoredUnlessShutdown
