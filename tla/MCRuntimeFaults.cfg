\* force restarts break locks, launchers leave their group, the control plane is killed, shuts down and boots
CONSTANTS
  Task = {t1, t2}
  Inst = {i1, i2}
  NoInst = NoInst
  Requests = {"start", "stop", "force", "deploy", "rollback", "shutdown"}
  CanCrash = TRUE
  CanFail = TRUE
  GroupsStay = TRUE
  AutoRestart = TRUE
  StartAuto = FALSE
  StopWithHoster = TRUE
  MaxRestarts = 1
  CountCap = 2
SPECIFICATION Spec
CHECK_DEADLOCK FALSE
INVARIANT DeploysExclusive
INVARIANT NoStuckLock
INVARIANT RestartsBounded
PROPERTY OnlyKnownLeaks
PROPERTY OnlyBootUnrecords
SYMMETRY Symmetry
