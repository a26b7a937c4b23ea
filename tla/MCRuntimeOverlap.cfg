\* starts, stops, restarts, deploys and rollbacks overlap; a launcher takes its group along
CONSTANTS
  Task = {t1, t2, t3}
  Inst = {i1, i2, i3, i4}
  NoInst = NoInst
  Requests = {"start", "stop", "restart", "deploy", "rollback"}
  CanCrash = FALSE
  CanFail = TRUE
  GroupsStay = FALSE
  AutoRestart = TRUE
  StartAuto = FALSE
  StopWithHoster = TRUE
  MaxRestarts = 1
  CountCap = 2
SPECIFICATION Spec
CHECK_DEADLOCK FALSE
INVARIANT TypeOK
INVARIANT MutualExclusion
INVARIANT ExitPolicyCurrent
INVARIANT TrackedIsRecorded
INVARIANT OneRuns
INVARIANT RunningRuns
PROPERTY TransitionsEnd
SYMMETRY Symmetry
