\* a stop during the backoff
CONSTANTS
  Task = {t1, t2}
  Inst = {i1, i2, i3}
  NoInst = NoInst
  Requests = {"start", "stop"}
  CanCrash = FALSE
  CanFail = TRUE
  GroupsStay = FALSE
  AutoRestart = TRUE
  StartAuto = FALSE
  StopWithHoster = TRUE
  MaxRestarts = 1
  CountCap = 2
SPECIFICATION Spec
CHECK_DEADLOCK FALSE
PROPERTY StoppedStaysDown
SYMMETRY Symmetry
