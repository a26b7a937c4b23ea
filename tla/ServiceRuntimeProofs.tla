------------------------ MODULE ServiceRuntimeProofs ------------------------
EXTENDS ServiceRuntime, TLAPS

(* Type correctness: whatever handlers, timers, exits, crashes and boots    *)
(* interleave, the row and the in-memory maps hold what the code may store  *)
(* in them (services/runtime.ts, services/deploy.ts).                       *)
THEOREM TypeCorrect == Spec => []TypeOK
  <1> USE NoInstAssumption, RequestsAssumption, FlagsAssumption, CountsAssumption
      DEF NoInstAssumption, RequestsAssumption, FlagsAssumption, CountsAssumption,
          Status, Kind, RequestKind, ProcState, WatchStage, Stage, InstOrNone,
          TaskState, WatcherState, RowState, Idle, At, Off, Watch, NoRow, row, locks
  <1>1. Init => TypeOK
    <2> SUFFICES ASSUME Init PROVE TypeOK
      OBVIOUS
    <2>1. 0 \in 0..CountCap
      OBVIOUS
    <2>2. task \in [Task -> TaskState]
      BY DEF Init
    <2>3. watcher \in [Inst -> WatcherState]
      BY <2>1 DEF Init
    <2>4. bootRow \in RowState
      BY DEF Init
    <2> QED
      BY <2>1, <2>2, <2>3, <2>4 DEF Init, TypeOK
  <1>2. TypeOK /\ [Next]_vars => TypeOK'
    <2> SUFFICES ASSUME TypeOK, [Next]_vars
                 PROVE  TypeOK'
      OBVIOUS
    <2> USE DEF TypeOK
    <2>1. ASSUME NEW t \in Task, Start(t)
          PROVE  TypeOK'
      BY <2>1 DEF Start, Arrives, TakeLock
    <2>2. ASSUME NEW t \in Task, Stop(t)
          PROVE  TypeOK'
      BY <2>2 DEF Stop, Arrives, CallStop, Untrack, StopEnds, Killed, AfterStop
    <2>3. ASSUME NEW t \in Task, Restart(t)
          PROVE  TypeOK'
      BY SMTT(90), <2>3 DEF Restart, Arrives, TakeLock, CallStop, Untrack, StopEnds, Killed,
                 AfterStop
    <2>4. ASSUME NEW t \in Task, ForceRestart(t)
          PROVE  TypeOK'
      <3>1. status' \in Status
        BY <2>4 DEF ForceRestart, Arrives, NoActiveDeploy, Killed, Untrack
      <3>2. runtimeProcess' \in InstOrNone
        BY <2>4 DEF ForceRestart, Arrives, NoActiveDeploy, Killed, Untrack
      <3>3. actionLock' \in BOOLEAN
        BY <2>4 DEF ForceRestart, Arrives, NoActiveDeploy, Killed, Untrack
      <3>4. proc' \in [Inst -> ProcState]
        BY <2>4 DEF ForceRestart, Arrives, NoActiveDeploy, Killed, Untrack
      <3>5. task' \in [Task -> TaskState]
        BY <2>4 DEF ForceRestart, Arrives, NoActiveDeploy, Killed, Untrack
      <3> QED
        BY <2>4, <3>1, <3>2, <3>3, <3>4, <3>5 DEF ForceRestart, Untrack
    <2>5. ASSUME NEW t \in Task, Deploy(t)
          PROVE  TypeOK'
      BY <2>5 DEF Deploy, Arrives, TakeLock, NoActiveDeploy
    <2>6. ASSUME NEW t \in Task, Rollback(t)
          PROVE  TypeOK'
      BY <2>6 DEF Rollback, Arrives, TakeLock, StopIfRunning, CallStop, Untrack,
                 StopEnds, Killed, AfterStop
    <2>7. ASSUME NEW t \in Task, Shutdown(t)
          PROVE  TypeOK'
      BY <2>7 DEF Shutdown, Arrives, CallStop, Untrack, StopEnds, Killed, AfterStop
    <2>8. ASSUME NEW t \in Task, StartProcess(t)
          PROVE  TypeOK'
      <3>1. status' \in Status
        BY <2>8 DEF StartProcess
      <3>2. task' \in [Task -> TaskState]
        BY <2>8, SMTT(40) DEF StartProcess
      <3> QED
        BY <2>8, <3>1, <3>2 DEF StartProcess
    <2>9. ASSUME NEW t \in Task, StartAlreadyRunning(t)
          PROVE  TypeOK'
      BY <2>9 DEF StartAlreadyRunning, ReleaseLock
    <2>10. ASSUME NEW t \in Task, StartFails(t)
          PROVE  TypeOK'
      BY <2>10 DEF StartFails, ReleaseLock
    <2>11. ASSUME NEW t \in Task, StartSpawns(t)
          PROVE  TypeOK'
      <3>1. status' \in Status
        BY <2>11 DEF StartSpawns, ReleaseLock, Spawned, Fresh
      <3>2. restartCount' \in 0..CountCap
        BY <2>11 DEF StartSpawns, ReleaseLock, Spawned, Fresh
      <3>3. runtimePgid' \in InstOrNone
        BY <2>11 DEF StartSpawns, ReleaseLock, Spawned, Fresh
      <3>4. runtimeProcess' \in InstOrNone
        BY <2>11 DEF StartSpawns, ReleaseLock, Spawned, Fresh
      <3>5. actionLock' \in BOOLEAN
        BY <2>11 DEF StartSpawns, ReleaseLock, Spawned, Fresh
      <3>6. proc' \in [Inst -> ProcState]
        BY <2>11 DEF StartSpawns, ReleaseLock, Spawned, Fresh
      <3>7. watcher' \in [Inst -> WatcherState]
        BY <2>11 DEF StartSpawns, ReleaseLock, Spawned, Fresh
      <3>8. task' \in [Task -> TaskState]
        BY <2>11 DEF StartSpawns, ReleaseLock, Spawned, Fresh
      <3> QED
        BY <2>11, <3>1, <3>2, <3>3, <3>4, <3>5, <3>6, <3>7, <3>8 DEF StartSpawns
    <2>12. ASSUME NEW t \in Task, StopResumes(t)
          PROVE  TypeOK'
      BY <2>12 DEF StopResumes, StopEnds, Killed, AfterStop
    <2>13. ASSUME NEW t \in Task, ForceKills(t)
          PROVE  TypeOK'
      BY <2>13 DEF ForceKills, Parked, Killed
    <2>14. ASSUME NEW t \in Task, ForceSwept(t)
          PROVE  TypeOK'
      BY <2>14 DEF ForceSwept, Parked
    <2>15. ASSUME NEW t \in Task, DeployStops(t)
          PROVE  TypeOK'
      <3>1. status' \in Status
        BY <2>15 DEF DeployStops, Parked, StopIfRunning, CallStop, Untrack,
                   StopEnds, Killed, AfterStop
      <3>2. runtimePgid' \in InstOrNone
        BY <2>15 DEF DeployStops, Parked, StopIfRunning, CallStop, Untrack,
                   StopEnds, Killed, AfterStop
      <3>3. runtimeProcess' \in InstOrNone
        BY <2>15 DEF DeployStops, Parked, StopIfRunning, CallStop, Untrack,
                   StopEnds, Killed, AfterStop
      <3>4. proc' \in [Inst -> ProcState]
        BY <2>15 DEF DeployStops, Parked, StopIfRunning, CallStop, Untrack,
                   StopEnds, Killed, AfterStop
      <3>5. task' \in [Task -> TaskState]
        BY <2>15 DEF DeployStops, Parked, StopIfRunning, CallStop, Untrack,
                   StopEnds, Killed, AfterStop
      <3> QED
        BY <2>15, <3>1, <3>2, <3>3, <3>4, <3>5 DEF DeployStops, StopIfRunning,
                   CallStop, Untrack
    <2>16. ASSUME NEW t \in Task, DeployEnds(t)
          PROVE  TypeOK'
      <3>1. status' \in Status
        BY <2>16 DEF DeployEnds
      <3>2. actionLock' \in BOOLEAN
        BY <2>16 DEF DeployEnds
      <3>3. activeDeploy' \in BOOLEAN
        BY <2>16 DEF DeployEnds
      <3>4. task' \in [Task -> TaskState]
        BY <2>16 DEF DeployEnds
      <3> QED
        BY <2>16, <3>1, <3>2, <3>3, <3>4 DEF DeployEnds
    <2>17. ASSUME NEW t \in Task, RollbackEnds(t)
          PROVE  TypeOK'
      BY <2>17, ZenonT(60) DEF RollbackEnds, Parked, ReleaseLock
    <2>18. ASSUME NEW t \in Task, ShutdownUntracks(t)
          PROVE  TypeOK'
      BY <2>18 DEF ShutdownUntracks, Parked
    <2>19. ASSUME NEW t \in Task, ServerExits(t)
          PROVE  TypeOK'
      <3>1. up' \in BOOLEAN
        BY <2>19 DEF ServerExits, MemoryLost
      <3>2. runtimeProcess' \in InstOrNone
        BY <2>19 DEF ServerExits, MemoryLost
      <3>3. actionLock' \in BOOLEAN
        BY <2>19 DEF ServerExits, MemoryLost
      <3>4. activeDeploy' \in BOOLEAN
        BY <2>19 DEF ServerExits, MemoryLost
      <3>5. watcher' \in [Inst -> WatcherState]
        BY <2>19 DEF ServerExits, MemoryLost
      <3>6. task' \in [Task -> TaskState]
        BY <2>19 DEF ServerExits, MemoryLost
      <3>7. bootRow' \in RowState
        BY <2>19 DEF ServerExits, MemoryLost
      <3> QED
        BY <2>19, <3>1, <3>2, <3>3, <3>4, <3>5, <3>6, <3>7 DEF ServerExits,
                   MemoryLost
    <2>20. ASSUME NEW t \in Task, BootReads(t)
          PROVE  TypeOK'
      <3>1. Lives(runtimePgid) \in BOOLEAN /\ ToRestore \in BOOLEAN
        BY DEF Lives, ToRestore
      <3>2. bootRow' \in RowState
        BY <2>20, <3>1 DEF BootReads, Parked
      <3>3. task' \in [Task -> TaskState]
        BY <2>20 DEF BootReads, Parked
      <3> QED
        BY <2>20, <3>2, <3>3 DEF BootReads, Parked
    <2>21. ASSUME NEW t \in Task, BootAdopts(t)
          PROVE  TypeOK'
      BY <2>21 DEF BootAdopts, Parked
    <2>22. ASSUME NEW t \in Task, BootRestores(t)
          PROVE  TypeOK'
      <3>1. status' \in Status
        BY <2>22 DEF BootRestores, Parked, TakeLock
      <3>2. runtimePgid' \in InstOrNone
        BY <2>22 DEF BootRestores, Parked, TakeLock
      <3>3. actionLock' \in BOOLEAN
        BY <2>22 DEF BootRestores, Parked, TakeLock
      <3>4. task' \in [Task -> TaskState]
        BY <2>22 DEF BootRestores, Parked, TakeLock
      <3>5. bootRow' \in RowState
        BY <2>22 DEF BootRestores, Parked, TakeLock
      <3> QED
        BY <2>22, <3>1, <3>2, <3>3, <3>4, <3>5 DEF BootRestores
    <2>23. ASSUME NEW t \in Task, Boot(t)
          PROVE  TypeOK'
      BY <2>23 DEF Boot
    <2>24. ASSUME NEW i \in Inst, StabilityElapses(i)
          PROVE  TypeOK'
      BY <2>24 DEF StabilityElapses, StabilityArmed
    <2>25. ASSUME NEW i \in Inst, ExitEvent(i)
          PROVE  TypeOK'
      <3>1. watcher' \in [Inst -> WatcherState]
        <4>1. CASE runtimeProcess = i
          <5>1. PICK clean \in BOOLEAN :
                  watcher' = [watcher EXCEPT
                    ![i] = [at |-> "settle", count |-> restartCount, clean |-> clean]]
            BY <2>25, <4>1 DEF ExitEvent
          <5>2. [at |-> "settle", count |-> restartCount, clean |-> clean] \in WatcherState
            OBVIOUS
          <5> QED
            BY <5>1, <5>2
        <4>2. CASE runtimeProcess # i
          <5>1. watcher' = [watcher EXCEPT ![i] = Off]
            BY <2>25, <4>2 DEF ExitEvent
          <5>2. Off \in WatcherState
            OBVIOUS
          <5> QED
            BY <5>1, <5>2
        <4> QED
          BY <4>1, <4>2
      <3> QED
        BY <2>25, <3>1 DEF ExitEvent
    <2>26. ASSUME NEW i \in Inst, ExitIgnored(i)
          PROVE  TypeOK'
      BY <2>26 DEF ExitIgnored, StillTracked
    <2>27. ASSUME NEW i \in Inst, ExitAsksGroup(i)
          PROVE  TypeOK'
      <3>1. Lives(i) \in BOOLEAN
        BY DEF Lives
      <3>2. watcher' \in [Inst -> WatcherState]
        <4>1. watcher' = [watcher EXCEPT ![i].at = "ps", ![i].clean = Lives(i)]
          BY <2>27 DEF ExitAsksGroup
        <4>2. watcher[i] \in WatcherState
          OBVIOUS
        <4>3. [watcher[i] EXCEPT !.at = "ps", !.clean = Lives(i)] \in WatcherState
          BY <3>1, <4>2
        <4>4. watcher' = [watcher EXCEPT
                            ![i] = [watcher[i] EXCEPT !.at = "ps", !.clean = Lives(i)]]
          BY <4>1
        <4> HIDE DEF WatcherState
        <4> QED
          BY <4>3, <4>4
      <3> QED
        BY <2>27, <3>2 DEF ExitAsksGroup
    <2>28. ASSUME NEW i \in Inst, ExitAdoptsGroup(i)
          PROVE  TypeOK'
      BY <2>28 DEF ExitAdoptsGroup
    <2>29. ASSUME NEW i \in Inst, ExitHandled(i)
          PROVE  TypeOK'
      BY <2>29 DEF ExitHandled, StillTracked, MayRetry, ExitStatus, Bump
    <2>30. ASSUME NEW i \in Inst, BackoffStarts(i)
          PROVE  TypeOK'
      BY <2>30 DEF BackoffStarts, TakeLock
    <2>31. ASSUME NEW i \in Inst, BackoffAlreadyRunning(i)
          PROVE  TypeOK'
      BY <2>31 DEF BackoffAlreadyRunning
    <2>32. ASSUME NEW i \in Inst, BackoffFails(i)
          PROVE  TypeOK'
      BY <2>32 DEF BackoffFails
    <2>33. ASSUME NEW i \in Inst, BackoffSpawns(i)
          PROVE  TypeOK'
      <3>1. status' \in Status
        BY <2>33 DEF BackoffSpawns, ReleaseLock, Spawned, Fresh
      <3>2. runtimePgid' \in InstOrNone
        BY <2>33 DEF BackoffSpawns, ReleaseLock, Spawned, Fresh
      <3>3. runtimeProcess' \in InstOrNone
        BY <2>33 DEF BackoffSpawns, ReleaseLock, Spawned, Fresh
      <3>4. actionLock' \in BOOLEAN
        BY <2>33 DEF BackoffSpawns, ReleaseLock, Spawned, Fresh
      <3>5. proc' \in [Inst -> ProcState]
        BY <2>33 DEF BackoffSpawns, ReleaseLock, Spawned, Fresh
      <3>6. watcher' \in [Inst -> WatcherState]
        <4>1. PICK j \in Inst :
                watcher' = [watcher EXCEPT ![j] = Watch("armed"), ![i] = Off]
          BY <2>33 DEF BackoffSpawns
        <4>2. Watch("armed") \in WatcherState /\ Off \in WatcherState
          OBVIOUS
        <4> QED
          BY <4>1, <4>2
      <3> QED
        BY <2>33, <3>1, <3>2, <3>3, <3>4, <3>5, <3>6 DEF BackoffSpawns
    <2>34. ASSUME NEW i \in Inst, InstanceDies(i)
          PROVE  TypeOK'
      BY <2>34 DEF InstanceDies
    <2>35. CASE Crash
      <3>1. up' \in BOOLEAN
        BY <2>35 DEF Crash, MemoryLost
      <3>2. runtimeProcess' \in InstOrNone
        BY <2>35 DEF Crash, MemoryLost
      <3>3. actionLock' \in BOOLEAN
        BY <2>35 DEF Crash, MemoryLost
      <3>4. activeDeploy' \in BOOLEAN
        BY <2>35 DEF Crash, MemoryLost
      <3>5. watcher' \in [Inst -> WatcherState]
        BY <2>35 DEF Crash, MemoryLost
      <3>6. task' \in [Task -> TaskState]
        BY <2>35 DEF Crash, MemoryLost
      <3>7. bootRow' \in RowState
        BY <2>35 DEF Crash, MemoryLost
      <3> QED
        BY <2>35, <3>1, <3>2, <3>3, <3>4, <3>5, <3>6, <3>7 DEF Crash, MemoryLost
    <2>36. CASE UNCHANGED vars
      BY <2>36 DEF vars
    <2> QED
      BY <2>1, <2>2, <2>3, <2>4, <2>5, <2>6, <2>7, <2>8, <2>9, <2>10, <2>11, <2>12,
         <2>13, <2>14, <2>15, <2>16, <2>17, <2>18, <2>19, <2>20, <2>21, <2>22,
         <2>23, <2>24, <2>25, <2>26, <2>27, <2>28, <2>29, <2>30, <2>31, <2>32,
         <2>33, <2>34, <2>35, <2>36
         DEF Next, Request, TaskStep, WatcherStep
  <1> QED BY <1>1, <1>2, PTL DEF Spec
(* The crash counter never passes max_restarts unless the service is always *)
(* on (the exit callback of startProcessService, services/runtime.ts),      *)
(* whatever resets, exits and restarts interleave.                          *)
THEOREM RestartsStayBounded == Spec => []RestartsBounded
  <1>1. Init => RestartsBounded
    BY CountsAssumption DEF Init, RestartsBounded, CountsAssumption
  <1>2. TypeOK /\ RestartsBounded /\ [Next]_vars => RestartsBounded'
    <2> SUFFICES ASSUME TypeOK, RestartsBounded, [Next]_vars
                 PROVE  RestartsBounded'
      OBVIOUS
    <2>1. CASE \E t \in Task : StartSpawns(t)
      BY <2>1, CountsAssumption
         DEF StartSpawns, RestartsBounded, CountsAssumption, AlwaysOn
    <2>2. CASE \E i \in Inst : StabilityElapses(i)
      BY <2>2, CountsAssumption
         DEF StabilityElapses, RestartsBounded, CountsAssumption, AlwaysOn
    <2>3. ASSUME NEW i \in Inst, ExitHandled(i)
          PROVE  RestartsBounded'
      <3>1. watcher[i].count \in 0..CountCap
        BY DEF TypeOK, WatcherState
      <3> QED
        BY <2>3, <3>1, CountsAssumption
           DEF ExitHandled, MayRetry, Bump, RestartsBounded, CountsAssumption, AlwaysOn
    <2>4. CASE UNCHANGED restartCount
      BY <2>4 DEF RestartsBounded, AlwaysOn
    <2>5. \/ \E t \in Task : StartSpawns(t)
          \/ \E i \in Inst : StabilityElapses(i) \/ ExitHandled(i)
          \/ UNCHANGED restartCount
      BY DEF Start, Stop, Restart, ForceRestart, Deploy, Rollback, Shutdown,
             StartProcess, StartAlreadyRunning, StartFails, StopResumes, ForceKills,
             ForceSwept, DeployStops, DeployEnds, RollbackEnds, ShutdownUntracks,
             ServerExits, BootReads, BootAdopts, BootRestores, Boot, ExitEvent,
             ExitIgnored, ExitAsksGroup, ExitAdoptsGroup, BackoffStarts,
             BackoffAlreadyRunning, BackoffFails, BackoffSpawns, InstanceDies,
             Crash, CallStop, Untrack, StopIfRunning, MemoryLost, row, vars, Next,
             Request, TaskStep, WatcherStep
    <2> QED
      BY <2>1, <2>2, <2>3, <2>4, <2>5
  <1> QED BY <1>1, <1>2, TypeCorrect, PTL DEF Spec
(* The restart policy read at the exit event is still current 500 ms later  *)
(* (the exit callback of startProcessService, services/runtime.ts): nothing *)
(* changes the counter of an instance that is still tracked meanwhile.      *)
THEOREM ExitPolicyStaysCurrent == Spec => []ExitPolicyCurrent
  <1> USE NoInstAssumption DEF NoInstAssumption
  <1>1. Init => ExitPolicyCurrent
    BY DEF Init, ExitPolicyCurrent
  <1>2. TypeOK /\ ExitPolicyCurrent /\ [Next]_vars => ExitPolicyCurrent'
    <2> SUFFICES ASSUME TypeOK, ExitPolicyCurrent, [Next]_vars
                 PROVE  ExitPolicyCurrent'
      OBVIOUS
    <2>1. watcher \in [Inst -> WatcherState]
      BY DEF TypeOK
    <2> USE <2>1 DEF ExitPolicyCurrent, WatcherState, Off, Watch
    <2>2. CASE \E t \in Task : StartSpawns(t)
      BY <2>2 DEF StartSpawns, Spawned, Fresh
    <2>3. CASE \E i \in Inst : StabilityElapses(i)
      BY <2>3 DEF StabilityElapses, StabilityArmed
    <2>4. CASE \E i \in Inst : ExitEvent(i)
      BY <2>4 DEF ExitEvent, row
    <2>5. CASE \E i \in Inst : ExitIgnored(i)
      BY <2>5 DEF ExitIgnored, row
    <2>6. CASE \E i \in Inst : ExitAsksGroup(i)
      BY <2>6 DEF ExitAsksGroup, row
    <2>7. CASE \E i \in Inst : ExitAdoptsGroup(i)
      BY <2>7 DEF ExitAdoptsGroup
    <2>8. CASE \E i \in Inst : ExitHandled(i)
      BY <2>8 DEF ExitHandled
    <2>9. CASE \E i \in Inst : BackoffStarts(i)
      BY <2>9 DEF BackoffStarts
    <2>10. CASE \E i \in Inst : BackoffAlreadyRunning(i)
      BY <2>10 DEF BackoffAlreadyRunning, row
    <2>11. CASE \E i \in Inst : BackoffFails(i)
      BY <2>11 DEF BackoffFails
    <2>12. CASE \E i \in Inst : BackoffSpawns(i)
      BY <2>12 DEF BackoffSpawns, Spawned, Fresh
    <2>13. CASE Crash \/ \E t \in Task : ServerExits(t)
      BY <2>13 DEF Crash, ServerExits, MemoryLost
    <2>14. CASE /\ UNCHANGED <<watcher, restartCount>>
               /\ runtimeProcess' \in {runtimeProcess, NoInst}
      BY <2>14
    <2>15. \/ \E t \in Task : StartSpawns(t) \/ ServerExits(t)
           \/ \E i \in Inst : WatcherStep(i)
           \/ Crash
           \/ /\ UNCHANGED <<watcher, restartCount>>
              /\ runtimeProcess' \in {runtimeProcess, NoInst}
      BY ZenonT(60) DEF Start, Stop, Restart, ForceRestart, Deploy, Rollback, Shutdown,
             StartProcess, StartAlreadyRunning, StartFails, StopResumes, ForceKills,
             ForceSwept, DeployStops, DeployEnds, RollbackEnds, ShutdownUntracks,
             BootReads, BootAdopts, BootRestores, Boot, InstanceDies, TakeLock,
             CallStop, Untrack, StopEnds, StopIfRunning, ReleaseLock, row, locks,
             vars, Next, Request, TaskStep
    <2> QED
      BY <2>2, <2>3, <2>4, <2>5, <2>6, <2>7, <2>8, <2>9, <2>10, <2>11, <2>12, <2>13,
         <2>14, <2>15 DEF WatcherStep
  <1> QED BY <1>1, <1>2, TypeCorrect, PTL DEF Spec

(* A lock is never left behind (withLock and forceRestartService,           *)
(* services/runtime.ts): whoever set it is still in its critical section.   *)
(* LockOwned adds that the lock, which is memory, is free while the control *)
(* plane is down.                                                           *)
LockOwned ==
    /\ NoStuckLock
    /\ ~up => ~actionLock

THEOREM NoLockIsStuck == Spec => []NoStuckLock
  <1>1. Init => LockOwned
    BY DEF Init, LockOwned, NoStuckLock
  <1>2. TypeOK /\ LockOwned /\ [Next]_vars => LockOwned'
    <2> SUFFICES ASSUME TypeOK, LockOwned, [Next]_vars
                 PROVE  LockOwned'
      OBVIOUS
    <2>0. task \in [Task -> TaskState] /\ watcher \in [Inst -> WatcherState]
      BY DEF TypeOK
    <2> USE <2>0 DEF LockOwned, NoStuckLock, SomeInLock, InLock, TimerInLock, TaskState,
                     WatcherState, Idle, At, Off, Watch
    <2>1. ASSUME NEW t \in Task, Start(t)
          PROVE  LockOwned'
      BY <2>1 DEF Start, Arrives, TakeLock, row
    <2>2. ASSUME NEW t \in Task, Stop(t)
          PROVE  LockOwned'
      BY <2>2 DEF Stop, Arrives, CallStop, Untrack, StopEnds, AfterStop, locks
    <2>3. ASSUME NEW t \in Task, Restart(t)
          PROVE  LockOwned'
      BY <2>3 DEF Restart, Arrives, TakeLock, CallStop, Untrack, StopEnds, AfterStop
    <2>4. ASSUME NEW t \in Task, ForceRestart(t)
          PROVE  LockOwned'
      BY <2>4 DEF ForceRestart, Arrives, Untrack
    <2>5. ASSUME NEW t \in Task, Deploy(t)
          PROVE  LockOwned'
      BY <2>5 DEF Deploy, Arrives, TakeLock, row
    <2>6. ASSUME NEW t \in Task, Rollback(t)
          PROVE  LockOwned'
      BY <2>6 DEF Rollback, Arrives, TakeLock, StopIfRunning, CallStop, Untrack,
                 StopEnds, AfterStop
    <2>7. ASSUME NEW t \in Task, Shutdown(t)
          PROVE  LockOwned'
      BY <2>7 DEF Shutdown, Arrives, CallStop, Untrack, StopEnds, AfterStop, locks
    <2>8. ASSUME NEW t \in Task, StartProcess(t)
          PROVE  LockOwned'
      BY <2>8 DEF StartProcess, locks
    <2>9. ASSUME NEW t \in Task, StartAlreadyRunning(t)
          PROVE  LockOwned'
      BY <2>9 DEF StartAlreadyRunning, ReleaseLock, row
    <2>10. ASSUME NEW t \in Task, StartFails(t)
          PROVE  LockOwned'
      BY <2>10 DEF StartFails, ReleaseLock
    <2>11. ASSUME NEW t \in Task, StartSpawns(t)
          PROVE  LockOwned'
      BY <2>11 DEF StartSpawns, ReleaseLock, Spawned, Fresh
    <2>12. ASSUME NEW t \in Task, StopResumes(t)
          PROVE  LockOwned'
      BY <2>12 DEF StopResumes, StopEnds, AfterStop, locks
    <2>13. ASSUME NEW t \in Task, ForceKills(t)
          PROVE  LockOwned'
      BY <2>13 DEF ForceKills, Parked, row, locks
    <2>14. ASSUME NEW t \in Task, ForceSwept(t)
          PROVE  LockOwned'
      BY <2>14 DEF ForceSwept, Parked, locks
    <2>15. ASSUME NEW t \in Task, DeployStops(t)
          PROVE  LockOwned'
      BY <2>15 DEF DeployStops, Parked, StopIfRunning, CallStop, Untrack, StopEnds,
                 AfterStop, locks
    <2>16. ASSUME NEW t \in Task, DeployEnds(t)
          PROVE  LockOwned'
      BY <2>16 DEF DeployEnds
    <2>17. ASSUME NEW t \in Task, RollbackEnds(t)
          PROVE  LockOwned'
      BY <2>17 DEF RollbackEnds, Parked, ReleaseLock
    <2>18. ASSUME NEW t \in Task, ShutdownUntracks(t)
          PROVE  LockOwned'
      BY <2>18 DEF ShutdownUntracks, Parked, row, locks
    <2>19. ASSUME NEW t \in Task, ServerExits(t)
          PROVE  LockOwned'
      BY <2>19 DEF ServerExits, MemoryLost, row
    <2>20. ASSUME NEW t \in Task, BootReads(t)
          PROVE  LockOwned'
      BY <2>20 DEF BootReads, Parked, locks
    <2>21. ASSUME NEW t \in Task, BootAdopts(t)
          PROVE  LockOwned'
      BY <2>21 DEF BootAdopts, Parked, locks
    <2>22. ASSUME NEW t \in Task, BootRestores(t)
          PROVE  LockOwned'
      <3>1. ~InLock(t)
        BY <2>22 DEF BootRestores, Parked
      <3>2. CASE task' = [task EXCEPT ![t] = At("start", "deps")]
        BY <2>22, <3>2 DEF BootRestores, Parked
      <3>3. CASE task' = [task EXCEPT ![t] = Idle] /\ UNCHANGED actionLock
        BY <2>22, <3>1, <3>3 DEF BootRestores, Parked
      <3> QED
        BY <2>22, <3>2, <3>3 DEF BootRestores
    <2>23. ASSUME NEW t \in Task, Boot(t)
          PROVE  LockOwned'
      BY <2>23 DEF Boot, row, locks
    <2>24. ASSUME NEW i \in Inst, StabilityElapses(i)
          PROVE  LockOwned'
      BY <2>24 DEF StabilityElapses, locks
    <2>25. ASSUME NEW i \in Inst, ExitEvent(i)
          PROVE  LockOwned'
      BY <2>25 DEF ExitEvent, row, locks
    <2>26. ASSUME NEW i \in Inst, ExitIgnored(i)
          PROVE  LockOwned'
      BY <2>26 DEF ExitIgnored, row, locks
    <2>27. ASSUME NEW i \in Inst, ExitAsksGroup(i)
          PROVE  LockOwned'
      BY <2>27 DEF ExitAsksGroup, row, locks
    <2>28. ASSUME NEW i \in Inst, ExitAdoptsGroup(i)
          PROVE  LockOwned'
      BY <2>28 DEF ExitAdoptsGroup, locks
    <2>29. ASSUME NEW i \in Inst, ExitHandled(i)
          PROVE  LockOwned'
      BY <2>29 DEF ExitHandled, locks
    <2>30. ASSUME NEW i \in Inst, BackoffStarts(i)
          PROVE  LockOwned'
      BY <2>30 DEF BackoffStarts, TakeLock
    <2>31. ASSUME NEW i \in Inst, BackoffAlreadyRunning(i)
          PROVE  LockOwned'
      BY <2>31 DEF BackoffAlreadyRunning, row, locks
    <2>32. ASSUME NEW i \in Inst, BackoffFails(i)
          PROVE  LockOwned'
      BY <2>32 DEF BackoffFails, locks
    <2>33. ASSUME NEW i \in Inst, BackoffSpawns(i)
          PROVE  LockOwned'
      BY <2>33 DEF BackoffSpawns, ReleaseLock, Spawned, Fresh
    <2>34. ASSUME NEW i \in Inst, InstanceDies(i)
          PROVE  LockOwned'
      BY <2>34 DEF InstanceDies, row, locks
    <2>35. CASE Crash
      BY <2>35 DEF Crash, MemoryLost, row
    <2>36. CASE UNCHANGED vars
      BY <2>36 DEF vars
    <2> QED
      BY <2>1, <2>2, <2>3, <2>4, <2>5, <2>6, <2>7, <2>8, <2>9, <2>10, <2>11, <2>12,
         <2>13, <2>14, <2>15, <2>16, <2>17, <2>18, <2>19, <2>20, <2>21, <2>22,
         <2>23, <2>24, <2>25, <2>26, <2>27, <2>28, <2>29, <2>30, <2>31, <2>32,
         <2>33, <2>34, <2>35, <2>36
         DEF Next, Request, TaskStep, WatcherStep
  <1>3. LockOwned => NoStuckLock
    BY DEF LockOwned
  <1> QED BY <1>1, <1>2, <1>3, TypeCorrect, PTL DEF Spec

(* Mutual exclusion is not inductive: LockHeld adds that whoever is in the  *)
(* critical section has set the lock, so that nobody else gets in, and that *)
(* only a force restart passes a lock that is set.                          *)
LockHeld ==
    /\ MutualExclusion
    /\ SomeInLock => actionLock
    /\ \A t \in Task :
        /\ task[t].kind # "force"
        /\ task[t].at = "term" =>
            task[t].kind \in {"stop", "restart", "deploy", "rollback", "shutdown"}

LEMMA LockIsHeld ==
    ASSUME "force" \notin Requests
    PROVE  Spec => []LockHeld
  <1>1. Init => LockHeld
    BY DEF Init, LockHeld, MutualExclusion, SomeInLock, InLock, TimerInLock, Idle, Off
  <1>2. TypeOK /\ LockHeld /\ [Next]_vars => LockHeld'
    <2> SUFFICES ASSUME TypeOK, LockHeld, [Next]_vars
                 PROVE  LockHeld'
      OBVIOUS
    <2>0. task \in [Task -> TaskState] /\ watcher \in [Inst -> WatcherState]
      BY DEF TypeOK
    <2> USE <2>0 DEF LockHeld, MutualExclusion, SomeInLock, InLock, TimerInLock,
                     TaskState, WatcherState, Idle, At, Off, Watch
    <2>1. ASSUME NEW t \in Task, Start(t)
          PROVE  LockHeld'
      BY <2>1 DEF Start, Arrives, TakeLock, row
    <2>2. ASSUME NEW t \in Task, Stop(t)
          PROVE  LockHeld'
      BY <2>2 DEF Stop, Arrives, CallStop, Untrack, StopEnds, AfterStop, locks
    <2>3. ASSUME NEW t \in Task, Restart(t)
          PROVE  LockHeld'
      BY <2>3 DEF Restart, Arrives, TakeLock, CallStop, Untrack, StopEnds, AfterStop
    <2>4. ASSUME NEW t \in Task, ForceRestart(t)
          PROVE  LockHeld'
      BY <2>4 DEF ForceRestart, Arrives, Untrack
    <2>5. ASSUME NEW t \in Task, Deploy(t)
          PROVE  LockHeld'
      BY <2>5 DEF Deploy, Arrives, TakeLock, row
    <2>6. ASSUME NEW t \in Task, Rollback(t)
          PROVE  LockHeld'
      BY <2>6 DEF Rollback, Arrives, TakeLock, StopIfRunning, CallStop, Untrack,
                 StopEnds, AfterStop
    <2>7. ASSUME NEW t \in Task, Shutdown(t)
          PROVE  LockHeld'
      BY SMTT(90), <2>7 DEF Shutdown, Arrives, CallStop, Untrack, StopEnds, AfterStop, locks
    <2>8. ASSUME NEW t \in Task, StartProcess(t)
          PROVE  LockHeld'
      BY <2>8 DEF StartProcess, locks
    <2>9. ASSUME NEW t \in Task, StartAlreadyRunning(t)
          PROVE  LockHeld'
      BY <2>9 DEF StartAlreadyRunning, ReleaseLock, row
    <2>10. ASSUME NEW t \in Task, StartFails(t)
          PROVE  LockHeld'
      BY <2>10 DEF StartFails, ReleaseLock
    <2>11. ASSUME NEW t \in Task, StartSpawns(t)
          PROVE  LockHeld'
      BY <2>11 DEF StartSpawns, ReleaseLock, Spawned, Fresh
    <2>12. ASSUME NEW t \in Task, StopResumes(t)
          PROVE  LockHeld'
      <3>1. CASE task[t].kind = "stop"
        BY <2>12, <3>1 DEF StopResumes, StopEnds, AfterStop, locks
      <3>2. CASE task[t].kind = "shutdown"
        BY <2>12, <3>2 DEF StopResumes, StopEnds, AfterStop, locks
      <3>3. CASE task[t].kind \notin {"stop", "shutdown"}
        <4>1. InLock(t)
          BY <2>12, <3>3 DEF StopResumes
        <4> QED
          BY <2>12, <3>3, <4>1 DEF StopResumes, StopEnds, AfterStop, locks
      <3> QED
        BY <3>1, <3>2, <3>3
    <2>13. ASSUME NEW t \in Task, ForceKills(t)
          PROVE  LockHeld'
      BY <2>13 DEF ForceKills, Parked, row, locks
    <2>14. ASSUME NEW t \in Task, ForceSwept(t)
          PROVE  LockHeld'
      BY <2>14 DEF ForceSwept, Parked, locks
    <2>15. ASSUME NEW t \in Task, DeployStops(t)
          PROVE  LockHeld'
      BY <2>15 DEF DeployStops, Parked, StopIfRunning, CallStop, Untrack, StopEnds,
                 AfterStop, locks
    <2>16. ASSUME NEW t \in Task, DeployEnds(t)
          PROVE  LockHeld'
      BY <2>16 DEF DeployEnds
    <2>17. ASSUME NEW t \in Task, RollbackEnds(t)
          PROVE  LockHeld'
      BY <2>17 DEF RollbackEnds, Parked, ReleaseLock
    <2>18. ASSUME NEW t \in Task, ShutdownUntracks(t)
          PROVE  LockHeld'
      BY <2>18 DEF ShutdownUntracks, Parked, row, locks
    <2>19. ASSUME NEW t \in Task, ServerExits(t)
          PROVE  LockHeld'
      BY <2>19 DEF ServerExits, MemoryLost, row
    <2>20. ASSUME NEW t \in Task, BootReads(t)
          PROVE  LockHeld'
      BY <2>20 DEF BootReads, Parked, locks
    <2>21. ASSUME NEW t \in Task, BootAdopts(t)
          PROVE  LockHeld'
      BY <2>21 DEF BootAdopts, Parked, locks
    <2>22. ASSUME NEW t \in Task, BootRestores(t)
          PROVE  LockHeld'
      BY SMTT(90), <2>22 DEF BootRestores, Parked, TakeLock
    <2>23. ASSUME NEW t \in Task, Boot(t)
          PROVE  LockHeld'
      BY <2>23 DEF Boot, row, locks
    <2>24. ASSUME NEW i \in Inst, StabilityElapses(i)
          PROVE  LockHeld'
      BY <2>24 DEF StabilityElapses, locks
    <2>25. ASSUME NEW i \in Inst, ExitEvent(i)
          PROVE  LockHeld'
      BY <2>25 DEF ExitEvent, row, locks
    <2>26. ASSUME NEW i \in Inst, ExitIgnored(i)
          PROVE  LockHeld'
      BY <2>26 DEF ExitIgnored, row, locks
    <2>27. ASSUME NEW i \in Inst, ExitAsksGroup(i)
          PROVE  LockHeld'
      BY <2>27 DEF ExitAsksGroup, row, locks
    <2>28. ASSUME NEW i \in Inst, ExitAdoptsGroup(i)
          PROVE  LockHeld'
      BY <2>28 DEF ExitAdoptsGroup, locks
    <2>29. ASSUME NEW i \in Inst, ExitHandled(i)
          PROVE  LockHeld'
      BY <2>29 DEF ExitHandled, locks
    <2>30. ASSUME NEW i \in Inst, BackoffStarts(i)
          PROVE  LockHeld'
      BY <2>30 DEF BackoffStarts, TakeLock
    <2>31. ASSUME NEW i \in Inst, BackoffAlreadyRunning(i)
          PROVE  LockHeld'
      BY <2>31 DEF BackoffAlreadyRunning, row, locks
    <2>32. ASSUME NEW i \in Inst, BackoffFails(i)
          PROVE  LockHeld'
      BY <2>32 DEF BackoffFails, locks
    <2>33. ASSUME NEW i \in Inst, BackoffSpawns(i)
          PROVE  LockHeld'
      BY <2>33, SMTT(40) DEF BackoffSpawns, ReleaseLock, Spawned, Fresh
    <2>34. ASSUME NEW i \in Inst, InstanceDies(i)
          PROVE  LockHeld'
      BY <2>34 DEF InstanceDies, row, locks
    <2>35. CASE Crash
      BY <2>35 DEF Crash, MemoryLost, row
    <2>36. CASE UNCHANGED vars
      BY <2>36 DEF vars
    <2> QED
      BY <2>1, <2>2, <2>3, <2>4, <2>5, <2>6, <2>7, <2>8, <2>9, <2>10, <2>11, <2>12,
         <2>13, <2>14, <2>15, <2>16, <2>17, <2>18, <2>19, <2>20, <2>21, <2>22,
         <2>23, <2>24, <2>25, <2>26, <2>27, <2>28, <2>29, <2>30, <2>31, <2>32,
         <2>33, <2>34, <2>35, <2>36
         DEF Next, Request, TaskStep, WatcherStep
  <1> QED BY <1>1, <1>2, TypeCorrect, PTL DEF Spec

(* The lock excludes (withLock, services/runtime.ts): as long as nobody     *)
(* force restarts, two actions never run under the lock of the service.     *)
THEOREM LockExcludes ==
    ASSUME "force" \notin Requests
    PROVE  Spec => []MutualExclusion
  <1>1. LockHeld => MutualExclusion
    BY DEF LockHeld
  <1> QED BY <1>1, LockIsHeld, PTL

(* A git deploy is alone on its working tree even when force restarts break *)
(* locks (deployFromGit, services/deploy.ts, and forceRestartService,       *)
(* services/runtime.ts).  DeployHeld adds that a deploy in progress is in   *)
(* activeDeploys.                                                           *)
DeployHeld ==
    /\ DeploysExclusive
    /\ (\E t \in Task : InDeploy(t)) => activeDeploy

THEOREM DeploysExclude == Spec => []DeploysExclusive
  <1>1. Init => DeployHeld
    BY DEF Init, DeployHeld, DeploysExclusive, InDeploy, Idle
  <1>2. TypeOK /\ DeployHeld /\ [Next]_vars => DeployHeld'
    <2> SUFFICES ASSUME TypeOK, DeployHeld, [Next]_vars
                 PROVE  DeployHeld'
      OBVIOUS
    <2>0. task \in [Task -> TaskState]
      BY DEF TypeOK
    <2> USE <2>0 DEF DeployHeld, DeploysExclusive, InDeploy, TaskState, Idle, At
    <2>1. ASSUME NEW t \in Task, Start(t)
          PROVE  DeployHeld'
      BY <2>1 DEF Start, Arrives, TakeLock, row
    <2>2. ASSUME NEW t \in Task, Stop(t)
          PROVE  DeployHeld'
      BY <2>2 DEF Stop, Arrives, CallStop, Untrack, StopEnds, AfterStop, locks
    <2>3. ASSUME NEW t \in Task, Restart(t)
          PROVE  DeployHeld'
      BY <2>3 DEF Restart, Arrives, TakeLock, CallStop, Untrack, StopEnds, AfterStop
    <2>4. ASSUME NEW t \in Task, ForceRestart(t)
          PROVE  DeployHeld'
      BY <2>4 DEF ForceRestart, Arrives, Untrack, NoActiveDeploy
    <2>5. ASSUME NEW t \in Task, Deploy(t)
          PROVE  DeployHeld'
      BY <2>5 DEF Deploy, Arrives, TakeLock, row, NoActiveDeploy
    <2>6. ASSUME NEW t \in Task, Rollback(t)
          PROVE  DeployHeld'
      BY <2>6 DEF Rollback, Arrives, TakeLock, StopIfRunning, CallStop, Untrack,
                 StopEnds, AfterStop
    <2>7. ASSUME NEW t \in Task, Shutdown(t)
          PROVE  DeployHeld'
      BY <2>7 DEF Shutdown, Arrives, CallStop, Untrack, StopEnds, AfterStop, locks
    <2>8. ASSUME NEW t \in Task, StartProcess(t)
          PROVE  DeployHeld'
      BY <2>8 DEF StartProcess, locks
    <2>9. ASSUME NEW t \in Task, StartAlreadyRunning(t)
          PROVE  DeployHeld'
      BY <2>9 DEF StartAlreadyRunning, ReleaseLock, row
    <2>10. ASSUME NEW t \in Task, StartFails(t)
          PROVE  DeployHeld'
      BY <2>10 DEF StartFails, ReleaseLock
    <2>11. ASSUME NEW t \in Task, StartSpawns(t)
          PROVE  DeployHeld'
      BY <2>11 DEF StartSpawns, ReleaseLock, Spawned, Fresh
    <2>12. ASSUME NEW t \in Task, StopResumes(t)
          PROVE  DeployHeld'
      BY <2>12 DEF StopResumes, StopEnds, AfterStop, locks
    <2>13. ASSUME NEW t \in Task, ForceKills(t)
          PROVE  DeployHeld'
      BY <2>13 DEF ForceKills, Parked, row, locks
    <2>14. ASSUME NEW t \in Task, ForceSwept(t)
          PROVE  DeployHeld'
      BY <2>14 DEF ForceSwept, Parked, locks
    <2>15. ASSUME NEW t \in Task, DeployStops(t)
          PROVE  DeployHeld'
      BY <2>15 DEF DeployStops, Parked, StopIfRunning, CallStop, Untrack, StopEnds,
                 AfterStop, locks
    <2>16. ASSUME NEW t \in Task, DeployEnds(t)
          PROVE  DeployHeld'
      BY <2>16 DEF DeployEnds
    <2>17. ASSUME NEW t \in Task, RollbackEnds(t)
          PROVE  DeployHeld'
      BY <2>17 DEF RollbackEnds, Parked, ReleaseLock
    <2>18. ASSUME NEW t \in Task, ShutdownUntracks(t)
          PROVE  DeployHeld'
      BY <2>18 DEF ShutdownUntracks, Parked, row, locks
    <2>19. ASSUME NEW t \in Task, ServerExits(t)
          PROVE  DeployHeld'
      BY <2>19 DEF ServerExits, MemoryLost, row
    <2>20. ASSUME NEW t \in Task, BootReads(t)
          PROVE  DeployHeld'
      BY <2>20 DEF BootReads, Parked, locks
    <2>21. ASSUME NEW t \in Task, BootAdopts(t)
          PROVE  DeployHeld'
      BY <2>21 DEF BootAdopts, Parked, locks
    <2>22. ASSUME NEW t \in Task, BootRestores(t)
          PROVE  DeployHeld'
      BY <2>22 DEF BootRestores, Parked, TakeLock
    <2>23. ASSUME NEW t \in Task, Boot(t)
          PROVE  DeployHeld'
      BY <2>23 DEF Boot, row, locks
    <2>24. ASSUME NEW i \in Inst, StabilityElapses(i)
          PROVE  DeployHeld'
      BY <2>24 DEF StabilityElapses, locks
    <2>25. ASSUME NEW i \in Inst, ExitEvent(i)
          PROVE  DeployHeld'
      BY <2>25 DEF ExitEvent, row, locks
    <2>26. ASSUME NEW i \in Inst, ExitIgnored(i)
          PROVE  DeployHeld'
      BY <2>26 DEF ExitIgnored, row, locks
    <2>27. ASSUME NEW i \in Inst, ExitAsksGroup(i)
          PROVE  DeployHeld'
      BY <2>27 DEF ExitAsksGroup, row, locks
    <2>28. ASSUME NEW i \in Inst, ExitAdoptsGroup(i)
          PROVE  DeployHeld'
      BY <2>28 DEF ExitAdoptsGroup, locks
    <2>29. ASSUME NEW i \in Inst, ExitHandled(i)
          PROVE  DeployHeld'
      BY <2>29 DEF ExitHandled, locks
    <2>30. ASSUME NEW i \in Inst, BackoffStarts(i)
          PROVE  DeployHeld'
      BY <2>30 DEF BackoffStarts, TakeLock
    <2>31. ASSUME NEW i \in Inst, BackoffAlreadyRunning(i)
          PROVE  DeployHeld'
      BY <2>31 DEF BackoffAlreadyRunning, row, locks
    <2>32. ASSUME NEW i \in Inst, BackoffFails(i)
          PROVE  DeployHeld'
      BY <2>32 DEF BackoffFails, locks
    <2>33. ASSUME NEW i \in Inst, BackoffSpawns(i)
          PROVE  DeployHeld'
      BY <2>33 DEF BackoffSpawns, ReleaseLock, Spawned, Fresh
    <2>34. ASSUME NEW i \in Inst, InstanceDies(i)
          PROVE  DeployHeld'
      BY <2>34 DEF InstanceDies, row, locks
    <2>35. CASE Crash
      BY <2>35 DEF Crash, MemoryLost, row
    <2>36. CASE UNCHANGED vars
      BY <2>36 DEF vars
    <2> QED
      BY <2>1, <2>2, <2>3, <2>4, <2>5, <2>6, <2>7, <2>8, <2>9, <2>10, <2>11, <2>12,
         <2>13, <2>14, <2>15, <2>16, <2>17, <2>18, <2>19, <2>20, <2>21, <2>22,
         <2>23, <2>24, <2>25, <2>26, <2>27, <2>28, <2>29, <2>30, <2>31, <2>32,
         <2>33, <2>34, <2>35, <2>36
         DEF Next, Request, TaskStep, WatcherStep
  <1>3. DeployHeld => DeploysExclusive
    BY DEF DeployHeld
  <1> QED BY <1>1, <1>2, <1>3, TypeCorrect, PTL DEF Spec

=============================================================================
