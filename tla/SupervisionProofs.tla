-------------------------- MODULE SupervisionProofs --------------------------
(***************************************************************************)
(* Theorems about what ServiceRuntime leaves running: who may lose sight   *)
(* of an instance, that the row records the tracked one, that one instance *)
(* at most is left and that the row tells the truth about it.  For any     *)
(* tasks, instances and counts, and the requests and faults each names.    *)
(***************************************************************************)
EXTENDS ServiceRuntimeProofs

(* The control plane is neither killed nor shut down.                       *)
StaysUp == ~CanCrash /\ "shutdown" \notin Requests

(* Nor does a launcher leave its group behind, nor does anybody break locks.*)
Orderly == StaysUp /\ ~GroupsStay /\ "force" \notin Requests

(* A control plane that is down has no handlers; nothing but the boot and   *)
(* the operating system acts then.                                          *)
DownIdle == ~up => \A t \in Task : task[t] = Idle

LEMMA DownStays == Spec => []DownIdle
  <1>1. Init => DownIdle
    BY DEF Init, DownIdle
  <1>2. TypeOK /\ DownIdle /\ [Next]_vars => DownIdle'
    <2> SUFFICES ASSUME TypeOK, DownIdle, [Next]_vars PROVE DownIdle'
      OBVIOUS
    <2>1. CASE Crash \/ \E t \in Task : ServerExits(t)
      BY <2>1 DEF Crash, ServerExits, MemoryLost, DownIdle
    <2>2. ASSUME NEW i \in Inst, InstanceDies(i) PROVE DownIdle'
      BY <2>2 DEF InstanceDies, DownIdle
    <2>3. ASSUME NEW t \in Task, Boot(t) PROVE DownIdle'
      BY <2>3 DEF Boot, DownIdle
    <2>4. CASE UNCHANGED vars
      BY <2>4 DEF vars, DownIdle
    <2>5. ASSUME NEW t \in Task, Request(t) PROVE DownIdle'
      BY <2>5 DEF Request, Start, Stop, Restart, ForceRestart, Deploy, Rollback, Shutdown,
                  Arrives, DownIdle
    <2>6. ASSUME NEW t \in Task, TaskStep(t), ~ServerExits(t) PROVE DownIdle'
      BY <2>6 DEF TaskStep, StartProcess, StartAlreadyRunning, StartFails, StartSpawns, StopResumes,
                  ForceKills, ForceSwept, DeployStops, DeployEnds, RollbackEnds, ShutdownUntracks,
                  BootReads, BootAdopts, BootRestores, Parked, DownIdle
    <2>7. ASSUME NEW i \in Inst, WatcherStep(i) PROVE DownIdle'
      BY <2>7 DEF WatcherStep, StabilityElapses, ExitEvent, ExitIgnored, ExitAsksGroup,
                  ExitAdoptsGroup, ExitHandled, BackoffStarts, BackoffAlreadyRunning, BackoffFails,
                  BackoffSpawns, DownIdle
    <2> QED BY <2>1, <2>2, <2>3, <2>4, <2>5, <2>6, <2>7 DEF Next
  <1> QED BY <1>1, <1>2, TypeCorrect, PTL DEF Spec

(* The last stop or start to end writes a settled status (stopService,      *)
(* forceRestartService, startProcessService): nothing else ends one.        *)
THEOREM TransitionsDoEnd == Spec => TransitionsEnd
  <1> DEFINE Ends == up' => /\ SomeStarting /\ ~SomeStarting' => status' # "starting"
                            /\ SomeStopping /\ ~SomeStopping' => status' # "stopping"
  <1>1. ASSUME TypeOK, DownIdle, [Next]_vars PROVE Ends
    <2>0. task \in [Task -> TaskState] /\ watcher \in [Inst -> WatcherState]
      BY <1>1 DEF TypeOK
    <2> USE <2>0 DEF SomeStarting, SomeStopping, TimerInLock, TaskState, WatcherState,
                     Idle, At, Off, Watch
    <2>1. ASSUME NEW t \in Task, Request(t) PROVE Ends
      <3>1. task[t] = Idle /\ UNCHANGED watcher /\ \A u \in Task \ {t} : task'[u] = task[u]
        BY <2>1 DEF Request, Start, Stop, Restart, ForceRestart, Deploy, Rollback, Shutdown,
                    Arrives, StopIfRunning, CallStop, Untrack, StopEnds
      <3> QED BY <3>1
    <2>2. ASSUME NEW t \in Task, StopResumes(t) PROVE Ends
      BY <2>2 DEF StopResumes, StopEnds, AfterStop
    <2>3. ASSUME NEW t \in Task, ForceKills(t) PROVE Ends
      <3>1. task'[t].at = "sweep" /\ task[t].at = "kill" /\ UNCHANGED watcher
        BY <2>3 DEF ForceKills, Parked
      <3>2. \A u \in Task \ {t} : task'[u] = task[u]
        BY <2>3 DEF ForceKills
      <3> QED BY <3>1, <3>2
    <2>11. ASSUME NEW t \in Task, ForceSwept(t) PROVE Ends
      BY <2>11 DEF ForceSwept, Parked
    <2>4. ASSUME NEW t \in Task, StartSpawns(t) PROVE Ends
      BY <2>4 DEF StartSpawns, Spawned, Fresh
    <2>5. ASSUME NEW t \in Task,
                 \/ StartProcess(t) \/ StartAlreadyRunning(t) \/ StartFails(t)
                 \/ DeployEnds(t) \/ RollbackEnds(t) \/ ShutdownUntracks(t)
                 \/ BootReads(t) \/ BootAdopts(t) \/ BootRestores(t)
          PROVE  Ends
      <3>1. /\ task[t].at \in {"deps", "branch", "build", "tasks", "list", "ps"}
            /\ UNCHANGED watcher
            /\ \A u \in Task \ {t} : task'[u] = task[u]
        BY <2>5 DEF StartProcess, StartAlreadyRunning, StartFails, DeployEnds, RollbackEnds,
                    ShutdownUntracks, BootReads, BootAdopts, BootRestores, Parked
      <3> QED BY <3>1
    <2>6. ASSUME NEW t \in Task, DeployStops(t) PROVE Ends
      <3>1. /\ task[t].at = "branch"
            /\ UNCHANGED watcher
            /\ \A u \in Task \ {t} : task'[u] = task[u]
        BY <2>6 DEF DeployStops, Parked, StopIfRunning, CallStop, Untrack, StopEnds
      <3> QED BY <3>1
    <2>7. ASSUME NEW t \in Task, ServerExits(t) \/ Boot(t) PROVE Ends
      <3>1. CASE ServerExits(t)
        BY <3>1 DEF ServerExits, MemoryLost
      <3>2. CASE Boot(t)
        BY <1>1, <3>2 DEF Boot, DownIdle
      <3> QED BY <2>7, <3>1, <3>2
    <2>8. ASSUME NEW i \in Inst, BackoffSpawns(i) PROVE Ends
      BY <2>8 DEF BackoffSpawns, Spawned, Fresh
    <2>9. ASSUME NEW i \in Inst,
                 \/ StabilityElapses(i) \/ ExitEvent(i) \/ ExitIgnored(i) \/ ExitAsksGroup(i)
                 \/ ExitAdoptsGroup(i) \/ ExitHandled(i) \/ BackoffStarts(i)
                 \/ BackoffAlreadyRunning(i) \/ BackoffFails(i) \/ InstanceDies(i)
          PROVE  Ends
      <3>1. /\ UNCHANGED task
            /\ \A j \in Inst : watcher[j].at = "port" => watcher'[j].at = "port"
        BY <2>9 DEF StabilityElapses, ExitEvent, ExitIgnored, ExitAsksGroup, ExitAdoptsGroup,
                    ExitHandled, BackoffStarts, BackoffAlreadyRunning, BackoffFails, InstanceDies
      <3> QED BY <3>1
    <2>10. CASE Crash \/ UNCHANGED vars
      BY <2>10 DEF Crash, MemoryLost, vars
    <2> QED
      BY <1>1, <2>1, <2>2, <2>3, <2>4, <2>5, <2>6, <2>7, <2>8, <2>9, <2>10,
         <2>11 DEF Next, TaskStep, WatcherStep
  <1> QED BY <1>1, TypeCorrect, DownStays, PTL DEF Spec, TransitionsEnd

(* The row records the tracked instance or, after a stop or a boot that     *)
(* overlapped its start, none; only a stop that waits has an instance.      *)
Named ==
    /\ runtimeProcess # NoInst => runtimePgid \in {runtimeProcess, NoInst}
    /\ \A t \in Task : task[t].inst # NoInst => task[t].at \in {"term", "kill"}

LEMMA NamedStays == Spec => []Named
  <1>1. Init => Named
    BY DEF Init, Named, Idle
  <1>2. TypeOK /\ Named /\ [Next]_vars => Named'
    <2> SUFFICES ASSUME TypeOK, Named, [Next]_vars PROVE Named'
      OBVIOUS
    <2>0. task \in [Task -> TaskState]
      BY DEF TypeOK
    <2> USE <2>0 DEF Named, TaskState, Idle, At
    <2>1. ASSUME NEW t \in Task, CallStop(t, "stop") \/ CallStop(t, "restart") \/ CallStop(t, "deploy")
                                 \/ CallStop(t, "rollback") \/ CallStop(t, "shutdown")
          PROVE  Named'
      BY <2>1 DEF CallStop, Untrack, StopEnds, AfterStop
    <2>2. ASSUME NEW t \in Task, Request(t) PROVE Named'
      <3>1. CASE Start(t) \/ Deploy(t)
        BY <3>1 DEF Start, Deploy, row
      <3>2. CASE Stop(t) \/ Restart(t)
        BY <2>1, <3>2 DEF Stop, Restart
      <3>3. CASE ForceRestart(t)
        BY <3>3 DEF ForceRestart, Untrack
      <3>4. CASE Rollback(t)
        BY <2>1, <3>4 DEF Rollback, StopIfRunning
      <3>5. CASE Shutdown(t)
        BY <2>1, <3>5 DEF Shutdown
      <3> QED BY <2>2, <3>1, <3>2, <3>3, <3>4, <3>5 DEF Request
    <2>3. ASSUME NEW t \in Task, TaskStep(t) PROVE Named'
      <3>1. CASE StartProcess(t)
        BY <3>1 DEF StartProcess
      <3>2. CASE StartAlreadyRunning(t) \/ StartFails(t) \/ DeployEnds(t) \/ RollbackEnds(t)
        BY <3>2 DEF StartAlreadyRunning, StartFails, DeployEnds, RollbackEnds, row
      <3>3. CASE StartSpawns(t)
        BY <3>3 DEF StartSpawns, Spawned
      <3>4. CASE StopResumes(t)
        BY <3>4 DEF StopResumes, StopEnds, AfterStop
      <3>5. CASE ForceKills(t) \/ ForceSwept(t)
        BY <3>5 DEF ForceKills, ForceSwept, row
      <3>6. CASE DeployStops(t)
        BY <2>1, <3>6 DEF DeployStops, StopIfRunning
      <3>7. CASE ShutdownUntracks(t) \/ ServerExits(t)
        BY <3>7 DEF ShutdownUntracks, ServerExits, MemoryLost, row
      <3>8. CASE BootReads(t) \/ BootAdopts(t) \/ BootRestores(t)
        BY <3>8 DEF BootReads, BootAdopts, BootRestores
      <3> QED BY <2>3, <3>1, <3>2, <3>3, <3>4, <3>5, <3>6, <3>7, <3>8 DEF TaskStep
    <2>4. ASSUME NEW t \in Task, Boot(t) PROVE Named'
      BY <2>4 DEF Boot, row
    <2>5. ASSUME NEW i \in Inst, WatcherStep(i) \/ InstanceDies(i) PROVE Named'
      BY <2>5 DEF WatcherStep, StabilityElapses, ExitEvent, ExitIgnored, ExitAsksGroup,
                  ExitAdoptsGroup, ExitHandled, BackoffStarts, BackoffAlreadyRunning, BackoffFails,
                  BackoffSpawns, Spawned, InstanceDies, row
    <2>6. CASE Crash \/ UNCHANGED vars
      BY <2>6 DEF Crash, MemoryLost, vars, row
    <2> QED BY <2>2, <2>3, <2>4, <2>5, <2>6 DEF Next
  <1> QED BY <1>1, <1>2, TypeCorrect, PTL DEF Spec

(* Instances only begin to run in a spawn, which tracks and records them;   *)
(* every other step that forgets the pgid has killed its group or untracked *)
(* it, except the reconciliation at boot.                                   *)
LEMMA RecordedUnlessBoot ==
    ASSUME TypeOK, TrackedIsRecorded, [Next]_vars, \A t \in Task : ~BootRestores(t)
    PROVE  TrackedIsRecorded'
  <1>0. proc \in [Inst -> ProcState] /\ NoInst \notin Inst
    BY NoInstAssumption DEF TypeOK
  <1> USE <1>0 DEF TrackedIsRecorded, Runs
  <1> DEFINE Same == UNCHANGED <<runtimeProcess, runtimePgid>> /\
                     \A i \in Inst : proc[i] = "none" => proc'[i] = "none"
  <1>1. ASSUME Same PROVE TrackedIsRecorded'
    BY <1>1
  <1>2. ASSUME runtimeProcess' = NoInst PROVE TrackedIsRecorded'
    BY <1>2
  <1>3. ASSUME NEW t, NEW k, CallStop(t, k) PROVE TrackedIsRecorded'
    BY <1>3 DEF CallStop, Untrack, StopEnds, Killed
  <1>4. ASSUME NEW t \in Task, StopResumes(t) PROVE TrackedIsRecorded'
    BY <1>4 DEF StopResumes, StopEnds, Killed
  <1>5. ASSUME NEW i, Spawned(i) PROVE TrackedIsRecorded'
    BY <1>5 DEF Spawned
  <1>6. ASSUME NEW t \in Task, Request(t) PROVE TrackedIsRecorded'
    BY <1>1, <1>2, <1>3, <1>6
       DEF Request, Start, Stop, Restart, ForceRestart, Deploy, Rollback, Shutdown, StopIfRunning,
           Untrack, Killed, row
  <1>7. ASSUME NEW t \in Task, TaskStep(t) PROVE TrackedIsRecorded'
    <2>1. CASE StartProcess(t) \/ StartAlreadyRunning(t) \/ StartFails(t) \/ DeployEnds(t) \/ RollbackEnds(t)
      BY <1>1, <2>1 DEF StartProcess, StartAlreadyRunning, StartFails, DeployEnds, RollbackEnds, row
    <2>2. CASE StartSpawns(t)
      BY <1>5, <2>2 DEF StartSpawns
    <2>3. CASE StopResumes(t) \/ DeployStops(t)
      BY <1>1, <1>3, <1>4, <2>3 DEF DeployStops, StopIfRunning
    <2>4. CASE ForceKills(t) \/ ForceSwept(t)
      BY <1>1, <1>2, <2>4 DEF ForceKills, ForceSwept, Killed, row
    <2>5. CASE ShutdownUntracks(t) \/ ServerExits(t)
      BY <1>1, <1>2, <2>5 DEF ShutdownUntracks, ServerExits, MemoryLost, row
    <2>6. CASE BootReads(t) \/ BootAdopts(t) \/ BootRestores(t)
      BY <1>1, <2>6 DEF BootReads, BootAdopts
    <2> QED BY <1>7, <2>1, <2>2, <2>3, <2>4, <2>5, <2>6 DEF TaskStep
  <1>8. ASSUME NEW i \in Inst, WatcherStep(i) \/ InstanceDies(i) PROVE TrackedIsRecorded'
    BY <1>1, <1>2, <1>5, <1>8
       DEF WatcherStep, StabilityElapses, ExitEvent, ExitIgnored, ExitAsksGroup, ExitAdoptsGroup,
           ExitHandled, BackoffStarts, BackoffAlreadyRunning, BackoffFails, BackoffSpawns,
           InstanceDies, row
  <1>9. CASE Crash \/ UNCHANGED vars \/ \E t \in Task : Boot(t)
    BY <1>1, <1>2, <1>9 DEF Crash, MemoryLost, Boot, vars, row
  <1> QED BY <1>6, <1>7, <1>8, <1>9 DEF Next

(* A running instance that is tracked goes unrecorded only where boot acts  *)
(* on a row that changed since it was read or on a ps that failed           *)
(* (reconcileRuntimeStateOnBoot): else the group the row names is dead.     *)
THEOREM BootAloneUnrecords == Spec => OnlyBootUnrecords
  <1> DEFINE Kept == TrackedIsRecorded =>
                        \/ TrackedIsRecorded'
                        \/ \E t \in Task : BootRestores(t) /\ runtimePgid # bootRow.pgid
                        \/ \E t \in Task : BootRestores(t) /\ Lives(bootRow.pgid)
  <1>1. TypeOK /\ [Next]_vars => Kept
    <2> SUFFICES ASSUME TypeOK, [Next]_vars, TrackedIsRecorded, NEW t \in Task, BootRestores(t),
                        runtimePgid = bootRow.pgid, ~Lives(bootRow.pgid)
                 PROVE  TrackedIsRecorded'
      BY RecordedUnlessBoot
    <2> QED BY NoInstAssumption DEF TrackedIsRecorded, Runs, BootRestores, Lives
  <1> QED BY <1>1, TypeCorrect, PTL DEF Spec, OnlyBootUnrecords

Upright == up /\ \A t \in Task : task[t].kind \notin {"boot", "shutdown"}

LEMMA UprightKept ==
    ASSUME StaysUp, TypeOK, Upright, [Next]_vars
    PROVE  Upright'
  <1>0. task \in [Task -> TaskState] /\ up
    BY DEF TypeOK, Upright
  <1> USE <1>0 DEF Upright, TaskState, Idle, At, row, locks
  <1>1. ASSUME NEW t \in Task, NEW k \in {"stop", "restart", "deploy", "rollback"}, CallStop(t, k)
        PROVE  \A u \in Task : task'[u].kind \notin {"boot", "shutdown"}
    BY <1>1 DEF CallStop, Untrack, StopEnds, AfterStop
  <1>2. ASSUME NEW t \in Task, Request(t) PROVE Upright'
    <2>1. CASE Start(t)
      BY <2>1 DEF Start
    <2>6. CASE Deploy(t)
      BY <2>6 DEF Deploy
    <2>2. CASE ForceRestart(t)
      BY <2>2 DEF ForceRestart, Untrack
    <2>3. CASE Stop(t) \/ Restart(t)
      BY <1>1, <2>3 DEF Stop, Restart
    <2>4. CASE Rollback(t)
      BY <1>1, <2>4 DEF Rollback, StopIfRunning
    <2>5. CASE Shutdown(t)
      BY <2>5 DEF Shutdown, Arrives, StaysUp
    <2> QED BY <1>2, <2>1, <2>2, <2>3, <2>4, <2>5, <2>6 DEF Request
  <1>3. ASSUME NEW t \in Task, TaskStep(t) PROVE Upright'
    <2>1. CASE StartProcess(t)
      BY <2>1 DEF StartProcess
    <2>6. CASE StartAlreadyRunning(t)
      BY <2>6 DEF StartAlreadyRunning
    <2>8. CASE StartFails(t)
      BY <2>8 DEF StartFails
    <2>9. CASE StartSpawns(t)
      BY <2>9 DEF StartSpawns
    <2>2. CASE DeployEnds(t)
      BY <2>2 DEF DeployEnds
    <2>7. CASE RollbackEnds(t)
      BY <2>7 DEF RollbackEnds
    <2>10. CASE ForceKills(t)
      BY <2>10 DEF ForceKills
    <2>11. CASE ForceSwept(t)
      BY <2>11 DEF ForceSwept
    <2>3. CASE StopResumes(t)
      BY <2>3 DEF StopResumes, StopEnds, AfterStop
    <2>4. CASE DeployStops(t)
      BY <1>1, <2>4 DEF DeployStops, StopIfRunning
    <2>5. CASE ShutdownUntracks(t) \/ ServerExits(t) \/ BootReads(t) \/ BootAdopts(t) \/ BootRestores(t)
      BY <2>5 DEF ShutdownUntracks, ServerExits, BootReads, BootAdopts, BootRestores, Parked
    <2> QED BY <1>3, <2>1, <2>2, <2>3, <2>4, <2>5, <2>6, <2>7, <2>8, <2>9,
            <2>10, <2>11 DEF TaskStep
  <1>4. ASSUME NEW i \in Inst, WatcherStep(i) \/ InstanceDies(i) PROVE Upright'
    BY <1>4 DEF WatcherStep, StabilityElapses, ExitEvent, ExitIgnored, ExitAsksGroup,
                ExitAdoptsGroup, ExitHandled, BackoffStarts, BackoffAlreadyRunning, BackoffFails,
                BackoffSpawns, InstanceDies
  <1>5. CASE Crash \/ (\E t \in Task : Boot(t)) \/ UNCHANGED vars
    BY <1>5 DEF Crash, StaysUp, Boot, vars
  <1> QED BY <1>2, <1>3, <1>4, <1>5 DEF Next

LEMMA UprightStays ==
    ASSUME StaysUp
    PROVE  Spec => []Upright
  <1>1. Init => Upright
    BY DEF Init, Upright, Idle
  <1>2. TypeOK /\ Upright /\ [Next]_vars => Upright'
    BY UprightKept
  <1> QED BY <1>1, <1>2, TypeCorrect, PTL DEF Spec

(* While the control plane stays up, the row names the tracked instance as  *)
(* long as that runs: a kill at any later moment finds it again at boot     *)
(* (startProcessService and stopService, services/runtime.ts).              *)
THEOREM TrackedIsInTheRow ==
    ASSUME StaysUp
    PROVE  Spec => []TrackedIsRecorded
  <1>1. Init => TrackedIsRecorded
    BY NoInstAssumption DEF Init, TrackedIsRecorded
  <1>2. TypeOK /\ Upright /\ TrackedIsRecorded /\ [Next]_vars => TrackedIsRecorded'
    BY RecordedUnlessBoot DEF Upright, BootRestores, Parked
  <1> QED BY <1>1, <1>2, TypeCorrect, UprightStays, PTL DEF Spec

Leaks ==
    \/ \E i \in Inst : ExitHandled(i) /\ (watcher[i].at = "ps" \/ Runs(i))
    \/ \E t \in Task : ForceSwept(t) \/ ShutdownUntracks(t) \/ BootRestores(t)
    \/ /\ runtimePgid' \notin {NoInst, runtimePgid}
       /\ runtimePgid # NoInst \/ ~TrackedIsRecorded

(* A stop kills what it untracks and what the row names, an exit callback   *)
(* that saw its instance dead drops a dead one: of what the supervisor      *)
(* knows, only the listed steps forget something that runs.                 *)
LEMMA ForgetsOnlyByLeaks ==
    ASSUME TypeOK, Named, DownIdle, [Next]_vars, up', Forgets
    PROVE  Leaks
  <1>0. /\ task \in [Task -> TaskState] /\ proc \in [Inst -> ProcState]
        /\ runtimeProcess \in InstOrNone /\ runtimePgid \in InstOrNone
        /\ NoInst \notin Inst
    BY NoInstAssumption DEF TypeOK
  <1>1. PICK i \in Inst : Runs(i) /\ Known(i) /\ Runs(i)' /\ ~Known(i)'
    BY DEF Forgets
  <1> USE <1>0, <1>1 DEF Runs, Known, TaskState, Idle, At
  <1>2. ASSUME NEW t \in Task, NEW k, CallStop(t, k),
               task[t].at \in {"idle", "branch"}
        PROVE  FALSE
    <2>1. task[t].inst = NoInst
      BY <1>2 DEF Named
    <2> QED BY <1>2, <2>1 DEF CallStop, Untrack, StopEnds, Killed
  <1>3. ASSUME NEW t \in Task, UNCHANGED <<runtimeProcess, runtimePgid>>, task[t].inst = NoInst,
               \A u \in Task \ {t} : task'[u] = task[u]
        PROVE  FALSE
    BY <1>3
  <1>4. ASSUME NEW t \in Task, Request(t) PROVE FALSE
    <2>1. task[t] = Idle
      BY <1>4 DEF Request, Start, Stop, Restart, ForceRestart, Deploy, Rollback, Shutdown, Arrives
    <2>2. CASE Start(t) \/ Deploy(t)
      <3>1. UNCHANGED <<runtimeProcess, runtimePgid>> /\ task[t].inst = NoInst
        BY ONLY <2>1, <2>2 DEF Start, Deploy, row, Idle
      <3>2. \A u \in Task \ {t} : task'[u] = task[u]
        BY ONLY <1>0, <2>2 DEF Start, Deploy
      <3> QED BY <1>3, <3>1, <3>2
    <2>3. CASE Stop(t) \/ Restart(t)
      <3>1. ~CallStop(t, "stop")
        BY ONLY <1>4, <1>2, <2>1 DEF Idle
      <3>2. ~CallStop(t, "restart")
        BY ONLY <1>4, <1>2, <2>1 DEF Idle
      <3> QED BY <2>3, <3>1, <3>2 DEF Stop, Restart
    <2>4. CASE Rollback(t)
      <3>1. CASE CallStop(t, "rollback")
        BY ONLY <1>4, <1>2, <2>1, <3>1 DEF Idle
      <3> QED BY <1>3, <2>1, <2>4, <3>1 DEF Rollback, StopIfRunning
    <2>5. CASE ForceRestart(t)
      BY <2>1, <2>5 DEF ForceRestart, Untrack
    <2>6. CASE Shutdown(t)
      BY <1>2, <1>3, <2>1, <2>6 DEF Shutdown
    <2> QED BY <1>4, <2>2, <2>3, <2>4, <2>5, <2>6 DEF Request
  <1>5. ASSUME NEW j \in Inst, Spawned(j), \A u \in Task : task[u].inst # NoInst => task'[u].inst = task[u].inst
        PROVE  Leaks
    <2>1. j # i /\ j # runtimePgid /\ i \in {runtimeProcess, runtimePgid}
      BY <1>5 DEF Spawned, Fresh
    <2>2. runtimePgid # NoInst \/ ~TrackedIsRecorded
      BY <2>1 DEF TrackedIsRecorded
    <2> QED BY <1>5, <2>1, <2>2 DEF Spawned, Leaks
  <1>6. ASSUME NEW t \in Task, TaskStep(t) PROVE Leaks
    <2>1. CASE StartProcess(t) \/ StartAlreadyRunning(t) \/ StartFails(t) \/ DeployEnds(t) \/ RollbackEnds(t)
      <3>1. task[t].inst = NoInst
        BY <2>1 DEF StartProcess, StartAlreadyRunning, StartFails, DeployEnds, RollbackEnds, Parked, Named
      <3> QED BY <1>3, <2>1, <3>1
             DEF StartProcess, StartAlreadyRunning, StartFails, DeployEnds, RollbackEnds, row
    <2>2. CASE StartSpawns(t)
      BY <1>5, <2>2 DEF StartSpawns, Named
    <2>3. CASE StopResumes(t)
      BY <2>3 DEF StopResumes, StopEnds, Killed
    <2>4. CASE ForceKills(t)
      BY <2>4 DEF ForceKills, Killed, row
    <2>5. CASE ForceSwept(t)
      BY <2>5 DEF Leaks
    <2>6. CASE DeployStops(t)
      BY <1>2, <1>3, <2>6 DEF DeployStops, Parked, StopIfRunning, Named
    <2>7. CASE ShutdownUntracks(t) \/ BootRestores(t)
      BY <2>7 DEF Leaks
    <2>8. CASE BootReads(t) \/ BootAdopts(t)
      <3>1. task[t].inst = NoInst
        BY <2>8 DEF BootReads, BootAdopts, Parked, Named
      <3> QED BY <1>3, <2>8, <3>1 DEF BootReads, BootAdopts
    <2>9. CASE ServerExits(t)
      BY <2>9 DEF ServerExits, MemoryLost
    <2> QED BY <1>6, <2>1, <2>2, <2>3, <2>4, <2>5, <2>6, <2>7, <2>8, <2>9 DEF TaskStep
  <1>7. ASSUME NEW j \in Inst, ExitHandled(j) PROVE Leaks
    <2>1. CASE watcher[j].at = "ps" \/ Runs(j)
      BY <1>7, <2>1 DEF Leaks
    <2>2. CASE ~(watcher[j].at = "ps" \/ Runs(j))
      BY <1>7, <2>2 DEF ExitHandled, StillTracked, Named
    <2> QED BY <2>1, <2>2
  <1>8. ASSUME NEW j \in Inst, BackoffSpawns(j) PROVE Leaks
    BY <1>5, <1>8 DEF BackoffSpawns
  <1>9. ASSUME NEW j \in Inst,
               \/ StabilityElapses(j) \/ ExitEvent(j) \/ ExitIgnored(j) \/ ExitAsksGroup(j)
               \/ ExitAdoptsGroup(j) \/ BackoffStarts(j) \/ BackoffAlreadyRunning(j)
               \/ BackoffFails(j) \/ InstanceDies(j)
        PROVE  FALSE
    BY <1>9 DEF StabilityElapses, ExitEvent, ExitIgnored, ExitAsksGroup, ExitAdoptsGroup,
                BackoffStarts, BackoffAlreadyRunning, BackoffFails, InstanceDies, row
  <1>10. CASE Crash \/ UNCHANGED vars
    BY <1>10 DEF Crash, MemoryLost, vars
  <1>11. ASSUME NEW t \in Task, Boot(t) PROVE FALSE
    <2>1. task[t].inst = NoInst
      BY <1>11 DEF Boot, DownIdle
    <2> QED BY <1>3, <1>11, <2>1 DEF Boot, row
  <1> QED BY <1>4, <1>6, <1>7, <1>8, <1>9, <1>10, <1>11 DEF Next, WatcherStep

(* The steps that lose sight of a running instance are the listed ones:     *)
(* exit callbacks that resume from ps or find the group alive, the end of   *)
(* a force restart's sweep, the shutdown, the boot, and starts over an      *)
(* instance that is not both tracked and recorded (the exit callback,       *)
(* forceStopService, gracefulShutdown, reconcileRuntimeStateOnBoot and      *)
(* startProcessService, services/runtime.ts).                               *)
THEOREM LeaksAreKnown == Spec => OnlyKnownLeaks
  <1> DEFINE Kept == up' /\ Forgets => Leaks
  <1>1. TypeOK /\ Named /\ DownIdle /\ [Next]_vars => Kept
    BY ForgetsOnlyByLeaks
  <1> QED BY <1>1, TypeCorrect, NamedStays, DownStays, PTL DEF Spec, OnlyKnownLeaks, Leaks

(* Without launchers that leave their group, an exit callback that waits    *)
(* has seen the end of its instance, and so does the ps it asks.            *)
Ended ==
    \A i \in Inst :
        /\ proc[i] # "group"
        /\ watcher[i].at = "ps" => ~watcher[i].clean
        /\ watcher[i].at \in {"settle", "ps", "backoff", "port"} => proc[i] = "none"

LEMMA EndedStays ==
    ASSUME Orderly
    PROVE  Spec => []Ended
  <1>1. Init => Ended
    BY DEF Init, Ended, Off
  <1>2. TypeOK /\ Ended /\ [Next]_vars => Ended'
    <2> SUFFICES ASSUME TypeOK, Ended, [Next]_vars PROVE Ended'
      OBVIOUS
    <2>0. watcher \in [Inst -> WatcherState] /\ proc \in [Inst -> ProcState] /\ GroupsStay = FALSE
      BY FlagsAssumption DEF TypeOK, Orderly, FlagsAssumption
    <2> USE <2>0 DEF Ended, WatcherState, ProcState, Off, Watch, row, locks
    <2>1. ASSUME UNCHANGED watcher, \A i \in Inst : proc'[i] \in {proc[i], "none"} PROVE Ended'
      BY <2>1
    <2>2. ASSUME NEW t, NEW k, CallStop(t, k) PROVE \A i \in Inst : proc'[i] \in {proc[i], "none"}
      BY <2>2 DEF CallStop, Untrack, StopEnds, Killed
    <2>3. ASSUME NEW t \in Task, Request(t) PROVE Ended'
      BY <2>1, <2>2, <2>3
         DEF Request, Start, Stop, Restart, ForceRestart, Deploy, Rollback, Shutdown,
             Untrack, StopIfRunning, Killed
    <2>4. ASSUME NEW t \in Task, TaskStep(t) PROVE Ended'
      <3>1. CASE \/ StartProcess(t) \/ StartAlreadyRunning(t) \/ StartFails(t) \/ DeployEnds(t)
                 \/ RollbackEnds(t) \/ BootReads(t) \/ BootAdopts(t) \/ BootRestores(t)
                 \/ ShutdownUntracks(t) \/ ForceSwept(t)
        BY <2>1, <3>1 DEF StartProcess, StartAlreadyRunning, StartFails, DeployEnds, RollbackEnds,
                          BootReads, BootAdopts, BootRestores, ShutdownUntracks, ForceSwept
      <3>2. CASE StartSpawns(t)
        BY <3>2 DEF StartSpawns, Spawned, Fresh
      <3>3. CASE StopResumes(t) \/ ForceKills(t) \/ DeployStops(t)
        BY <2>1, <2>2, <3>3 DEF StopResumes, StopEnds, ForceKills, DeployStops, StopIfRunning, Killed
      <3>4. CASE ServerExits(t)
        BY <3>4 DEF ServerExits, MemoryLost
      <3> QED BY <2>4, <3>1, <3>2, <3>3, <3>4 DEF TaskStep
    <2>5. ASSUME NEW i \in Inst, BackoffSpawns(i) PROVE Ended'
      BY <2>5 DEF BackoffSpawns, Spawned, Fresh
    <2>6. ASSUME NEW i \in Inst, ExitHandled(i) PROVE Ended'
      BY <2>6 DEF ExitHandled
    <2>7. ASSUME NEW i \in Inst, ExitEvent(i) PROVE Ended'
      BY <2>7 DEF ExitEvent
    <2>8. ASSUME NEW i \in Inst, ExitIgnored(i) \/ BackoffAlreadyRunning(i) \/ BackoffFails(i)
          PROVE  Ended'
      BY <2>8 DEF ExitIgnored, BackoffAlreadyRunning, BackoffFails
    <2>9. ASSUME NEW i \in Inst, ExitAdoptsGroup(i) \/ StabilityElapses(i)
          PROVE  Ended'
      BY <2>1, <2>9 DEF ExitAdoptsGroup, StabilityElapses
    <2>13. ASSUME NEW i \in Inst, ExitAsksGroup(i) PROVE Ended'
      BY <2>13 DEF ExitAsksGroup, Lives
    <2>10. ASSUME NEW i \in Inst, BackoffStarts(i) PROVE Ended'
      BY <2>10 DEF BackoffStarts
    <2>11. ASSUME NEW i \in Inst, InstanceDies(i) PROVE Ended'
      BY <2>1, <2>11 DEF InstanceDies
    <2>12. CASE Crash \/ (\E t \in Task : Boot(t)) \/ UNCHANGED vars
      BY <2>1, <2>12 DEF Crash, MemoryLost, Boot, vars
    <2> QED BY <2>3, <2>4, <2>5, <2>6, <2>7, <2>8, <2>9, <2>10, <2>11, <2>12, <2>13
            DEF Next, WatcherStep
  <1> QED BY <1>1, <1>2, TypeCorrect, PTL DEF Spec

(* A tracked instance has its exit callback, the row says "running" only    *)
(* while an instance is tracked, and none is while a start is in progress.  *)
Watched ==
    /\ runtimeProcess # NoInst => watcher[runtimeProcess].at \in {"armed", "settle", "ps"}
    /\ status = "running" => runtimeProcess # NoInst
    /\ SomeStarting => runtimeProcess = NoInst

(* What runs is known, and a group that the row names without its instance  *)
(* being tracked is about to be killed.                                     *)
Reached ==
    /\ \A i \in Inst : Runs(i) => Known(i)
    /\ runtimePgid \in Inst /\ runtimePgid # runtimeProcess /\ Runs(runtimePgid)
        => \E t \in Task : task[t].inst = runtimePgid

Supervised == TypeOK /\ Named /\ DownIdle /\ Upright /\ TrackedIsRecorded /\ LockHeld /\ Ended

(* Every step is a spawn, or starts nothing and records nothing new.        *)
LEMMA SpawnsOrNot ==
    ASSUME TypeOK, [Next]_vars
    PROVE  \/ \E t \in Task : StartSpawns(t)
           \/ \E i \in Inst : BackoffSpawns(i)
           \/ /\ runtimePgid' \in {runtimePgid, NoInst}
              /\ runtimeProcess' \in {runtimeProcess, NoInst}
              /\ \A i \in Inst : Runs(i)' => Runs(i)
  <1>0. proc \in [Inst -> ProcState]
    BY DEF TypeOK
  <1> USE <1>0 DEF Runs, Killed, row, locks
  <1> DEFINE Quiet == /\ runtimePgid' \in {runtimePgid, NoInst}
                      /\ runtimeProcess' \in {runtimeProcess, NoInst}
                      /\ \A i \in Inst : Runs(i)' => Runs(i)
  <1>1. ASSUME NEW t, NEW k, CallStop(t, k) PROVE Quiet
    BY <1>1 DEF CallStop, Untrack, StopEnds
  <1>2. ASSUME NEW t \in Task, Request(t) PROVE Quiet
    BY <1>1, <1>2 DEF Request, Start, Stop, Restart, ForceRestart, Deploy, Rollback, Shutdown,
                      Untrack, StopIfRunning
  <1>3. ASSUME NEW t \in Task, TaskStep(t), ~StartSpawns(t) PROVE Quiet
    <2>1. CASE \/ StartProcess(t) \/ StartAlreadyRunning(t) \/ StartFails(t) \/ DeployEnds(t)
               \/ RollbackEnds(t) \/ BootReads(t) \/ BootAdopts(t) \/ BootRestores(t)
               \/ ShutdownUntracks(t) \/ ServerExits(t)
      BY <2>1 DEF StartProcess, StartAlreadyRunning, StartFails, DeployEnds, RollbackEnds,
                  BootReads, BootAdopts, BootRestores, ShutdownUntracks, ServerExits, MemoryLost
    <2>2. CASE StopResumes(t) \/ ForceKills(t) \/ ForceSwept(t) \/ DeployStops(t)
      BY <1>1, <2>2 DEF StopResumes, StopEnds, ForceKills, ForceSwept, DeployStops, StopIfRunning
    <2> QED BY <1>3, <2>1, <2>2 DEF TaskStep
  <1>4. ASSUME NEW i \in Inst, WatcherStep(i) \/ InstanceDies(i), ~BackoffSpawns(i) PROVE Quiet
    BY <1>4 DEF WatcherStep, StabilityElapses, ExitEvent, ExitIgnored, ExitAsksGroup,
                ExitAdoptsGroup, ExitHandled, BackoffStarts, BackoffAlreadyRunning, BackoffFails,
                InstanceDies
  <1>5. CASE Crash \/ (\E t \in Task : Boot(t)) \/ UNCHANGED vars
    BY <1>5 DEF Crash, MemoryLost, Boot, vars
  <1> QED BY <1>2, <1>3, <1>4, <1>5 DEF Next

LEMMA SupervisedStays ==
    ASSUME Orderly
    PROVE  Spec => []Supervised
BY TypeCorrect, NamedStays, DownStays, UprightStays, TrackedIsInTheRow, LockIsHeld, EndedStays, PTL
   DEF Supervised, Orderly

LEMMA WatchedStays ==
    ASSUME Orderly
    PROVE  Spec => []Watched
  <1>1. Init => Watched
    BY DEF Init, Watched, SomeStarting, TimerInLock, Idle, Off
  <1>2. Supervised /\ Watched /\ [Next]_vars => Watched'
    <2> SUFFICES ASSUME Supervised, Watched, [Next]_vars PROVE Watched'
      OBVIOUS
    <2>0. /\ task \in [Task -> TaskState] /\ watcher \in [Inst -> WatcherState]
          /\ runtimeProcess \in InstOrNone /\ NoInst \notin Inst /\ up
      BY NoInstAssumption DEF Supervised, TypeOK, Upright
    <2> USE <2>0 DEF Watched, SomeStarting, TimerInLock, TaskState, WatcherState, InstOrNone,
                     Idle, At, Off, Watch, row, locks
    <2>1. ASSUME NEW t \in Task, NEW k \in {"stop", "restart", "deploy", "rollback"}, CallStop(t, k),
                 UNCHANGED watcher
          PROVE  Watched'
      BY <2>1 DEF CallStop, Untrack, StopEnds, AfterStop
    <2>2. ASSUME NEW t \in Task, Request(t) PROVE Watched'
      <3>1. CASE Start(t)
        BY <3>1 DEF Start
      <3>2. CASE Deploy(t)
        BY <3>2 DEF Deploy
      <3>3. CASE Stop(t)
        BY <2>1, <3>3 DEF Stop
      <3>4. CASE Restart(t)
        BY <2>1, <3>4 DEF Restart
      <3>5. CASE Rollback(t)
        BY <2>1, <3>5 DEF Rollback, StopIfRunning
      <3>6. CASE ForceRestart(t) \/ Shutdown(t)
        BY <3>6 DEF ForceRestart, Shutdown, Arrives, Orderly, StaysUp
      <3> QED BY <2>2, <3>1, <3>2, <3>3, <3>4, <3>5, <3>6 DEF Request
    <2>3. ASSUME NEW t \in Task, TaskStep(t) PROVE Watched'
      <3>1. CASE StartProcess(t)
        BY <3>1 DEF StartProcess
      <3>2. CASE StartAlreadyRunning(t)
        BY <3>2 DEF StartAlreadyRunning
      <3>3. CASE StartFails(t)
        BY <3>3 DEF StartFails
      <3>4. CASE StartSpawns(t)
        <4>1. \A u \in Task : u # t => task[u].at # "port"
          BY <3>4 DEF StartSpawns, Supervised, LockHeld, MutualExclusion, InLock
        <4>2. \A j \in Inst : watcher[j].at # "port"
          BY <3>4 DEF StartSpawns, Supervised, LockHeld, MutualExclusion, InLock
        <4> QED BY <3>4, <4>1, <4>2 DEF StartSpawns, Spawned
      <3>5. CASE StopResumes(t)
        BY <3>5 DEF StopResumes, StopEnds, AfterStop
      <3>6. CASE DeployStops(t)
        BY <2>1, <3>6 DEF DeployStops, StopIfRunning
      <3>7. CASE DeployEnds(t)
        BY <3>7 DEF DeployEnds
      <3>8. CASE RollbackEnds(t)
        BY <3>8 DEF RollbackEnds
      <3>9. CASE \/ ForceKills(t) \/ ForceSwept(t) \/ ShutdownUntracks(t) \/ ServerExits(t)
                 \/ BootReads(t) \/ BootAdopts(t) \/ BootRestores(t)
        BY <3>9 DEF ForceKills, ForceSwept, ShutdownUntracks, ServerExits, BootReads, BootAdopts,
                    BootRestores, Parked, Supervised, LockHeld, Upright
      <3> QED BY <2>3, <3>1, <3>2, <3>3, <3>4, <3>5, <3>6, <3>7, <3>8, <3>9 DEF TaskStep
    <2>4. ASSUME NEW i \in Inst, WatcherStep(i) PROVE Watched'
      <3>1. CASE StabilityElapses(i)
        BY <3>1 DEF StabilityElapses
      <3>2. CASE ExitEvent(i)
        BY <3>2 DEF ExitEvent
      <3>3. CASE ExitIgnored(i)
        BY <3>3 DEF ExitIgnored, StillTracked
      <3>4. CASE ExitAsksGroup(i)
        <4>1. /\ UNCHANGED <<status, runtimeProcess, task>>
              /\ watcher' = [watcher EXCEPT ![i].at = "ps", ![i].clean = Lives(i)]
          BY <3>4 DEF ExitAsksGroup
        <4>2. watcher'[i].at = "ps" /\ \A j \in Inst : j # i => watcher'[j] = watcher[j]
          BY <4>1
        <4> QED BY <4>1, <4>2
      <3>10. CASE ExitAdoptsGroup(i)
        BY <3>10 DEF ExitAdoptsGroup, Supervised, Ended
      <3>5. CASE ExitHandled(i)
        <4>1. status' # "running" /\ runtimeProcess' = NoInst
          BY <3>5 DEF ExitHandled, ExitStatus
        <4> QED BY <4>1
      <3>6. CASE BackoffStarts(i)
        BY <3>6 DEF BackoffStarts
      <3>7. CASE BackoffAlreadyRunning(i)
        BY <3>7 DEF BackoffAlreadyRunning
      <3>8. CASE BackoffFails(i)
        BY <3>8 DEF BackoffFails
      <3>9. CASE BackoffSpawns(i)
        <4>1. \A u \in Task : task[u].at # "port"
          BY <3>9 DEF BackoffSpawns, Supervised, LockHeld, MutualExclusion, InLock
        <4>2. \A j \in Inst : j # i => watcher[j].at # "port"
          BY <3>9 DEF BackoffSpawns, Supervised, LockHeld, MutualExclusion
        <4> QED BY <3>9, <4>1, <4>2 DEF BackoffSpawns, Spawned, Fresh
      <3> QED BY <2>4, <3>1, <3>2, <3>3, <3>4, <3>5, <3>6, <3>7, <3>8, <3>9, <3>10
              DEF WatcherStep
    <2>5. CASE (\E i \in Inst : InstanceDies(i)) \/ (\E t \in Task : Boot(t)) \/ Crash \/ UNCHANGED vars
      BY <2>5 DEF InstanceDies, Boot, Crash, Orderly, StaysUp, vars
    <2> QED BY <2>2, <2>3, <2>4, <2>5 DEF Next
  <1> QED BY <1>1, <1>2, SupervisedStays, PTL DEF Spec

(* A stop that waits has its instance until it has killed it.               *)
LEMMA StopsKill ==
    ASSUME Orderly, Supervised, [Next]_vars, NEW t \in Task, task[t].inst \in Inst
    PROVE  task'[t].inst = task[t].inst \/ proc'[task[t].inst] = "none"
  <1>0. /\ task \in [Task -> TaskState] /\ proc \in [Inst -> ProcState] /\ NoInst \notin Inst /\ up
        /\ task[t].at \in {"term", "kill"}
    BY NoInstAssumption DEF Supervised, TypeOK, Upright, Named
  <1> USE <1>0 DEF TaskState, Idle, At
  <1>1. ASSUME NEW u \in Task, u # t, \A v \in Task \ {u} : task'[v] = task[v]
        PROVE  task'[t] = task[t]
    BY <1>1
  <1>2. ASSUME NEW u \in Task, Request(u) PROVE task'[t] = task[t]
    <2>0. task[u] = Idle
      BY <1>2 DEF Request, Start, Stop, Restart, ForceRestart, Deploy, Rollback, Shutdown, Arrives
    <2>1. u # t
      BY <2>0
    <2> QED
      BY <1>2, <2>1 DEF Request, Start, Stop, Restart, ForceRestart, Deploy, Rollback, Shutdown,
                        StopIfRunning, CallStop, Untrack, StopEnds
  <1>3. ASSUME NEW u \in Task, StopResumes(u) PROVE task'[t] = task[t] \/ proc'[task[t].inst] = "none"
    BY <1>3 DEF StopResumes, StopEnds, Killed
  <1>4. ASSUME NEW u \in Task, ForceKills(u) PROVE task'[t] = task[t] \/ proc'[task[t].inst] = "none"
    BY <1>4 DEF ForceKills, Killed
  <1>5. ASSUME NEW u \in Task,
               \/ StartProcess(u) \/ StartAlreadyRunning(u) \/ StartFails(u) \/ StartSpawns(u)
               \/ DeployEnds(u) \/ RollbackEnds(u) \/ ForceSwept(u)
        PROVE  task'[t] = task[t]
    BY <1>5 DEF StartProcess, StartAlreadyRunning, StartFails, StartSpawns, DeployEnds, RollbackEnds,
                ForceSwept, Parked
  <1>6. ASSUME NEW u \in Task, DeployStops(u) PROVE task'[t] = task[t]
    BY <1>6 DEF DeployStops, Parked, StopIfRunning, CallStop, Untrack, StopEnds
  <1>7. ASSUME NEW u \in Task,
               \/ ShutdownUntracks(u) \/ ServerExits(u) \/ BootReads(u) \/ BootAdopts(u)
               \/ BootRestores(u) \/ Boot(u)
        PROVE  FALSE
    BY <1>7 DEF ShutdownUntracks, ServerExits, BootReads, BootAdopts, BootRestores, Boot, Parked,
                Supervised, Upright
  <1>8. ASSUME NEW i \in Inst, WatcherStep(i) \/ InstanceDies(i) PROVE task'[t] = task[t]
    BY <1>8 DEF WatcherStep, StabilityElapses, ExitEvent, ExitIgnored, ExitAsksGroup, ExitAdoptsGroup,
                ExitHandled, BackoffStarts, BackoffAlreadyRunning, BackoffFails, BackoffSpawns,
                InstanceDies
  <1>9. CASE Crash \/ UNCHANGED vars
    BY <1>9 DEF Crash, Orderly, StaysUp, vars
  <1> QED BY <1>2, <1>3, <1>4, <1>5, <1>6, <1>7, <1>8, <1>9 DEF Next, TaskStep

(* Whoever untracks an instance is about to kill it, or has seen its end.   *)
LEMMA UntrackedIsHeld ==
    ASSUME Orderly, Supervised, [Next]_vars, runtimeProcess' = NoInst, runtimeProcess # NoInst,
           runtimePgid' # NoInst
    PROVE  \E t \in Task : task'[t].inst = runtimeProcess
  <1>0. task \in [Task -> TaskState] /\ up
    BY DEF Supervised, TypeOK, Upright
  <1> USE <1>0 DEF TaskState
  <1>1. ASSUME NEW t \in Task, NEW k, CallStop(t, k) PROVE \E u \in Task : task'[u].inst = runtimeProcess
    BY <1>1 DEF CallStop, Untrack
  <1>2. ASSUME NEW t \in Task, Request(t) PROVE \E u \in Task : task'[u].inst = runtimeProcess
    BY <1>1, <1>2 DEF Request, Start, Stop, Restart, ForceRestart, Deploy, Rollback, Shutdown,
                      Arrives, Orderly, StaysUp, StopIfRunning, row
  <1>3. ASSUME NEW t \in Task, TaskStep(t), ~DeployStops(t) PROVE FALSE
    BY <1>3, NoInstAssumption
       DEF TaskStep, StartProcess, StartAlreadyRunning, StartFails, StartSpawns, Spawned, StopResumes,
           ForceKills, ForceSwept, DeployEnds, RollbackEnds, ShutdownUntracks, ServerExits, BootReads,
           BootAdopts, BootRestores, Parked, Supervised, Upright, LockHeld, row
  <1>4. ASSUME NEW t \in Task, DeployStops(t) PROVE \E u \in Task : task'[u].inst = runtimeProcess
    BY <1>1, <1>4 DEF DeployStops, StopIfRunning
  <1>5. ASSUME NEW i \in Inst, WatcherStep(i) \/ InstanceDies(i) PROVE FALSE
    BY <1>5, NoInstAssumption
       DEF WatcherStep, StabilityElapses, ExitEvent, ExitIgnored, ExitAsksGroup, ExitAdoptsGroup,
           ExitHandled, BackoffStarts, BackoffAlreadyRunning, BackoffFails, BackoffSpawns, Spawned,
           InstanceDies, row
  <1>6. CASE Crash \/ (\E t \in Task : Boot(t)) \/ UNCHANGED vars
    BY <1>6 DEF Crash, Orderly, StaysUp, Boot, vars
  <1> QED BY <1>2, <1>3, <1>4, <1>5, <1>6 DEF Next

(* Nothing undoes it that an exit callback was overtaken.                   *)
LEMMA OvertakenStays ==
    ASSUME [Next]_vars, overtaken
    PROVE  overtaken'
  <1>1. ASSUME NEW t \in Task, Request(t) PROVE overtaken'
    BY <1>1 DEF Request, Start, Stop, Restart, ForceRestart, Deploy, Rollback, Shutdown
  <1>2. ASSUME NEW t \in Task, TaskStep(t) \/ Boot(t) PROVE overtaken'
    BY <1>2 DEF TaskStep, StartProcess, StartAlreadyRunning, StartFails, StartSpawns, StopResumes,
                ForceKills, ForceSwept, DeployStops, DeployEnds, RollbackEnds, ShutdownUntracks,
                ServerExits, BootReads, BootAdopts, BootRestores, Boot, MemoryLost
  <1>3. ASSUME NEW i \in Inst, WatcherStep(i) \/ InstanceDies(i) PROVE overtaken'
    BY <1>3 DEF WatcherStep, StabilityElapses, ExitEvent, ExitIgnored, ExitAsksGroup,
                ExitAdoptsGroup, ExitHandled, BackoffStarts, BackoffAlreadyRunning, BackoffFails,
                BackoffSpawns, InstanceDies
  <1>4. CASE Crash \/ UNCHANGED vars
    BY <1>4 DEF Crash, MemoryLost, vars
  <1> QED BY <1>1, <1>2, <1>3, <1>4 DEF Next

(* Until an exit callback is overtaken, what runs is reached: a callback    *)
(* that comes back from ps finds its own instance tracked or none, and what *)
(* else the row names a stop is about to kill.                              *)
LEMMA ReachedStays ==
    ASSUME Orderly
    PROVE  Spec => [](~overtaken => Reached)
  <1>1. Init => (~overtaken => Reached)
    BY NoInstAssumption DEF Init, Reached, Runs
  <1>2. Supervised /\ Watched /\ (~overtaken => Reached) /\ [Next]_vars
            => (~overtaken => Reached)'
    <2> SUFFICES ASSUME Supervised, Watched, ~overtaken => Reached, [Next]_vars, ~overtaken'
                 PROVE  Reached'
      OBVIOUS
    <2>00. ~overtaken /\ Reached
      BY OvertakenStays
    <2> USE <2>00
    <2>0. /\ task \in [Task -> TaskState] /\ proc \in [Inst -> ProcState] /\ NoInst \notin Inst
          /\ runtimeProcess \in InstOrNone /\ runtimePgid \in InstOrNone
      BY NoInstAssumption DEF Supervised, TypeOK
    <2> USE <2>0 DEF InstOrNone
    (* An instance that a stop has and that still runs is still had.        *)
    <2>1. ASSUME NEW i \in Inst, \E t \in Task : task[t].inst = i, Runs(i)'
          PROVE  \E t \in Task : task'[t].inst = i
      BY <2>1, StopsKill DEF Runs
    <2>2. ASSUME NEW j \in Inst, Spawned(j), SomeStarting PROVE Reached'
      <3>1. runtimeProcess = NoInst /\ runtimeProcess' = j /\ runtimePgid' = j
        BY <2>2 DEF Watched, Spawned
      <3>2. ASSUME NEW i \in Inst, Runs(i)', i # j PROVE Known(i)'
        <4>1. Runs(i)
          BY <2>2, <3>2 DEF Spawned, Runs
        <4>2. \E t \in Task : task[t].inst = i
          BY <3>1, <4>1 DEF Reached, Known
        <4> QED BY <2>1, <3>2, <4>2 DEF Known
      <3> QED BY <3>1, <3>2 DEF Reached, Known
    <2>3. ASSUME NEW t \in Task, StartSpawns(t) PROVE Reached'
      BY <2>2, <2>3 DEF StartSpawns, SomeStarting
    <2>4. ASSUME NEW i \in Inst, BackoffSpawns(i) PROVE Reached'
      BY <2>2, <2>4 DEF BackoffSpawns, SomeStarting, TimerInLock
    <2>5. ASSUME runtimePgid' \in {runtimePgid, NoInst}, runtimeProcess' \in {runtimeProcess, NoInst},
                 \A i \in Inst : Runs(i)' => Runs(i)
          PROVE  Reached'
      <3>1. ASSUME NEW i \in Inst, Runs(i)' PROVE Known(i)'
        <4>1. Runs(i) /\ Known(i)
          BY <2>5, <3>1 DEF Reached
        <4>2. \A t \in Task : ~ForceSwept(t)
          BY DEF ForceSwept, Parked, Supervised, LockHeld
        <4>3. ASSUME NEW j \in Inst, ExitHandled(j) PROVE Known(i)'
          <5>1. ~Runs(j) /\ runtimeProcess \in {j, NoInst}
            BY <4>3 DEF ExitHandled, StillTracked, Overtakes, Supervised, Ended, Runs
          <5>2. CASE \E t \in Task : task[t].inst = i
            BY <2>1, <3>1, <5>2 DEF Known
          <5>3. CASE i = runtimePgid
            BY <2>1, <3>1, <4>1, <5>1, <5>3 DEF Reached, Known
          <5> QED BY <4>1, <5>1, <5>2, <5>3 DEF Known
        <4>4. ASSUME \A j \in Inst : ~ExitHandled(j) PROVE Known(i)'
          <5>1. up' /\ \A t \in Task : ~(ShutdownUntracks(t) \/ BootRestores(t))
            BY UprightKept DEF Supervised, Upright, ShutdownUntracks, BootRestores, Parked, Orderly
          <5>2. ~Leaks
            BY <2>5, <4>2, <4>4, <5>1 DEF Leaks
          <5> QED BY <3>1, <4>1, <5>1, <5>2, ForgetsOnlyByLeaks DEF Forgets, Supervised
        <4> QED BY <4>3, <4>4
      <3>2. ASSUME runtimePgid' \in Inst, runtimePgid' # runtimeProcess', Runs(runtimePgid)'
            PROVE  \E t \in Task : task'[t].inst = runtimePgid'
        <4>1. runtimePgid' = runtimePgid /\ Runs(runtimePgid)
          BY <2>5, <3>2 DEF Runs
        <4>2. CASE runtimePgid = runtimeProcess
          BY <2>5, <3>2, <4>1, <4>2, UntrackedIsHeld
        <4>3. CASE runtimePgid # runtimeProcess
          BY <2>1, <3>2, <4>1, <4>3 DEF Reached, Runs
        <4> QED BY <4>2, <4>3
      <3> QED BY <3>1, <3>2 DEF Reached
    <2> QED BY <2>3, <2>4, <2>5, SpawnsOrNot DEF Supervised
  <1> QED BY <1>1, <1>2, SupervisedStays, WatchedStays, PTL DEF Spec

(* However starts, stops, restarts, deploys, rollbacks and crashes overlap, *)
(* at most one instance is left when all have ended and no exit callback    *)
(* was overtaken in its question to ps: what runs is tracked or named by    *)
(* the row, and these are then the same (startService, stopService and the  *)
(* exit callback, services/runtime.ts).                                     *)
THEOREM OneIsLeft ==
    ASSUME Orderly
    PROVE  Spec => []OneRuns
  <1>1. Named /\ (~overtaken => Reached) => OneRuns
    <2> SUFFICES ASSUME Named, Reached, AtRest, ~overtaken, NEW i \in Inst, NEW j \in Inst, Runs(i), Runs(j)
                 PROVE  i = j
      BY DEF OneRuns
    <2>1. \A t \in Task : task[t].inst = NoInst
      BY DEF AtRest, Idle
    <2>2. {i, j} \subseteq {runtimeProcess, runtimePgid}
      BY <2>1, NoInstAssumption DEF Reached, Known
    <2> QED BY <2>2, NoInstAssumption DEF Named
  <1> QED BY <1>1, NamedStays, ReachedStays, PTL

(* A service that is left at "running" has an instance that runs and that a *)
(* stop would reach (the same, and the status the exit callback writes).    *)
THEOREM RunningIsTrue ==
    ASSUME Orderly
    PROVE  Spec => []RunningRuns
  <1>1. TypeOK /\ Watched => RunningRuns
    <2> SUFFICES ASSUME TypeOK, Watched, AtRest, status = "running"
                 PROVE  \E i \in Inst : Known(i) /\ Runs(i)
      BY DEF RunningRuns
    <2>1. runtimeProcess \in Inst /\ watcher[runtimeProcess].at = "armed"
      BY DEF TypeOK, InstOrNone, Watched, AtRest
    <2> QED BY <2>1 DEF AtRest, Known, Runs
  <1> QED BY <1>1, TypeCorrect, WatchedStays, PTL

=============================================================================
