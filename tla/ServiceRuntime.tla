--------------------------- MODULE ServiceRuntime ---------------------------
(***************************************************************************)
(* The supervisor of one process service (services/runtime.ts), with the   *)
(* deploy and rollback handlers that stop and start it (services/deploy.ts)*)
(*                                                                         *)
(* The control plane is one Node process: a handler runs alone until it    *)
(* awaits, and at each await any other handler, timer or child-exit        *)
(* callback may run.  A task is one handler invocation in progress, parked *)
(* at one of its awaits; an action runs a handler from one await to the    *)
(* next.  The row of the service (status, restart count, pgid, shutdown    *)
(* marker) survives the control plane; runtimeProcesses, actionLocks and   *)
(* activeDeploys do not; the children are spawned detached and survive too.*)
(*                                                                         *)
(* Simplifications.                                                        *)
(*  - One service without dependents: startDependencies and                *)
(*    ensureLinkedDatabaseRunning are one await that may fail.             *)
(*  - An instance is named by the id that stands for its nanoid, its pid   *)
(*    and its process group; an id nobody refers to any more is reused.    *)
(*  - freeServicePort is an await.  What it kills are instances of this    *)
(*    service, and any instance may die at any time (InstanceDies).        *)
(*  - The durations of timers are not modelled, only their order.          *)
(*  - Boot handles the rows of all services in turn: the await before this *)
(*    service's turn stands for those of the others too.                   *)
(***************************************************************************)
EXTENDS Naturals, FiniteSets

CONSTANTS
    Task,           \* handler invocations that may be in progress at once
    Inst,           \* process instances
    NoInst,
    Requests,       \* the kinds of request the environment issues
    CanCrash,       \* the control plane may be killed
    CanFail,        \* a start may fail before it spawns, and a question to ps
    GroupsStay,     \* a launcher may exit and leave its group running
    AutoRestart,    \* services.auto_restart
    StartAuto,      \* services.start_mode = "auto"
    StopWithHoster, \* services.stop_with_hoster
    MaxRestarts,    \* services.max_restarts
    CountCap        \* bound: larger values of restart_count are not told apart

RequestKind == {"start", "stop", "restart", "force", "deploy", "rollback", "shutdown"}
Kind == RequestKind \cup {"boot"}

ASSUME NoInstAssumption == NoInst \notin Inst
ASSUME RequestsAssumption == Requests \subseteq RequestKind
ASSUME FlagsAssumption ==
    /\ {CanCrash, CanFail, GroupsStay} \subseteq BOOLEAN
    /\ {AutoRestart, StartAuto, StopWithHoster} \subseteq BOOLEAN
ASSUME CountsAssumption ==
    /\ MaxRestarts \in Nat
    /\ CountCap \in Nat
    /\ MaxRestarts < CountCap

AlwaysOn == StartAuto /\ ~StopWithHoster

VARIABLES
    up,             \* the control plane process is running
    status,         \* services.status
    restartCount,   \* services.restart_count
    runtimePgid,    \* services.runtime_pgid
    marker,         \* the service is in settings.services_running_at_shutdown
    runtimeProcess, \* ctx.runtimeProcesses: the tracked instance
    actionLock,     \* ctx.actionLocks has the service
    activeDeploy,   \* ctx.activeDeploys has the service
    proc,           \* what the operating system runs of each instance
    watcher,        \* the exit callback of each instance and its timers
    task,           \* the handler invocations in progress
    bootRow,        \* the row as reconcileRuntimeStateOnBoot read it
    overtaken       \* for the properties: an exit callback that came back from
                    \* ps has untracked another instance than its own

vars == <<up, status, restartCount, runtimePgid, marker, runtimeProcess,
          actionLock, activeDeploy, proc, watcher, task, bootRow, overtaken>>

row == <<status, restartCount, runtimePgid, marker>>
locks == <<actionLock, activeDeploy>>

Status == {"stopped", "starting", "running", "stopping", "crashed"}

(* "alive": launcher and group run; "group": the launcher has exited and    *)
(* other processes of its group run; "none": nothing runs.                  *)
ProcState == {"none", "alive", "group"}

(* Where a task is parked. "deps": startDependencies and the linked          *)
(* database; "port", "sweep": freeServicePort; "term", "kill": waiting for  *)
(* the instance in inst to exit; "branch": resolveDeployBranch; "build":    *)
(* git, migrations and the build; "list", "ps": the awaits of boot;         *)
(* "tasks", "close": the awaits of gracefulShutdown.                        *)
Stage == {"idle", "deps", "port", "term", "kill", "sweep", "branch", "build",
          "list", "ps", "tasks", "close"}

(* An instance's exit callback: "armed" while it waits for the exit event,  *)
(* "settle" in the 500 ms before it acts, "ps" while it asks for the group, *)
(* "backoff" until its restart timer fires, "port" in that restart.  clean: *)
(* in "settle" the exit has no code but 0, in "ps" the group ran when ps was*)
(* asked.  lives says that of the group the row names at boot.              *)
WatchStage == {"off", "armed", "settle", "ps", "backoff", "port"}

Idle == [kind |-> "none", at |-> "idle", inst |-> NoInst]
At(k, stage) == [kind |-> k, at |-> stage, inst |-> NoInst]
Off == [at |-> "off", count |-> 0, clean |-> FALSE]
Watch(stage) == [at |-> stage, count |-> 0, clean |-> FALSE]
NoRow == [status |-> "stopped", pgid |-> NoInst, restore |-> FALSE, lives |-> FALSE]

InstOrNone == Inst \cup {NoInst}
TaskState == [kind : Kind \cup {"none"}, at : Stage, inst : InstOrNone]
WatcherState == [at : WatchStage, count : 0..CountCap, clean : BOOLEAN]
RowState == [status : Status, pgid : InstOrNone, restore : BOOLEAN, lives : BOOLEAN]

TypeOK ==
    /\ up \in BOOLEAN
    /\ status \in Status
    /\ restartCount \in 0..CountCap
    /\ runtimePgid \in InstOrNone
    /\ marker \in BOOLEAN
    /\ runtimeProcess \in InstOrNone
    /\ actionLock \in BOOLEAN
    /\ activeDeploy \in BOOLEAN
    /\ proc \in [Inst -> ProcState]
    /\ watcher \in [Inst -> WatcherState]
    /\ task \in [Task -> TaskState]
    /\ bootRow \in RowState
    /\ overtaken \in BOOLEAN

Init ==
    /\ up = TRUE
    /\ status = "stopped"
    /\ restartCount = 0
    /\ runtimePgid = NoInst
    /\ marker = FALSE
    /\ runtimeProcess = NoInst
    /\ actionLock = FALSE
    /\ activeDeploy = FALSE
    /\ proc = [i \in Inst |-> "none"]
    /\ watcher = [i \in Inst |-> Off]
    /\ task = [t \in Task |-> Idle]
    /\ bootRow = NoRow
    /\ overtaken = FALSE

------------------------------------------------------------------------------
(* Shared parts of the handlers.                                            *)

(* A request of kind k arrives and gets a task. *)
Arrives(t, k) == up /\ k \in Requests /\ task[t] = Idle

Parked(t, k, stage) == up /\ task[t].kind = k /\ task[t].at = stage

(* withLock: rejects when the service is locked.  Its finally deletes the   *)
(* lock, whoever holds it by then.                                          *)
TakeLockAnyway == actionLock' = TRUE \* mutant: the check is missing
TakeLock == ~actionLock /\ actionLock' = TRUE

KeepLock == UNCHANGED actionLock \* mutant: the finally is missing
ReleaseLock == actionLock' = FALSE

AnyDeploy == TRUE \* mutant: ctx.activeDeploys is not asked
NoActiveDeploy == ~activeDeploy

Killed(victims) == [i \in Inst |-> IF i \in victims THEN "none" ELSE proc[i]]

(* No process, no row and no callback refers to the id any more. *)
Fresh(i) ==
    /\ proc[i] = "none"
    /\ watcher[i].at = "off"
    /\ i \notin {runtimeProcess, runtimePgid, bootRow.pgid}
    /\ \A t \in Task : task[t].inst # i

(* spawn, runtimeProcesses.set and the row, in one synchronous section. *)
SpawnedHealthy(i) == \* mutant: the status of a deployment is written
    /\ Fresh(i)
    /\ proc' = [proc EXCEPT ![i] = "alive"]
    /\ runtimeProcess' = i
    /\ runtimePgid' = i
    /\ status' = "healthy"
SpawnedUnrecorded(i) == \* mutant: runtime_pgid is not written
    /\ Fresh(i)
    /\ proc' = [proc EXCEPT ![i] = "alive"]
    /\ runtimeProcess' = i
    /\ status' = "running"
    /\ UNCHANGED runtimePgid
Spawned(i) ==
    /\ Fresh(i)
    /\ proc' = [proc EXCEPT ![i] = "alive"]
    /\ runtimeProcess' = i
    /\ runtimePgid' = i
    /\ status' = "running"

(* stopService up to its await: the tracked instance is untracked first and *)
(* then signalled.                                                          *)
Untrack(t, k, stage) ==
    /\ runtimeProcess # NoInst
    /\ status' = "stopping"
    /\ runtimeProcess' = NoInst
    /\ task' = [task EXCEPT ![t] = [kind |-> k, at |-> stage, inst |-> runtimeProcess]]
    /\ UNCHANGED <<proc, runtimePgid>>

(* What the caller of stopService does once it returns. *)
AfterStop(k) ==
    CASE k = "stop" -> Idle
      [] k = "restart" -> At(k, "deps")
      [] k = "shutdown" -> At(k, "tasks")
      [] OTHER -> At(k, "build")

(* stopService from its await to its end: whatever group the row names by   *)
(* now is killed, whichever instance it is.                                 *)
StopEndsSilently(t, k, victim) == \* mutant: the row is left at "stopping"
    /\ proc' = Killed({victim, runtimePgid})
    /\ runtimePgid' = NoInst
    /\ status' = "stopping"
    /\ task' = [task EXCEPT ![t] = AfterStop(k)]
StopEnds(t, k, victim) ==
    /\ proc' = Killed({victim, runtimePgid})
    /\ runtimePgid' = NoInst
    /\ status' = "stopped"
    /\ task' = [task EXCEPT ![t] = AfterStop(k)]

(* stopService, called by the task's handler. *)
CallStop(t, k) ==
    \/ Untrack(t, k, "term")
    \/ /\ runtimeProcess = NoInst
       /\ StopEnds(t, k, NoInst)
       /\ UNCHANGED runtimeProcess

------------------------------------------------------------------------------
(* startService and the start half of every other handler.                  *)

Start(t) ==
    /\ Arrives(t, "start")
    /\ TakeLock
    /\ task' = [task EXCEPT ![t] = At("start", "deps")]
    /\ UNCHANGED <<up, row, runtimeProcess, activeDeploy, proc, watcher, bootRow, overtaken>>

(* startProcessService up to freeServicePort. *)
StartProcess(t) ==
    /\ up
    /\ task[t].at = "deps"
    /\ runtimeProcess = NoInst
    /\ status' = "starting"
    /\ task' = [task EXCEPT ![t].at = "port"]
    /\ UNCHANGED <<up, restartCount, runtimePgid, marker, runtimeProcess, locks,
                   proc, watcher, bootRow, overtaken>>

(* startProcessService returns at once when an instance is tracked. *)
StartAlreadyRunning(t) ==
    /\ up
    /\ task[t].at = "deps"
    /\ runtimeProcess # NoInst
    /\ task' = [task EXCEPT ![t] = Idle]
    /\ ReleaseLock
    /\ UNCHANGED <<up, row, runtimeProcess, activeDeploy, proc, watcher, bootRow, overtaken>>

(* A dependency, the linked database, the command or the working directory  *)
(* is missing; applyPostDeployServiceState marks a deployed service stopped. *)
StartFails(t) ==
    /\ CanFail
    /\ up
    /\ task[t].at = "deps"
    /\ status' = IF task[t].kind = "deploy" THEN "stopped" ELSE status
    /\ task' = [task EXCEPT ![t] = Idle]
    /\ ReleaseLock
    /\ UNCHANGED <<up, restartCount, runtimePgid, marker, runtimeProcess, activeDeploy,
                   proc, watcher, bootRow, overtaken>>

StartSpawns(t) ==
    /\ up
    /\ task[t].at = "port"
    /\ \E i \in Inst :
        /\ Spawned(i)
        /\ watcher' = [watcher EXCEPT ![i] = Watch("armed")]
    /\ restartCount' = 0
    /\ task' = [task EXCEPT ![t] = Idle]
    /\ ReleaseLock
    /\ UNCHANGED <<up, marker, activeDeploy, bootRow, overtaken>>

------------------------------------------------------------------------------
(* stopService, restartService, forceRestartService.                        *)

(* The stop routes call stopService without the lock. *)
Stop(t) ==
    /\ Arrives(t, "stop")
    /\ CallStop(t, "stop")
    /\ UNCHANGED <<up, restartCount, marker, locks, watcher, bootRow, overtaken>>

Restart(t) ==
    /\ Arrives(t, "restart")
    /\ TakeLock
    /\ CallStop(t, "restart")
    /\ UNCHANGED <<up, restartCount, marker, activeDeploy, watcher, bootRow, overtaken>>

(* terminateRuntimeProcess returns: SIGTERM, or SIGKILL after the grace.    *)
StopResumes(t) ==
    /\ up
    /\ task[t].at = "term"
    /\ StopEnds(t, task[t].kind, task[t].inst)
    /\ UNCHANGED <<up, restartCount, marker, runtimeProcess, locks, watcher, bootRow, overtaken>>

(* Breaks the lock, whoever holds it, and takes it. *)
ForceRestart(t) ==
    /\ Arrives(t, "force")
    /\ NoActiveDeploy
    /\ actionLock' = TRUE
    /\ \/ Untrack(t, "force", "kill")
       \/ /\ runtimeProcess = NoInst
          /\ status' = "stopping"
          /\ proc' = Killed({runtimePgid})
          /\ task' = [task EXCEPT ![t] = At("force", "sweep")]
          /\ UNCHANGED <<runtimeProcess, runtimePgid>>
    /\ UNCHANGED <<up, restartCount, marker, activeDeploy, watcher, bootRow, overtaken>>

ForceKills(t) ==
    /\ Parked(t, "force", "kill")
    /\ proc' = Killed({task[t].inst, runtimePgid})
    /\ task' = [task EXCEPT ![t] = At("force", "sweep")]
    /\ UNCHANGED <<up, row, runtimeProcess, locks, watcher, bootRow, overtaken>>

(* forceStopService after its port sweep: untracks whatever is tracked now. *)
ForceSwept(t) ==
    /\ Parked(t, "force", "sweep")
    /\ runtimePgid' = NoInst
    /\ runtimeProcess' = NoInst
    /\ status' = "stopped"
    /\ task' = [task EXCEPT ![t] = At("force", "deps")]
    /\ UNCHANGED <<up, restartCount, marker, locks, proc, watcher, bootRow, overtaken>>

------------------------------------------------------------------------------
(* deployFromGit with applyPostDeployServiceState, and rollbackDeployment.  *)

Deploy(t) ==
    /\ Arrives(t, "deploy")
    /\ NoActiveDeploy
    /\ TakeLock
    /\ activeDeploy' = TRUE
    /\ task' = [task EXCEPT ![t] = At("deploy", "branch")]
    /\ UNCHANGED <<up, row, runtimeProcess, proc, watcher, bootRow, overtaken>>

(* stopServiceIfRunning asks the row, not the process. *)
StopIfRunning(t, k) ==
    \/ status = "running" /\ CallStop(t, k)
    \/ /\ status # "running"
       /\ task' = [task EXCEPT ![t] = At(k, "build")]
       /\ UNCHANGED <<status, runtimePgid, runtimeProcess, proc>>

DeployStops(t) ==
    /\ Parked(t, "deploy", "branch")
    /\ StopIfRunning(t, "deploy")
    /\ UNCHANGED <<up, restartCount, marker, locks, watcher, bootRow, overtaken>>

(* The deployment is over, one way or the other, and the lock is released;  *)
(* applyPostDeployServiceState starts the service again or marks it stopped.*)
DeployEnds(t) ==
    /\ up
    /\ task[t].kind = "deploy"
    /\ task[t].at \in {"branch", "build"}
    /\ activeDeploy' = FALSE
    /\ \E success, startAfterDeploy \in BOOLEAN :
        /\ task[t].at = "branch" => ~success
        /\ LET keep == ~success /\ runtimeProcess # NoInst
               start == startAfterDeploy /\ ~keep
           IN  /\ actionLock' = start
               /\ task' = [task EXCEPT ![t] = IF start THEN At("deploy", "deps") ELSE Idle]
               /\ status' = IF start \/ keep THEN status ELSE "stopped"
    /\ UNCHANGED <<up, restartCount, runtimePgid, marker, runtimeProcess, proc,
                   watcher, bootRow, overtaken>>

(* A rollback takes the lock but is not an active deploy. *)
Rollback(t) ==
    /\ Arrives(t, "rollback")
    /\ TakeLock
    /\ StopIfRunning(t, "rollback")
    /\ UNCHANGED <<up, restartCount, marker, activeDeploy, watcher, bootRow, overtaken>>

(* The checkout throws, or the build ends and applyPostDeployServiceState   *)
(* runs with startAfterDeploy = false, under the lock.                      *)
RollbackEnds(t) ==
    /\ Parked(t, "rollback", "build")
    /\ \E outcome \in {"threw", "failed", "success"} :
        LET stops == \/ outcome = "success"
                     \/ outcome = "failed" /\ runtimeProcess = NoInst
        IN  status' = IF stops THEN "stopped" ELSE status
    /\ task' = [task EXCEPT ![t] = Idle]
    /\ ReleaseLock
    /\ UNCHANGED <<up, restartCount, runtimePgid, marker, runtimeProcess, activeDeploy,
                   proc, watcher, bootRow, overtaken>>

------------------------------------------------------------------------------
(* The children: what the operating system does, and the exit callback.     *)

InstanceDies(i) ==
    /\ \/ /\ proc[i] = "alive"
          /\ \/ proc' = [proc EXCEPT ![i] = "none"]
             \/ GroupsStay /\ proc' = [proc EXCEPT ![i] = "group"]
       \/ /\ proc[i] = "group"
          /\ proc' = [proc EXCEPT ![i] = "none"]
    /\ UNCHANGED <<up, row, runtimeProcess, locks, watcher, task, bootRow, overtaken>>

(* The stability timer; it is cleared by the exit event. *)
StabilityUncleared(i) == watcher[i].at # "off" \* mutant: no clearTimeout
StabilityArmed(i) == watcher[i].at = "armed"

StabilityElapses(i) ==
    /\ up
    /\ StabilityArmed(i)
    /\ runtimeProcess = i
    /\ restartCount' = 0
    /\ UNCHANGED <<up, status, runtimePgid, marker, runtimeProcess, locks, proc,
                   watcher, task, bootRow, overtaken>>

(* child.on("exit"): only the tracked instance can crash.  The restart      *)
(* policy is read here and used after the 500 ms.  An instance that a signal*)
(* killed has no code, which counts as 0.                                   *)
ExitEvent(i) ==
    /\ up
    /\ watcher[i].at = "armed"
    /\ proc[i] # "alive"
    /\ IF runtimeProcess = i
       THEN \E clean \in BOOLEAN :
                watcher' = [watcher EXCEPT
                    ![i] = [at |-> "settle", count |-> restartCount, clean |-> clean]]
       ELSE watcher' = [watcher EXCEPT ![i] = Off]
    /\ UNCHANGED <<up, row, runtimeProcess, locks, proc, task, bootRow, overtaken>>

(* The check made after the 500 ms. *)
OwnsAnyway(i) == TRUE \* mutant: the check is missing
StillTracked(i) == runtimeProcess = i

(* The callback gives up: a stop or a restart has untracked the instance.   *)
ExitIgnored(i) ==
    /\ up
    /\ watcher[i].at = "settle"
    /\ ~StillTracked(i)
    /\ watcher' = [watcher EXCEPT ![i] = Off]
    /\ UNCHANGED <<up, row, runtimeProcess, locks, proc, task, bootRow, overtaken>>

Lives(i) == i # NoInst /\ proc[i] # "none"

(* A clean exit: hasLiveProcessGroup is asked, which is an await.           *)
ExitAsksGroup(i) ==
    /\ up
    /\ watcher[i].at = "settle"
    /\ StillTracked(i)
    /\ watcher[i].clean
    /\ watcher' = [watcher EXCEPT ![i].at = "ps", ![i].clean = Lives(i)]
    /\ UNCHANGED <<up, row, runtimeProcess, locks, proc, task, bootRow, overtaken>>

(* The group ran when ps was asked, whatever has become of it.  Nobody asks *)
(* whether the instance is still the tracked one.                           *)
ExitAdoptsGroup(i) ==
    /\ up
    /\ watcher[i].at = "ps"
    /\ watcher[i].clean
    /\ status' = "running"
    /\ watcher' = [watcher EXCEPT ![i] = Off]
    /\ UNCHANGED <<up, restartCount, runtimePgid, marker, runtimeProcess, locks, proc,
                   task, bootRow, overtaken>>

RetryOnceMore(n) == AutoRestart /\ (AlwaysOn \/ n <= MaxRestarts) \* mutant: off by one
MayRetry(n) == AutoRestart /\ (AlwaysOn \/ n < MaxRestarts)

Bump(n) == IF n < CountCap THEN n + 1 ELSE n

ExitStatusKept(retry) == IF retry THEN "crashed" ELSE status \* mutant: not written
ExitStatus(retry) == IF retry THEN "crashed" ELSE "stopped"

(* It has ended since ps was asked, or ps has failed.                       *)
NotFound(i) == ~Lives(i) \/ CanFail

Overtakes(i) == watcher[i].at = "ps" /\ runtimeProcess \notin {i, NoInst}

(* The crash is handled: whatever is tracked is dropped, and the restart is *)
(* scheduled from the policy read at the exit event.                        *)
ExitHandled(i) ==
    /\ up
    /\ \/ watcher[i].at = "settle" /\ StillTracked(i) /\ ~watcher[i].clean
       \/ watcher[i].at = "ps" /\ NotFound(i)
    /\ runtimeProcess' = NoInst
    /\ runtimePgid' = NoInst
    /\ LET retry == MayRetry(watcher[i].count)
       IN  /\ restartCount' = IF retry THEN Bump(watcher[i].count) ELSE restartCount
           /\ status' = ExitStatus(retry)
           /\ watcher' = [watcher EXCEPT ![i] = IF retry THEN Watch("backoff") ELSE Off]
    /\ overtaken' = (overtaken \/ Overtakes(i))
    /\ UNCHANGED <<up, marker, locks, proc, task, bootRow>>

(* The backoff timer takes the lock and starts without a reset; a stop does *)
(* not cancel it.                                                           *)
BackoffStarts(i) ==
    /\ up
    /\ watcher[i].at = "backoff"
    /\ runtimeProcess = NoInst
    /\ TakeLock
    /\ status' = "starting"
    /\ watcher' = [watcher EXCEPT ![i] = Watch("port")]
    /\ UNCHANGED <<up, restartCount, runtimePgid, marker, runtimeProcess, activeDeploy,
                   proc, task, bootRow, overtaken>>

(* Somebody started the service meanwhile. *)
BackoffAlreadyRunning(i) ==
    /\ up
    /\ watcher[i].at = "backoff"
    /\ ~actionLock
    /\ runtimeProcess # NoInst
    /\ watcher' = [watcher EXCEPT ![i] = Off]
    /\ UNCHANGED <<up, row, runtimeProcess, locks, proc, task, bootRow, overtaken>>

(* The lock is held, or the command or the working directory is gone: the   *)
(* restart is given up.                                                     *)
BackoffFails(i) ==
    /\ up
    /\ watcher[i].at = "backoff"
    /\ actionLock \/ (CanFail /\ runtimeProcess = NoInst)
    /\ status' = "crashed"
    /\ watcher' = [watcher EXCEPT ![i] = Off]
    /\ UNCHANGED <<up, restartCount, runtimePgid, marker, runtimeProcess, locks, proc,
                   task, bootRow, overtaken>>

BackoffSpawns(i) ==
    /\ up
    /\ watcher[i].at = "port"
    /\ \E j \in Inst :
        /\ Spawned(j)
        /\ watcher' = [watcher EXCEPT ![j] = Watch("armed"), ![i] = Off]
    /\ ReleaseLock
    /\ UNCHANGED <<up, restartCount, marker, activeDeploy, task, bootRow, overtaken>>

------------------------------------------------------------------------------
(* The control plane goes down and comes back.                              *)

(* Everything in memory is gone; the row and the children stay. *)
MemoryLost ==
    /\ up' = FALSE
    /\ runtimeProcess' = NoInst
    /\ actionLock' = FALSE
    /\ activeDeploy' = FALSE
    /\ watcher' = [i \in Inst |-> Off]
    /\ task' = [t \in Task |-> Idle]
    /\ bootRow' = NoRow
    /\ UNCHANGED <<row, proc, overtaken>>

Crash == CanCrash /\ up /\ MemoryLost

(* gracefulShutdown runs once: it writes the marker before it stops the     *)
(* service.                                                                 *)
Shutdown(t) ==
    /\ Arrives(t, "shutdown")
    /\ \A u \in Task : task[u].kind # "shutdown"
    /\ LET stops == StopWithHoster /\ status \in {"running", "starting"}
       IN  /\ marker' = stops
           /\ \/ stops /\ CallStop(t, "shutdown")
              \/ /\ ~stops
                 /\ task' = [task EXCEPT ![t] = At("shutdown", "tasks")]
                 /\ UNCHANGED <<status, runtimePgid, runtimeProcess, proc>>
    /\ UNCHANGED <<up, restartCount, locks, watcher, bootRow, overtaken>>

(* What is still tracked is untracked and sent a SIGTERM nobody waits for.  *)
ShutdownUntracks(t) ==
    /\ Parked(t, "shutdown", "tasks")
    /\ runtimeProcess' = IF StopWithHoster THEN NoInst ELSE runtimeProcess
    /\ task' = [task EXCEPT ![t] = At("shutdown", "close")]
    /\ UNCHANGED <<up, row, locks, proc, watcher, bootRow, overtaken>>

(* app.close() returned, or the 15 s limit passed. *)
ServerExits(t) ==
    /\ up
    /\ task[t].kind = "shutdown"
    /\ MemoryLost

Boot(t) ==
    /\ ~up
    /\ up' = TRUE
    /\ task' = [task EXCEPT ![t] = At("boot", "list")]
    /\ UNCHANGED <<row, runtimeProcess, locks, proc, watcher, bootRow, overtaken>>

(* shouldRestoreServiceOnBoot. *)
RestoreAutoOnly == StartAuto \* mutant: the marker is not asked
ToRestore == marker \/ StartAuto

(* reconcileRuntimeStateOnBoot reads and consumes the marker and reads the  *)
(* row; requests are already served.                                        *)
BootReads(t) ==
    /\ Parked(t, "boot", "list")
    /\ bootRow' = [status |-> status, pgid |-> runtimePgid, restore |-> ToRestore,
                   lives |-> Lives(runtimePgid)]
    /\ marker' = FALSE
    /\ task' = [task EXCEPT ![t] = At("boot", "ps")]
    /\ UNCHANGED <<up, status, restartCount, runtimePgid, runtimeProcess, locks, proc,
                   watcher, overtaken>>

(* The group the row named was found: the service is shown running.         *)
BootAdopts(t) ==
    /\ Parked(t, "boot", "ps")
    /\ bootRow.lives
    /\ status' = IF bootRow.status # "running" THEN "running" ELSE status
    /\ task' = [task EXCEPT ![t] = Idle]
    /\ bootRow' = NoRow
    /\ UNCHANGED <<up, restartCount, runtimePgid, marker, runtimeProcess, locks, proc,
                   watcher, overtaken>>

(* It was not: the row is cleared and the service is started, or left down. *)
BootRestores(t) ==
    /\ Parked(t, "boot", "ps")
    /\ NotFound(bootRow.pgid)
    /\ runtimePgid' = NoInst
    /\ status' = IF bootRow.status = "running" THEN "stopped" ELSE status
    /\ bootRow' = NoRow
    /\ \/ /\ bootRow.restore
          /\ TakeLock
          /\ task' = [task EXCEPT ![t] = At("start", "deps")]
       \/ /\ ~bootRow.restore \/ actionLock
          /\ task' = [task EXCEPT ![t] = Idle]
          /\ UNCHANGED actionLock
    /\ UNCHANGED <<up, restartCount, marker, runtimeProcess, activeDeploy, proc, watcher,
                   overtaken>>

------------------------------------------------------------------------------
TaskStep(t) ==
    \/ StartProcess(t) \/ StartAlreadyRunning(t) \/ StartFails(t) \/ StartSpawns(t)
    \/ StopResumes(t)
    \/ ForceKills(t) \/ ForceSwept(t)
    \/ DeployStops(t) \/ DeployEnds(t) \/ RollbackEnds(t)
    \/ ShutdownUntracks(t) \/ ServerExits(t)
    \/ BootReads(t) \/ BootAdopts(t) \/ BootRestores(t)

Request(t) ==
    \/ Start(t) \/ Stop(t) \/ Restart(t) \/ ForceRestart(t)
    \/ Deploy(t) \/ Rollback(t) \/ Shutdown(t)

WatcherStep(i) ==
    \/ StabilityElapses(i) \/ ExitEvent(i) \/ ExitIgnored(i)
    \/ ExitAsksGroup(i) \/ ExitAdoptsGroup(i) \/ ExitHandled(i)
    \/ BackoffStarts(i) \/ BackoffAlreadyRunning(i) \/ BackoffFails(i) \/ BackoffSpawns(i)

Next ==
    \/ \E t \in Task : Request(t) \/ TaskStep(t) \/ Boot(t)
    \/ \E i \in Inst : WatcherStep(i) \/ InstanceDies(i)
    \/ Crash

Spec == Init /\ [][Next]_vars

------------------------------------------------------------------------------
(* Properties.                                                              *)

(* A task inside withLock, and a backoff timer inside withLock. *)
InLock(t) ==
    \/ task[t].at \in {"deps", "port", "kill", "sweep", "branch", "build"}
    \/ task[t].at = "term" /\ task[t].kind \in {"restart", "deploy", "rollback"}
TimerInLock(i) == watcher[i].at = "port"
SomeInLock == (\E t \in Task : InLock(t)) \/ (\E i \in Inst : TimerInLock(i))

(* Two actions on the service never run under its lock at the same time:    *)
(* starts, restarts, deploys, rollbacks and backoff restarts exclude each   *)
(* other as long as no force restart breaks the lock.                       *)
MutualExclusion ==
    /\ \A t, u \in Task : InLock(t) /\ InLock(u) => t = u
    /\ \A i, j \in Inst : TimerInLock(i) /\ TimerInLock(j) => i = j
    /\ \A t \in Task, i \in Inst : ~(InLock(t) /\ TimerInLock(i))

(* The lock is never left behind: whoever set it is still in its critical   *)
(* section, also when force restarts break locks under their holders.       *)
NoStuckLock == actionLock => SomeInLock

InDeploy(t) == task[t].kind = "deploy" /\ task[t].at \in {"branch", "term", "build"}

(* A git deploy stays alone on its working tree even when force restarts    *)
(* break locks: activeDeploys refuses another deploy and the breaking.      *)
DeploysExclusive == \A t, u \in Task : InDeploy(t) /\ InDeploy(u) => t = u

(* The crash counter never passes max_restarts unless the service is always *)
(* on, whatever resets and exits interleave.                                *)
RestartsBounded == AlwaysOn \/ restartCount <= MaxRestarts

(* The counter read at the exit event is still current when the 500 ms are  *)
(* over and the callback acts on it: nothing in between changes the counter *)
(* of an instance that is still tracked.  The limits read with it are       *)
(* constants here: a request that edits them meanwhile is not modelled.     *)
ExitPolicyCurrent ==
    \A i \in Inst : watcher[i].at = "settle" /\ runtimeProcess = i
                        => watcher[i].count = restartCount

Runs(i) == proc[i] # "none"

(* A tracked instance that runs is recorded in the row, so that a control   *)
(* plane killed at any moment finds it again at boot.                       *)
TrackedIsRecorded ==
    \A i \in Inst : runtimeProcess = i /\ Runs(i) => runtimePgid = i

SomeStarting == (\E t \in Task : task[t].at = "port") \/ (\E i \in Inst : TimerInLock(i))
SomeStopping == \E t \in Task : task[t].at \in {"term", "kill", "sweep"}

(* The last start in progress does not leave the service "starting", nor    *)
(* the last stop "stopping", however starts and stops overlap.              *)
TransitionsEnd ==
    [][up' => /\ SomeStarting /\ ~SomeStarting' => status' # "starting"
              /\ SomeStopping /\ ~SomeStopping' => status' # "stopping"]_vars

(* The supervisor can still reach the instance: it is tracked, recorded, or *)
(* about to be killed.                                                      *)
Known(i) ==
    \/ i \in {runtimeProcess, runtimePgid}
    \/ \E t \in Task : task[t].inst = i

Forgets == \E i \in Inst : Runs(i) /\ Known(i) /\ Runs(i)' /\ ~Known(i)'

(* The only steps that lose sight of a running instance, but for those that *)
(* end the control plane: an exit callback that finds the group alive after *)
(* an unclean exit or that resumes from its question to ps, a force restart *)
(* after its sweep, a shutdown that does not wait for what it has untracked,*)
(* the reconciliation at boot, and a start over an instance that is recorded*)
(* but not tracked, or tracked but not recorded.                            *)
OnlyKnownLeaks ==
    [][up' /\ Forgets =>
        \/ \E i \in Inst : ExitHandled(i) /\ (watcher[i].at = "ps" \/ Runs(i))
        \/ \E t \in Task : ForceSwept(t) \/ ShutdownUntracks(t) \/ BootRestores(t)
        \/ /\ runtimePgid' \notin {NoInst, runtimePgid}
           /\ runtimePgid # NoInst \/ ~TrackedIsRecorded]_vars

(* Only the reconciliation at boot, acting on a row that changed since it   *)
(* was read or on a failed ps, leaves a tracked and running instance out of *)
(* the row.                                                                 *)
OnlyBootUnrecords ==
    [][TrackedIsRecorded =>
        \/ TrackedIsRecorded'
        \/ \E t \in Task : BootRestores(t) /\ runtimePgid # bootRow.pgid
        \/ \E t \in Task : BootRestores(t) /\ Lives(bootRow.pgid)]_vars

(* No handler is in progress, no timer is pending and no exit is unnoticed. *)
AtRest ==
    /\ up
    /\ \A t \in Task : task[t] = Idle
    /\ \A i \in Inst :
        /\ watcher[i].at \in {"off", "armed"}
        /\ watcher[i].at = "armed" => proc[i] = "alive"

(* Whatever starts, stops, restarts, deploys and crashes overlapped, at     *)
(* most one instance of the service is left running when all have ended,    *)
(* unless an exit callback was overtaken: it asked ps, a restart replaced   *)
(* its instance meanwhile, and the callback untracks the new one and        *)
(* schedules another start (runtime.ts:838, where nobody looks again).      *)
OneRuns == AtRest /\ ~overtaken => \A i, j \in Inst : Runs(i) /\ Runs(j) => i = j

(* A service left shown as running has an instance that runs and that a     *)
(* stop would reach.  Stated where a launcher takes its group along: nobody *)
(* watches a group that was adopted, and its end leaves the row running.    *)
RunningRuns == AtRest /\ status = "running" => \E i \in Inst : Known(i) /\ Runs(i)

(* Stated by runtime.restart.test.ts ("a stopped service must not be        *)
(* resurrected"): no backoff timer starts a service that was stopped.       *)
StoppedStaysDown == [][\A i \in Inst : BackoffStarts(i) => status # "stopped"]_vars

------------------------------------------------------------------------------
(* Liveness.  A parked handler resumes: its await is an I/O call, a timer   *)
(* or a bounded wait.  A control plane that is down is started again: by    *)
(* launchd, by systemd after a failure, by the operator after a shutdown.   *)

Fairness ==
    /\ \A t \in Task : WF_vars(TaskStep(t))
    /\ \A i \in Inst : WF_vars(WatcherStep(i))
    /\ WF_vars(\E t \in Task : Boot(t))

FairSpec == Spec /\ Fairness

Serving == up /\ \E i \in {runtimeProcess, runtimePgid} \ {NoInst} : Runs(i)

(* The bound Inst is used up by instances that were lost sight of. *)
Exhausted == \A i \in Inst : ~Fresh(i)

Handling(kinds) == \E t \in Task : task[t].kind \in kinds

(* A lock that is taken is given back. *)
LockReleased == actionLock ~> (~actionLock \/ Exhausted)

(* A restart that was scheduled is not lost: the service runs again, started*)
(* by the timer or by whoever holds the lock when it fires; or it is shown  *)
(* stopped, having used up its attempts, been stopped or been deployed      *)
(* without a start; or the control plane goes down.  The exception: a       *)
(* rollback that holds the lock when the timer fires, and then throws,      *)
(* leaves the service crashed with nothing scheduled, and so does a start   *)
(* that fails before it spawns (CanFail).                                   *)
CrashResolves ==
    (\E i \in Inst : watcher[i].at = "backoff")
        ~> (Serving \/ Exhausted \/ status = "stopped" \/ ~up \/ Handling({"rollback"}))

(* A service that ran when the control plane shut down runs again after the *)
(* next boot, unless the control plane is shut down again first or a deploy *)
(* or rollback holds the lock at the boot, which refuses the restore.       *)
RestoredUnlessShutdown ==
    (~up /\ marker) ~> (Serving \/ Exhausted \/ Handling({"shutdown", "deploy", "rollback"}))
=============================================================================
