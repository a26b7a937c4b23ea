------------------------------- MODULE GitOps -------------------------------
(***************************************************************************)
(* The deployments of one service that is linked to a git branch: the      *)
(* GitOps poller (services/poller.ts), the push webhook                    *)
(* (routes/webhooks.ts), manual redeploys (routes/deployments.ts), the     *)
(* deploy and rollback handlers (services/deploy.ts) and the rows they     *)
(* write through services/deployStateMachine.ts.                           *)
(*                                                                         *)
(* A handler keeps the CPU from the end of one await to the next; only a   *)
(* kill of the control plane comes between two writes it makes in between. *)
(* cpu is the task in such a section.                                      *)
(*                                                                         *)
(* Simplifications.                                                        *)
(*  - The supervisor of ServiceRuntime is reduced to the commit the        *)
(*    running process was started from; no force restart.                  *)
(*  - Of a deploy's work only what touches the tree or the row is kept:    *)
(*    the branch is resolved, the service is stopped, the tree is reset to *)
(*    the branch, the build runs.                                          *)
(*  - Only the poller writes last_attempted_commit and it never overlaps   *)
(*    itself, so the copy it reads at the start of a tick is the row's.    *)
(*  - Of services.status only "building" is kept: a service created by its *)
(*    first deploy is inserted with it.                                    *)
(***************************************************************************)
EXTENDS Naturals, Sequences, SequencesExt

CONSTANTS
    Task,           \* handler invocations that may be in progress at once
    NoTask,
    Commit,         \* commits of the branch
    NoCommit,
    MaxPushes,      \* bound: pushes to the branch
    MaxRequests,    \* bound: redeploys, rollbacks, starts and stops asked for
    MaxCrashes,     \* bound: kills of the control plane
    MaxRows         \* bound: deployments

ASSUME NamesAssumption == NoTask \notin Task /\ NoCommit \notin Commit
ASSUME BoundsAssumption == {MaxPushes, MaxRequests, MaxCrashes, MaxRows} \subseteq Nat

VARIABLES
    remote,         \* the head of the branch on the remote
    delivery,       \* a webhook delivery is under way
    rows,           \* the deployments of the service, in order of creation
    tree,           \* the commit in the working tree
    lastAttempted,  \* services.last_attempted_commit
    building,       \* services.status is "building"
    serving,        \* the commit the running process was started from
    lock,           \* ctx.actionLocks has the service
    activeDeploy,   \* ctx.activeDeploys has the service
    task,           \* the handler invocations in progress
    cpu,            \* the task between two writes of one section
    tried,          \* history: heads a deploy began with or fetched
    polls,          \* history: deploys the poller asked for
    pushes, requests, crashes

counters == <<pushes, requests, crashes>>
vars == <<remote, delivery, rows, tree, lastAttempted, building, serving, lock,
          activeDeploy, task, cpu, tried, polls, counters>>

OrNone == Commit \cup {NoCommit}
Trigger == {"manual", "webhook", "gitops-poller", "rollback"}
RowStatus == {"running", "cloning", "building", "starting", "healthy", "success",
              "failed", "rolled_back"}

(* Where a task is.  Parked at an await: "list", "branch", "fetch",          *)
(* "checkout", "build" (deploy), "stop", "back", "rebuild" (rollback),       *)
(* "start".  In a section: "created", "inserted", "started", "healthy",      *)
(* "rolled".                                                                 *)
Stage == {"idle", "created", "list", "branch", "fetch", "checkout", "build", "stop",
          "back", "rebuild", "start", "inserted", "started", "healthy", "rolled"}

Idle == [at |-> "idle", kind |-> "manual", row |-> 0, source |-> 0, failed |-> FALSE]

TypeOK ==
    /\ remote \in Commit
    /\ delivery \in BOOLEAN
    /\ rows \in Seq([status : RowStatus, commit : OrNone, trigger : Trigger])
    /\ tree \in OrNone
    /\ lastAttempted \in OrNone
    /\ building \in BOOLEAN
    /\ serving \in OrNone
    /\ lock \in BOOLEAN
    /\ activeDeploy \in BOOLEAN
    /\ task \in [Task -> [at : Stage, kind : Trigger, row : 0..Len(rows),
                          source : 0..Len(rows), failed : BOOLEAN]]
    /\ cpu \in Task \cup {NoTask}
    /\ tried \subseteq Commit
    /\ polls \in Nat
    /\ pushes \in 0..MaxPushes
    /\ requests \in 0..MaxRequests
    /\ crashes \in 0..MaxCrashes

(* The service exists, or /services/deploy-from-github has just inserted it.  *)
Init ==
    /\ remote \in Commit
    /\ delivery = FALSE
    /\ rows = <<>>
    /\ tree = NoCommit
    /\ lastAttempted = NoCommit
    /\ serving = NoCommit
    /\ lock = FALSE
    /\ activeDeploy = FALSE
    /\ \/ building = FALSE /\ task = [t \in Task |-> Idle] /\ cpu = NoTask
       \/ /\ building = TRUE
          /\ cpu \in Task
          /\ task = [t \in Task |->
                IF t = cpu THEN [Idle EXCEPT !.at = "created"] ELSE Idle]
    /\ tried = {}
    /\ polls = 0
    /\ pushes = 0
    /\ requests = 0
    /\ crashes = 0

------------------------------------------------------------------------------
(* The branch and its webhook. *)

(* Somebody pushes; the remote sends a delivery. *)
Push(c) ==
    /\ pushes < MaxPushes
    /\ c # remote
    /\ remote' = c
    /\ delivery' = TRUE
    /\ pushes' = pushes + 1
    /\ UNCHANGED <<rows, tree, lastAttempted, building, serving, lock, activeDeploy,
                   task, cpu, tried, polls, requests, crashes>>

(* The delivery is lost, or refused (signature, replay, skew). *)
DeliveryLost ==
    /\ delivery
    /\ delivery' = FALSE
    /\ UNCHANGED <<remote, rows, tree, lastAttempted, building, serving, lock,
                   activeDeploy, task, cpu, tried, polls, counters>>

------------------------------------------------------------------------------
(* Shared parts of the handlers. *)

(* An event reaches a task while no handler keeps the CPU. *)
Resumes(t, stage) == cpu = NoTask /\ task[t].at = stage
Continues(t, stage) == cpu = t /\ task[t].at = stage

Asked(t) ==
    /\ Resumes(t, "idle")
    /\ requests < MaxRequests
    /\ requests' = requests + 1
    /\ UNCHANGED <<pushes, crashes>>

(* deployFromGit refuses, or withLock does. *)
Refused == activeDeploy \/ lock

(* The row of a deployment is inserted as "running". *)
Insert(t, trigger, commit, source, stage) ==
    /\ Len(rows) < MaxRows
    /\ rows' = Append(rows, [status |-> "running", commit |-> commit, trigger |-> trigger])
    /\ task' = [task EXCEPT ![t] = [at |-> stage, kind |-> trigger, row |-> Len(rows) + 1,
                                    source |-> source, failed |-> FALSE]]

(* deployFromGit up to the first write of deployFromGitLocked. *)
DeployBegins(t, trigger) ==
    /\ ~Refused
    /\ Insert(t, trigger, NoCommit, 0, "inserted")
    /\ lock' = TRUE
    /\ activeDeploy' = TRUE
    /\ cpu' = t
    /\ tried' = tried \cup {remote}

(* transition() *)
SetStatus(d, to) == rows' = [rows EXCEPT ![d].status = to]
Stays(t, stage) == task' = [task EXCEPT ![t].at = stage]

(* The commit of the latest successful deployment, as the poller asks the   *)
(* rows for it: a rollback does not count, nor what was rolled back.        *)
LatestDeployed ==
    LET ok(r) == r.status = "success" /\ r.commit # NoCommit /\ r.trigger # "rollback"
        k == SelectLastInSeq(rows, ok)
    IN  IF k = 0 THEN NoCommit ELSE rows[k].commit

------------------------------------------------------------------------------
(* pollGitUpdatesOnce, the webhook and the redeploy routes.                 *)

(* A tick: passes over the service while it is "building" or locked. *)
PollTick(t) ==
    /\ Resumes(t, "idle")
    /\ \A u \in Task : ~(task[u].at # "idle" /\ task[u].kind = "gitops-poller")
    /\ ~building
    /\ ~lock
    /\ task' = [task EXCEPT ![t] = [Idle EXCEPT !.at = "list", !.kind = "gitops-poller"]]
    /\ UNCHANGED <<remote, delivery, rows, tree, lastAttempted, building, serving,
                   lock, activeDeploy, cpu, tried, polls, counters>>

(* listRemote throws, or knows no such branch. *)
PollFails(t) ==
    /\ Resumes(t, "list")
    /\ task' = [task EXCEPT ![t] = Idle]
    /\ UNCHANGED <<remote, delivery, rows, tree, lastAttempted, building, serving,
                   lock, activeDeploy, cpu, tried, polls, counters>>

(* listRemote answers with nothing new. *)
AnyAttempt == lastAttempted # NoCommit \* mutant: any attempt counts
UpToDate == remote \in {lastAttempted, LatestDeployed}

PollEnds(t) ==
    /\ Resumes(t, "list")
    /\ UpToDate
    /\ task' = [task EXCEPT ![t] = Idle]
    /\ UNCHANGED <<remote, delivery, rows, tree, lastAttempted, building, serving,
                   lock, activeDeploy, cpu, tried, polls, counters>>

MarkLater == UNCHANGED lastAttempted \* mutant: the attempt is not recorded first
MarkAttempt == lastAttempted' = remote

(* The attempt is recorded before the deploy, which may then be refused.    *)
PollDeploys(t) ==
    /\ Resumes(t, "list")
    /\ ~UpToDate
    /\ MarkAttempt
    /\ polls' = polls + 1
    /\ \/ DeployBegins(t, "gitops-poller")
       \/ /\ Refused
          /\ task' = [task EXCEPT ![t] = Idle]
          /\ UNCHANGED <<rows, lock, activeDeploy, cpu, tried>>
    /\ UNCHANGED <<remote, delivery, tree, building, serving, counters>>

(* The delivery arrives; its deploy may be refused, and is then dropped.    *)
Webhook(t) ==
    /\ Resumes(t, "idle")
    /\ delivery
    /\ delivery' = FALSE
    /\ \/ DeployBegins(t, "webhook")
       \/ Refused /\ UNCHANGED <<rows, task, lock, activeDeploy, cpu, tried>>
    /\ UNCHANGED <<remote, tree, lastAttempted, building, serving, polls, counters>>

(* The first deploy, by the request that created the service. *)
FirstDeploy(t) ==
    /\ Continues(t, "created")
    /\ DeployBegins(t, "manual")
    /\ UNCHANGED <<remote, delivery, tree, lastAttempted, building, serving, polls,
                   counters>>

Redeploy(t) ==
    /\ Asked(t)
    /\ DeployBegins(t, "manual")
    /\ UNCHANGED <<remote, delivery, tree, lastAttempted, building, serving, polls>>

------------------------------------------------------------------------------
(* deployFromGitLocked and applyPostDeployServiceState.                     *)

MarksCloning(t) ==
    /\ Continues(t, "inserted")
    /\ SetStatus(task[t].row, "cloning")
    /\ Stays(t, "branch")
    /\ cpu' = NoTask
    /\ UNCHANGED <<remote, delivery, tree, lastAttempted, building, serving, lock,
                   activeDeploy, tried, polls, counters>>

(* The branch is resolved and the service is stopped. *)
Stops(t) ==
    /\ Resumes(t, "branch")
    /\ serving' = NoCommit
    /\ Stays(t, "fetch")
    /\ UNCHANGED <<remote, delivery, rows, tree, lastAttempted, building, lock,
                   activeDeploy, cpu, tried, polls, counters>>

(* fetch, checkout -f, reset --hard: whatever the branch names by now. *)
Fetches(t) ==
    /\ Resumes(t, "fetch")
    /\ tree' = remote
    /\ tried' = tried \cup {remote}
    /\ Stays(t, "checkout")
    /\ UNCHANGED <<remote, delivery, rows, lastAttempted, building, serving, lock,
                   activeDeploy, cpu, polls, counters>>

MarksBuilding(t) ==
    /\ Resumes(t, "checkout")
    /\ SetStatus(task[t].row, "building")
    /\ Stays(t, "build")
    /\ UNCHANGED <<remote, delivery, tree, lastAttempted, building, serving, lock,
                   activeDeploy, cpu, tried, polls, counters>>

(* The build succeeded: starting, healthy and the final update, one section.*)
BuildSucceeds(t) ==
    /\ Resumes(t, "build")
    /\ SetStatus(task[t].row, "starting")
    /\ Stays(t, "started")
    /\ cpu' = t
    /\ UNCHANGED <<remote, delivery, tree, lastAttempted, building, serving, lock,
                   activeDeploy, tried, polls, counters>>

MarksHealthy(t) ==
    /\ Continues(t, "started")
    /\ SetStatus(task[t].row, "healthy")
    /\ Stays(t, "healthy")
    /\ UNCHANGED <<remote, delivery, tree, lastAttempted, building, serving, lock,
                   activeDeploy, cpu, tried, polls, counters>>

(* The deployment is over and applyPostDeployServiceState starts the        *)
(* service, under the lock again.                                           *)
Finishes(t) ==
    /\ Continues(t, "healthy")
    /\ rows' = [rows EXCEPT ![task[t].row].status = "success", ![task[t].row].commit = tree]
    /\ activeDeploy' = FALSE
    /\ Stays(t, "start")
    /\ cpu' = NoTask
    /\ UNCHANGED <<remote, delivery, tree, lastAttempted, building, serving, lock,
                   tried, polls, counters>>

Complete(t) == "complete" \* mutant: a state nobody knows
KeepInFlight(t) == rows[task[t].row].status \* mutant: markFailed is not called
FailedStatus(t) == "failed"

(* A step of the deploy throws or the build fails: markFailed and the final *)
(* update; what still runs is kept, else a start is tried.                  *)
Fails(t) ==
    /\ \E stage \in {"branch", "fetch", "checkout", "build"} : Resumes(t, stage)
    /\ rows' = [rows EXCEPT
            ![task[t].row].status = FailedStatus(t),
            ![task[t].row].commit = IF task[t].at = "build" THEN tree ELSE NoCommit]
    /\ activeDeploy' = FALSE
    /\ lock' = (serving = NoCommit)
    /\ task' = [task EXCEPT ![t] =
            IF serving = NoCommit THEN [@ EXCEPT !.at = "start", !.failed = TRUE] ELSE Idle]
    /\ UNCHANGED <<remote, delivery, tree, lastAttempted, building, serving, cpu,
                   tried, polls, counters>>

(* The start runs whatever is in the working tree; it is nothing if a       *)
(* process runs.                                                            *)
Starts(t) ==
    /\ Resumes(t, "start")
    /\ serving' = IF serving = NoCommit THEN tree ELSE serving
    /\ building' = FALSE
    /\ lock' = FALSE
    /\ task' = [task EXCEPT ![t] = Idle]
    /\ UNCHANGED <<remote, delivery, rows, tree, lastAttempted, activeDeploy, cpu,
                   tried, polls, counters>>

(* After a deploy the service is then marked stopped; a start that was asked *)
(* for may throw before it writes any status.                                *)
StartFails(t) ==
    /\ Resumes(t, "start")
    /\ building' \in {FALSE, building /\ task[t].row = 0}
    /\ lock' = FALSE
    /\ task' = [task EXCEPT ![t] = Idle]
    /\ UNCHANGED <<remote, delivery, rows, tree, lastAttempted, serving,
                   activeDeploy, cpu, tried, polls, counters>>

------------------------------------------------------------------------------
(* rollbackDeployment. *)

(* Any deployment with a commit can be rolled back to. *)
Rollback(t) ==
    /\ Asked(t)
    /\ ~lock
    /\ \E d \in DOMAIN rows :
        /\ rows[d].commit # NoCommit
        /\ task' = [task EXCEPT ![t] = [at |-> "stop", kind |-> "rollback", row |-> 0,
                                        source |-> d, failed |-> FALSE]]
    /\ lock' = TRUE
    /\ UNCHANGED <<remote, delivery, rows, tree, lastAttempted, building, serving,
                   activeDeploy, cpu, tried, polls>>

RollbackBegins(t) ==
    /\ Resumes(t, "stop")
    /\ serving' = NoCommit
    /\ Insert(t, "rollback", rows[task[t].source].commit, task[t].source, "back")
    /\ UNCHANGED <<remote, delivery, tree, lastAttempted, building, lock,
                   activeDeploy, cpu, tried, polls, counters>>

(* git checkout throws: nothing more is written. *)
RollbackThrows(t) ==
    /\ Resumes(t, "back")
    /\ lock' = FALSE
    /\ task' = [task EXCEPT ![t] = Idle]
    /\ UNCHANGED <<remote, delivery, rows, tree, lastAttempted, building, serving,
                   activeDeploy, cpu, tried, polls, counters>>

RollbackChecksOut(t) ==
    /\ Resumes(t, "back")
    /\ tree' = rows[task[t].row].commit
    /\ Stays(t, "rebuild")
    /\ UNCHANGED <<remote, delivery, rows, lastAttempted, building, serving, lock,
                   activeDeploy, cpu, tried, polls, counters>>

RolledHealthy == "healthy" \* mutant: the state of a deploy
RolledBack == "rolled_back"

RollbackBuilt(t) ==
    /\ Resumes(t, "rebuild")
    /\ SetStatus(task[t].row, RolledBack) \/ SetStatus(task[t].row, "failed")
    /\ Stays(t, "rolled")
    /\ cpu' = t
    /\ UNCHANGED <<remote, delivery, tree, lastAttempted, building, serving, lock,
                   activeDeploy, tried, polls, counters>>

(* Success or not, the deployment rolled back to is marked; the service     *)
(* stays stopped.                                                           *)
RollbackMarksSource(t) ==
    /\ Continues(t, "rolled")
    /\ SetStatus(task[t].source, "rolled_back")
    /\ building' = FALSE
    /\ lock' = FALSE
    /\ task' = [task EXCEPT ![t] = Idle]
    /\ cpu' = NoTask
    /\ UNCHANGED <<remote, delivery, tree, lastAttempted, serving, activeDeploy,
                   tried, polls, counters>>

------------------------------------------------------------------------------
(* The rest of the supervisor, and the control plane. *)

StartService(t) ==
    /\ Asked(t)
    /\ ~lock
    /\ lock' = TRUE
    /\ task' = [task EXCEPT ![t] = [Idle EXCEPT !.at = "start"]]
    /\ UNCHANGED <<remote, delivery, rows, tree, lastAttempted, building, serving,
                   activeDeploy, cpu, tried, polls>>

StopService(t) ==
    /\ Asked(t)
    /\ serving' = NoCommit
    /\ building' = FALSE
    /\ UNCHANGED <<remote, delivery, rows, tree, lastAttempted, lock, activeDeploy,
                   task, cpu, tried, polls>>

(* The control plane is killed and comes back; nothing looks at the rows of *)
(* deployments that were in flight, nor at a service that is "building".    *)
Crash ==
    /\ crashes < MaxCrashes
    /\ crashes' = crashes + 1
    /\ lock' = FALSE
    /\ activeDeploy' = FALSE
    /\ task' = [t \in Task |-> Idle]
    /\ cpu' = NoTask
    /\ UNCHANGED <<remote, delivery, rows, tree, lastAttempted, building, serving,
                   tried, polls, pushes, requests>>

------------------------------------------------------------------------------
Progress(t) ==
    \/ MarksCloning(t) \/ Stops(t) \/ Fetches(t) \/ MarksBuilding(t)
    \/ BuildSucceeds(t) \/ MarksHealthy(t) \/ Finishes(t) \/ Fails(t)
    \/ Starts(t) \/ StartFails(t)
    \/ RollbackBegins(t) \/ RollbackThrows(t) \/ RollbackChecksOut(t)
    \/ RollbackBuilt(t) \/ RollbackMarksSource(t)

Answered(t) == PollEnds(t) \/ PollDeploys(t)
Poll(t) == PollTick(t) \/ PollFails(t) \/ Answered(t)

Next ==
    \/ \E c \in Commit : Push(c)
    \/ DeliveryLost
    \/ \E t \in Task :
        \/ Progress(t) \/ Poll(t) \/ Webhook(t) \/ FirstDeploy(t)
        \/ Redeploy(t) \/ Rollback(t) \/ StartService(t) \/ StopService(t)
    \/ Crash

Spec == Init /\ [][Next]_vars

(* A parked handler resumes, the poller's interval keeps ticking, and the    *)
(* remote, asked again and again, does not always fail.                      *)
Fairness ==
    /\ \A t \in Task : WF_vars(Progress(t) \/ FirstDeploy(t))
    /\ WF_vars(\E t \in Task : Poll(t))
    /\ SF_vars(\E t \in Task : Answered(t))

FairSpec == Spec /\ Fairness

------------------------------------------------------------------------------
(* Properties. *)

(* The rows of the table follow the transition table of the state machine,  *)
(* if "running" is read as queued and "success" as healthy.                 *)
Canonical(s) ==
    CASE s = "running" -> "queued" [] s = "success" -> "healthy" [] OTHER -> s

Machine == INSTANCE DeployStates WITH
    Deployment <- 1..MaxRows,
    state <- [d \in 1..MaxRows |->
                IF d \in DOMAIN rows THEN Canonical(rows[d].status) ELSE "absent"]

FollowsTable == Machine!Spec

Handled(d) == \E t \in Task : task[t].row = d /\ task[t].at # "start"
InFlight(d) == rows[d].status \in {"running", "cloning", "building", "starting"}

(* Only a kill of the control plane and a rollback whose checkout throws    *)
(* leave a deployment shown in flight with nobody working on it.            *)
OnlyKnownStrandings ==
    [][(\E d \in DOMAIN rows : Handled(d) /\ ~Handled(d)' /\ InFlight(d)')
        => Crash \/ \E t \in Task : RollbackThrows(t)]_vars

(* A commit that keeps failing to build is not redeployed on every tick:    *)
(* the poller asks for one deploy per move of the branch at most, whatever  *)
(* is refused, fails or is killed in between.                               *)
RetriesBounded == polls <= pushes + 1

(* The head the branch rests on is tried, or the poller has noted it: lost   *)
(* deliveries, refused deploys, failing polls and kills come between.  The   *)
(* exception: a kill in the first deploy of a service, or a rollback that    *)
(* throws after it, leaves the service "building", which nothing but a       *)
(* request changes, and the poller passes over it.                           *)
LeftBuilding == building /\ crashes > 0 /\ \A t \in Task : task[t] = Idle

PushNoticed ==
    \A c \in Commit :
        [](remote = c => <>(remote # c \/ c \in tried \/ lastAttempted = c
                             \/ Len(rows) = MaxRows \/ []LeftBuilding))
=============================================================================
