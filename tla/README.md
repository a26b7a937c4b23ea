# A verification of the LocalSURV control plane

LocalSURV (`src/apps/server`) is a self-hosted deployment platform: one Node
process, the *control plane*, that builds services from git, supervises their
processes and containers, routes traffic to them and keeps its state in SQLite.
This directory holds TLA+ modules that model its core, TLC configurations that
check them on small instances, and proofs that TLAPS checks for every value of
the constants.

| file | what it is |
| --- | --- |
| `ServiceRuntime.tla` | the supervisor of a process service: start, stop, restart, force restart, the exit callback and its timers, deploy and rollback as they use it, shutdown and boot |
| `DeployStates.tla` | the abstract specification of a deployment: the states and the transition table |
| `GitOps.tla` | the deployments of a service linked to a branch: poller, webhook, redeploy, rollback, and the rows they write; implements `DeployStates` |
| `DomainBinding.tla` | custom domains over the Cloudflare API: bind, unbind, deletion and edit of services, the ingress lock, the cleanup queue and its drain |
| `Dependencies.tla` | several services that depend on each other: locks taken under locks, boot, actions on groups and projects, edits of the graph |
| `ContainerWatch.tla` | a service in Docker, as a container or a compose stack: start, stop and restart with every call of Docker, boot, the drift loop, the healthcheck loop |
| `SaasDomains.tla` | a tenant's custom hostname: register, verify, delete, and the deletion of its service, over the Cloudflare API |
| `PersistedUploads.tla` | an upload directory that is moved out of the clone and linked back by deploys and starts |
| `MC<module>.tla`, `MC*.cfg` | the model-checking instances |
| `<module>Proofs.tla` | the theorems about a module and their proofs, for every module but `DeployStates`; `SupervisionProofs` has those of `ServiceRuntime` about what runs |
| `PROJECT.json` | components, runs, mutants, source map, findings, hazards, theorems |

Paths below are relative to `src/apps/server/src/`.

## 1. Inventory

### How the program runs

The control plane is a single Node process. A handler (of an HTTP route, a
timer, an interval, or an `exit` event of a child) runs alone until it awaits;
at every await any other handler may run. There are no threads, so the only
races are between one await and the next, and the only atomicity is "no await
in between". State lives in three places with different lifetimes:

* **SQLite** survives everything. Each statement is atomic; almost nothing is
  done in a transaction, so a kill may fall between two statements.
* **`AppContext`** (`types.ts:33-51`), in memory: `runtimeProcesses` (the
  tracked child of each service), `actionLocks` (services with an operation in
  progress), `activeDeploys`, the log and WebSocket subscribers, the shutdown
  tasks. A restart of the control plane loses it.
* **The children**: service processes are spawned detached with a process group
  of their own and outlive the control plane; containers outlive it too.

### Components

**Process supervisor** (`services/runtime.ts`, the service routes, the boot in
`app.ts`).
*State*: the row of the service (`status`, `restart_count`, `runtime_pgid`), the
setting `services_running_at_shutdown`, `runtimeProcesses`, `actionLocks`, the
children, and for each child an `exit` callback with up to three timers
(stability, 500 ms settling, backoff). *Operations*: `startService`,
`stopService`, `restartService`, `forceRestartService`, the exit callback,
`reconcileRuntimeStateOnBoot`, `gracefulShutdown`. *Interactions*: every other
part that stops or starts a service calls it; it broadcasts status changes.
*Hard*: `stopService` takes no lock; `forceRestartService` breaks one; a stop
kills whatever group the row names *after* its await; the exit callback decides
after 500 ms on a policy read before them; a backoff timer is cancelled by
nobody; boot works on rows read some awaits earlier, while routes already serve.
*Correct if*: two locked operations never overlap; at most one instance is left
running; a running instance is always reachable (tracked or recorded); the
status tells the truth when nothing is in progress; locks are given back;
restarts are bounded; what ran at shutdown runs again after boot.

**Deploy and rollback** (`services/deploy.ts`). *State*: `deployments` rows, the
working tree, `activeDeploys`. *Operations*: `deployFromGit`,
`deployFromLocalPath`, `rollbackDeployment`, `applyPostDeployServiceState`. *Hard*: dozens of
awaits (git, migrations, build, seeding) any of which may throw, with the
service already stopped. *Correct if*: one handler at a time is in a working
tree; every deployment reaches a final status; a failed deploy leaves the
service as it promises.

**Deployment state machine** (`services/deployStateMachine.ts`). A transition
table and `transition()`, which writes a row's status and only warns about
transitions the table lacks. *Correct if*: no row ever makes one.

**GitOps poller** (`services/poller.ts`). Every 60 s, for each service that
follows a branch: skip if locked, ask the remote for its head, compare with the
last success and the last attempt, record the attempt, deploy. *Correct if*:
every push is noticed and tried, and a commit that fails is not tried for ever.

**Push webhook** (`routes/webhooks.ts`). Verifies a delivery and starts a
deploy without awaiting it; a refused deploy is dropped. *Correct if* what it
drops is picked up by the poller.

**Docker containers, compose stacks and the drift loop** (`runtime.ts:261-422,
917-1033, 1330-1360, 1562-1613`, `composeRuntime.ts`). *State*: the row's
status, what Docker has under the service's name. *Operations*:
`startDockerService` with `getOrCreateContainer` and `waitForContainerReadiness`,
`startComposeService`, the stop, adoption at boot, `startContainerDriftLoop`,
which compares live containers with rows every 30 s. *Hard*: every step is a call
that may fail or that another handler overtakes; what the loop compares with the
rows is older than they are. *Correct if*: the row agrees with Docker whenever
nothing is in progress, and soon does again after anything that disturbs it.

**Dependencies** (`runtime.ts:1165-1210`, `routes/serviceGroups.ts`,
`routes/projects.ts`). *State*: `depends_on`, `actionLocks`. A start first starts
what the service depends on, taking their locks under its own; bulk actions
start or stop many services one after the other, boot starts many at once.
*Hard*: two starts that need each other's dependency; cycles; edits and stops
during a walk that takes minutes. *Correct if*: every lock is somebody's and is
given back; a service starts after its dependencies; a walk ends.

**Healthcheck** (`runtime.ts:1615-1670`) and **system health** (`health.ts`).
Probes on an interval, a count of failures, a restart at the threshold; a memory
alert with a latch. *Hard*: ticks overlap slow probes; a restart that finds the
lock held. *Correct if* what never answers is restarted in the end.

**Custom domains and the cleanup queue** (`routes/cloudflare.ts`, the delete and
edit of `routes/services.ts`, `services/cloudflare.ts`, `cleanupQueue.ts`).
*State*: `proxy_routes`, `cleanup_queue` and `cleanup_dead_letter` in the
database; DNS records and the tunnel's ingress rules at Cloudflare; the promise
chain of `withIngressLock`. *Operations*: bind, unbind, delete, edit, the daily
drain. *Hard*: the three parts of a binding are changed by calls that fail, or
take effect and lose their answer; guards are read before them; the rules are
one document, read and written back whole; a removal is retried days later.
*Correct if*: no two services share a domain; nobody's rule is lost to somebody
else's write; what is removed is removed everywhere in the end or is on record;
a served domain is not taken down by anybody else.

**Scheduled backups and backup files** (`scheduledBackups.ts`, `backup.ts`).
*Hard*: a tick starts a second run while the first has not written
`last_run_at`.

**Terminal sessions** (`terminals.ts`). Sessions with an idle reaper, a kill, an
exit and a deletion that all write the status. *Correct if* it ends once.

**Companion pairing** (`companion.ts`). A pairing code is claimed once, may be
cancelled, expires; the device can be revoked. *Correct if* one code never
makes two devices and a cancelled one makes none.

**Reverse proxy** (`index.ts`, `lib/core.ts:62`, `routes/proxy.ts`). The longest
matching path prefix of a host's routes wins. A pure function.

**Persistent uploads** (`persistence.ts`, called by `deploy.ts` and
`runtime.ts`). *State*: the path in the clone (nothing, a directory or a link),
the data volume. *Operations*: `unlinkPersistedSymlinks` before git runs,
`ensurePersistedPaths` after it and at every start: seed the volume with what is
absent from it, remove the directory, link. *Hard*: a kill or a failing call
between any two; an app that survived its stop and writes; a path that is found
by looking for it. *Correct if* no file the app wrote is lost and a started app
sees the volume.

**SaaS custom hostnames** (`saasDomains.ts`, the deletion of a service).
*State*: `saas_domains`, a record or custom hostname at Cloudflare, a rule of the
tunnel, the queue of `withIngressLock`. *Operations*: register, verify, delete.
*Hard*: row and rule are written in two steps with a wait for a turn between
them; answers are as old as the call; failures are swallowed. *Correct if* the
tunnel sends the hostname to the service of its row, nothing is left at
Cloudflare that nobody knows of, and what is shown as active is.

**Others**, with little control of their own: the tunnel processes of
cloudflared, exposure; managed and embedded databases; the resource layer (recognition of project resources);
authentication, API tokens, secrets; the license server; emailer, n8n, Plex and
Stripe integrations; the AI gateway and agents; observability; settings and
schema; the dashboard, the desktop shell and the companion app; packaging.
`PROJECT.json` lists each with its sources and why it is not modelled.

### Interactions

```
 dashboard, companion --HTTP--> routes ---> supervisor <---- exit events, timers
 GitHub --delivery--> webhook --\             ^   ^
 remote <--listRemote-- poller ---> deploy ---/   |
                                 |                boot, shutdown (marker in SQLite)
                                 v
                       state machine --> deployments rows
 Docker <--calls-- supervisor, drift loop, boot;  healthcheck loop --restart--> supervisor
 Cloudflare <--calls-- domain and SaaS routes, deletion of services, daily drain
                       (one ingress lock between them)
```

The hazards these parts are exposed to are listed in `PROJECT.json`, each at the
line where it bites, with the properties that watch it.

## 2. Plan

| | module | what | state |
| --- | --- | --- | --- |
| A | `ServiceRuntime`, `ServiceRuntimeProofs`, `SupervisionProofs` | one process service, its locks, its children, crash, shutdown, boot | modelled, checked, safety proved |
| B | `DeployStates` | abstract: what a deployment's status may do | done |
| C | `GitOps` | poller, webhook, redeploy, rollback; refines B | modelled, checked |
| C' | `GitOpsProofs` | type correctness, `RetriesBounded`, `OnlyKnownStrandings`, the refinement of B | proved |
| D | `DomainBinding`, `DomainBindingProofs` | custom domains, their cleanup queue and its drain, over calls that fail | modelled, checked, safety proved |
| E | `Dependencies`, `DependenciesProofs` | several services, locks taken under locks, cycles | modelled, checked, proved |
| F | `ContainerWatch`, `ContainerWatchProofs` | rows against Docker, boot, drift loop, healthcheck loop | modelled, checked, safety proved |
| G | `SaasDomains`, `SaasDomainsProofs` | tenants' hostnames | modelled, checked, proved |
| H | `PersistedUploads`, `PersistedUploadsProofs` | seeding, linking and unlinking around deploys | modelled, checked, proved |
| | pairing, terminals, backups, route matching, licenses | | not modelled, see section 11 |

The order is that of the damage a mistake does: what runs (A), what is deployed
(B, C), what is lost in the background (D), several services and containers (E,
F), a tenant's traffic (G), users' files (H). Each module takes its sets and
bounds as CONSTANTS with named assumptions, has one action per handler section,
and uses no recursive operator, so that it can be proved about. Every
safety property of every run that passes is proved. What stays with TLC is
liveness, which needs ENABLED: `LockReleased`, `CrashResolves` and
`RestoredUnlessShutdown` of A, `PushNoticed` of C, `CleanupResolves` of D,
`StatusConverges` and `SickRestarts` of F.

## 3. `ServiceRuntime`

### State

| variable | code |
| --- | --- |
| `status`, `restartCount`, `runtimePgid` | columns of `services` (`db.ts:26-43` and its migrations) |
| `marker` | the service is listed in the setting `services_running_at_shutdown` |
| `runtimeProcess` | `ctx.runtimeProcesses.get(id)` |
| `actionLock`, `activeDeploy` | membership in `ctx.actionLocks`, `ctx.activeDeploys` |
| `proc` | what the operating system runs of each instance: its launcher and group, only other members of its group, nothing |
| `watcher` | for each instance, its exit callback and timers: armed, settling for 500 ms, asking `ps`, backing off, restarting |
| `task` | the handler invocations in progress: the kind of request, the await it is parked at, the local it will use after it |
| `bootRow` | the row as `reconcileRuntimeStateOnBoot` read it before its awaits, and whether its group ran when `ps` was asked |
| `overtaken` | history: an exit callback that came back from `ps` has untracked another instance than its own |
| `up` | the control plane runs |

An action takes one handler from one await to the next, with everything it
writes on the way. `Start`, `StartProcess`, `StartAlreadyRunning`, `StartFails`
and `StartSpawns` are `startService` and `startProcessService`; a restart, a
force restart, a deploy and a boot come to the same `"deps"` stage and share
them. `CallStop`, `Untrack`, `StopEnds` and `StopResumes` are `stopService` for
all its callers, with or without a lock. `ForceRestart`, `ForceKills`,
`ForceSwept` are `forceRestartService` with `forceStopService`. `Deploy`,
`DeployStops`, `DeployEnds`, `Rollback`, `RollbackEnds` are what the handlers of
`deploy.ts` do to the lock, the process and the status. `ExitEvent` to
`BackoffSpawns` are the exit callback; `StabilityElapses` is its timer. An exit
with code 0 *or by a signal* (code null, `runtime.ts:838`) asks `ps`, whose
answer is of the moment it is asked and may be "no" because `ps` failed.
`Shutdown`, `ShutdownUntracks`, `ServerExits` are `gracefulShutdown`; `Boot`,
`BootReads`, `BootAdopts`, `BootRestores` are the boot. `Crash` kills the
control plane at any moment; `InstanceDies` is the environment.

Simplifications are listed in the module's header. The ones that matter: one
service (dependencies are an await that may fail), whose restart policy is not
edited (`PATCH /services/:id`, `routes/services.ts:1119-1128`); process ids are not reused
while anything refers to them; timers keep their order but not their lengths,
so any await may outlast the 500 ms or the backoff, which is how Node behaves
under load and what the properties have to survive.

### Runs

`MaxRestarts = 1` and a counter cap of 2 everywhere: one retry is enough to reach
both sides of the limit. `runtime_overlap` has three handlers and four
instances, as its longest story needs: one instance that ends, one that a restart
starts while `ps` is asked, one that the callback's timer starts beside it, and
one more in between. Where locks are broken and the control plane goes down, two
handlers and two instances are enough to leak one and start over it; every
handler meets every other in one of the runs. The space is finite because
restart counts are capped and ids that nobody refers to are reused; when all ids
are taken by leaked instances, spawns stop (`Exhausted`), which the liveness
properties exempt by name. Tasks and instances are interchangeable, so the safety
runs use symmetry; the liveness run does not. Deadlock is not checked: a control
plane that no request reaches may rest.

| run | requests | properties |
| --- | --- | --- |
| `runtime_overlap` (866,676 states) | start, stop, restart, deploy, rollback; starts and `ps` may fail | `TypeOK`; `MutualExclusion`; `ExitPolicyCurrent`: the counter read at the exit is current when used; `TrackedIsRecorded`: a kill at any moment leaves what runs in the row; `OneRuns`, `RunningRuns`: at rest, at most one instance runs, and one does if the row says so; `TransitionsEnd`: overlapping starts and stops never leave "starting" or "stopping" behind |
| `runtime_faults` (1,489,266) | start, stop, force, deploy, rollback, shutdown; kills; launchers that leave their group; starts and `ps` may fail | `NoStuckLock`, `DeploysExclusive`, `RestartsBounded`; `OnlyKnownLeaks`: the steps that lose sight of a running instance are the listed ones and no other; `OnlyBootUnrecords`: only boot, acting on a row that changed since it was read or on a failed `ps`, clears the record of a running instance |
| `runtime_live` (563,502) | start, deploy, rollback, shutdown | `LockReleased`: a lock that is taken is given back; `CrashResolves`: a scheduled restart is carried out, by the timer or by the holder of the lock it meets; `RestoredUnlessShutdown`: what ran at a shutdown runs again after boot |
| `runtime_resurrect` | start, stop | violates `StoppedStaysDown` |

Three of them have exceptions, each a finding.

* `OneRuns` excepts what follows when an exit callback is `overtaken`: a stop kills
  an instance through the row, a restart starts another while the callback asks
  `ps`, the callback untracks that one, and its timer starts a third (finding 22).
* `CrashResolves` excepts a rollback in progress: it may hold the lock when the
  timer fires, which is refused and not set again, and its checkout may then throw
  (finding 23). A start that fails before it spawns ends a scheduled restart too;
  the run has none.
* `RestoredUnlessShutdown` excepts another shutdown (finding 3) and a deploy or
  rollback that holds the lock when boot wants to start the service.

`runtime_overlap` excludes launchers that leave their group behind. With them
`OneRuns` has the exceptions that `runtime_faults` pins down in `OnlyKnownLeaks`,
and `RunningRuns` is false: a group that was adopted has no exit callback, and its
end is noticed by nobody.

### Fairness

`TaskStep` and `WatcherStep` are weakly fair: a parked handler waits for I/O, a
timer, or an exit that `waitForRuntimeExit` bounds by a deadline
(`runtime.ts:670-677`), and Node runs every resolved await and elapsed timer.
`Boot` is weakly fair: `install.sh` registers the control plane with launchd,
which keeps it alive, or systemd, which restarts it after a failure; after a
deliberate shutdown under systemd, read the property as "once the operator has
started it again". Nothing is assumed of requests, of children or of
kills, and liveness is checked without kills (with shutdowns).

### Proofs

`ServiceRuntimeProofs` proves, for any finite or infinite sets of tasks and
instances, any flags and any `MaxRestarts < CountCap`:

* `TypeCorrect`: `TypeOK` is invariant. It is inductive as it stands.
* `RestartsStayBounded`: `RestartsBounded` is not inductive, since the counter is
  set from a value an exit callback read earlier; but the policy `MayRetry` that
  admits the increment bounds that very value, so it is inductive with `TypeOK`.
* `ExitPolicyStaysCurrent`: inductive with `TypeOK`: what changes the counter
  either untracks the instance or needs its callback not to have begun.
* `NoLockIsStuck`: with `LockOwned`, every step that leaves the lock set leaves
  somebody in a critical section, although `finally` blocks delete locks they
  do not own.
* `LockExcludes`: when `"force"` is not among the requests, `MutualExclusion`
  holds. The strengthening `LockHeld` says that whoever is in the critical
  section implies the lock is held; the assumption is needed, as
  `forceRestartService` deletes a lock it does not own.
* `DeploysExclude`: deploys exclude each other even with force restarts, by
  `DeployHeld`: a deploy in progress implies `activeDeploy`, which nobody else
  deletes.

`SupervisionProofs` proves the properties about what runs. Three hold whatever the
requests and faults:

* `TransitionsDoEnd` (`TransitionsEnd`): each way out of a start or a stop
  writes a settled status or leaves another of its kind inside; a control plane
  that is down has no handlers (`DownIdle`), so boot interrupts nobody.
* `BootAloneUnrecords` (`OnlyBootUnrecords`): the row names the tracked instance
  or none, and only a stop that waits holds an instance (`Named`).
* `LeaksAreKnown` (`OnlyKnownLeaks`): the step that takes an instance out of the
  map puts it in the hands of the stop that kills it, or is one of the listed
  ones.

`TrackedIsInTheRow` (`TrackedIsRecorded`) assumes `StaysUp`: no kill and no
shutdown, hence no second boot, whose exception is `OnlyBootUnrecords`.

Two assume `Orderly`, which adds that nobody forces a restart and no launcher
leaves its group behind; exits of any kind, `ps` and its failures are covered.

* `OneIsLeft` (`OneRuns`): by `Reached`, as long as no callback was overtaken, what
  runs is tracked, named by the row or held by a stop that is about to kill it,
  and what the row names without its being tracked is so held. It is inductive
  because at a spawn nothing is tracked: the lock excludes a second start
  (`LockHeld`), and a stop that overlaps only ever untracks. `Ended` says that
  exit callbacks act for instances that are gone, and that `ps` never finds one.
* `RunningIsTrue` (`RunningRuns`), for overtaken callbacks too: by `Watched`,
  "running" is in the row only while an instance is tracked, and a tracked instance
  that has ended has an exit callback, perhaps waiting for `ps`, that will say so.

All rest on the four named assumptions of the module (`NoInst` is no instance,
the requests are known kinds, flags are Booleans, the counts are ordered).
Only model-checked: liveness, which is out of the prover's reach, and the
violation of `StoppedStaysDown`.

## 4. `DeployStates` and `GitOps`

`DeployStates` is the abstract specification: the states and the table of
`deployStateMachine.ts:26-77`, for any set of deployments. `GitOps` is
everything that writes deployments of one service.

| variable | code |
| --- | --- |
| `remote`, `delivery` | the head of the branch; a GitHub delivery under way |
| `rows` | `deployments`: status, commit, trigger |
| `tree` | the commit in `projectsDir/<service>` |
| `lastAttempted` | `services.last_attempted_commit` |
| `building` | `services.status` is "building", as in the row that a first deploy inserts |
| `serving` | the commit the running process was started from, or none |
| `lock`, `activeDeploy` | `ctx.actionLocks`, `ctx.activeDeploys` |
| `task`, `cpu` | handlers at their awaits; the handler between two writes of one section, where only a kill can intervene |
| `tried`, `polls` | history, for the properties |

`PollTick`, `PollEnds`, `PollDeploys` are `pollGitUpdatesOnce`: the question
for the lock comes before the await of `listRemote`, the recorded attempt after
it and before the deploy, which may then be refused; a tick passes over a service
that is "building" (`poller.ts:130`), and `PollFails` is a `listRemote` that fails
or comes back empty. `FirstDeploy` is the creation of a service from GitHub.
`Webhook` and
`DeliveryLost` are the delivery: a refused deploy is logged and dropped.
`DeployBegins` to `Fails` are `deployFromGit` and
`applyPostDeployServiceState`, one action per await and, where several statements
follow each other, one per statement so that a kill can fall between them.
`Starts` runs whatever is in the tree by then. `Rollback` to
`RollbackMarksSource` are `rollbackDeployment`. `listRemote`'s answer is the head
at the moment the handler resumes. The build is its outcome: success or failure.

Properties of run `gitops` (665,432 states: a service that was deployed before or is
in its first deploy, two tasks, two commits, one push, one request, one kill, three
deployments: enough for a deploy by the poller, one by the webhook or an
operator, a rollback of it, a refusal in between and a kill anywhere):

* `FollowsTable`: the refinement. `rows` implements `DeployStates!Spec` when
  "running" is read as queued and "success" as healthy, kills included: no
  sequence of deploys, failures, rollbacks of rollbacks and kills makes
  `transition()` warn.
* `OnlyKnownStrandings`: only a kill, or a rollback whose checkout throws, leaves
  a deployment in flight with nobody working on it.
* `RetriesBounded`: a commit that keeps failing is not redeployed on every tick.
* `PushNoticed`: every head the branch rests on is tried or noted as attempted,
  whatever is lost, refused or killed, unless the service is left at "building"
  for good by a kill in its first deploy (`LeftBuilding`, finding 24).
* `TypeOK`.

Requests and rows are
bounded by the constants; a run that has used up `MaxRows` satisfies the
liveness properties by name. Fairness: parked handlers resume, and the poller's
interval keeps ticking; requests are bounded, so the lock is eventually free
when it ticks. The remote does not fail for ever: a poll that keeps being asked
is answered in the end (the one strong fairness). No fairness for deliveries: they may be lost.

`GitOpsProofs` proves, for any tasks, commits and bounds, everything but the
liveness. The inductive invariant `IInv` says of the rows that they are rows and
of the tasks: one at most is inside the lock (`Tasks`; the rows are nobody
else's), and at each stage the row it works on exists and has the status of that
stage (`SoundTask`, `StatusesAt`); the poller's deploys are no more than the
pushes, plus one if it has noted the current head (`Polls`). From it:

* `GitOpsTypes`: `TypeOK`, which is not inductive: a task's row number has to be
  one of `rows`.
* `RetriesStayBounded`: by `Polls`.
* `RowsFollowTable`: `Spec => FollowsTable`. Initial states map to initial states;
  each step either leaves the mapped rows alone, adds a queued one, or moves one
  row along `AllowedTransitions`, since its status is the one its stage implies.
* `StrandingsAreKnown`: what leaves a row in flight is the end of the task in the
  lock, and each end but the two listed has written a final status.

`DeployStates` needs no proofs of its own: it is the statement.

## 5. `DomainBinding`

| variable | code |
| --- | --- |
| `services`, `route` | the rows of `services` and of `proxy_routes` (path "/") |
| `queue`, `dead` | `cleanup_queue`, `cleanup_dead_letter` |
| `dns`, `ingress` | at Cloudflare: the domains with a record, the rule of each domain |
| `mutex` | the handler inside `withIngressLock` |
| `task` | the handlers in progress: the call each waits for, its answer, its locals (`prev` is `previous`, `domain` or `boundDomain`), the configuration it has read |

`DnsCall`, `IngressReads` and `IngressWrites` are the calls: each takes effect or
not, and its answer arrives or is taken for a failure, so a "failed" call may
have had its effect. `Expose`, `ExposeDnsDone`, `ExposeBinds`, `ExposeThrows`,
`ExposeCleans`, `ExposeEnqueues` are `POST /services/:id/expose/domain`;
`Unexpose`, `IngressRemoved`, `DnsRemoved` its `DELETE`; `Delete`, the same two
and `DeleteEnds` are `DELETE /services/:id`; `Update`, `UpdateReplaces`,
`UpdateRegisters` are `PATCH /services/:id` with a domain, or with a port only,
which drops the route. `Drain`, `DrainCleaned`, `DrainFailed` are
`drainCleanupQueue`. `Crash` kills the control plane. `task[t].alone` is history:
the handler has not overlapped another one of its service or its domains.

| run | bounds | properties |
| --- | --- | --- |
| `domains` | 2 handlers, 2 services, 2 domains, any initial bindings, 2 requests, 2 attempts, a kill, any number of failing calls | `TypeOK`; `RoutesUnique`; `OtherRulesKept`: a write changes the rule of its own domain only; `OnlyKnownOrphans`: a record or rule that nobody uses is being removed, queued or dead-lettered, unless a kill, a bind that throws, an edit, or overlapping handlers of one service or domain left it; `OnlyKnownOutages`: a served domain is taken down by handlers of its own service, by a drain, or by handlers that overlapped another of the service or domain |
| `domains_cleanup` | the same on 1 domain, with fairness | `CleanupResolves`: a queued cleanup is performed or reaches the dead letter table |

The initial states have any services bound, so two requests reach what would
take four from an empty installation: an unbinding or edit meets a bind, a
second removal meets a queued one, the drain meets each of them. Two attempts
have both branches of the limit. Tasks, services and domains are
interchangeable; the liveness run does not use the symmetry.

Fairness: a call is answered or fails (the HTTP client has its time limits), the
handler then resumes, and the renewal loop drains every day. No fairness for
requests. Drains are a day apart, so one runs at a time.

`DomainBindingProofs` proves, for any tasks, services, domains and bounds:

* `DomainTypes`: `TypeOK`, strengthened by what a handler waiting for a call
  must have (`SoundHandler`): without it, a drain might queue a row of no domain.
* `RoutesStayUnique`: inductive; the four writers of routes either clear one or
  meet the unique index.
* `OtherRulesStay`: `OtherRulesKept` from `ReadCurrent`: a configuration read
  inside the lock is still the one at Cloudflare, as whoever has read holds the
  lock, and nobody writes without having read.

* `OutagesAreKnown` and `OrphansAreKnown` (`OnlyKnownOutages`,
  `OnlyKnownOrphans`). Neither is inductive: whether a call of a handler harms
  anybody depends on what the handler read several awaits earlier. The invariant
  `Binding` adds to the above `Placing`, that a handler is at one of the calls its
  kind makes (`AllPlaced`) and that one which is marked as alone shares no service
  and no domain with another (`Alone`), and `Relied`, what such a handler may rely
  on at each await: its domains are no other service's (`Owner`), the route it
  read is still there (`Bound`), and what it has already removed is gone or in
  the queue (`Removed`). The exceptions of the two properties are then exactly
  the handlers that are not alone, the drain, and the steps that end a handler
  halfway (`HandlersLeaveNoOrphan`).

They rest on the module's three named assumptions. `CleanupResolves` is only
model-checked.

## 6. `Dependencies`

| variable | code |
| --- | --- |
| `status`, `dependsOn` | columns of `services` |
| `locks` | `ctx.actionLocks` |
| `tracked`, `ended` | the services in `ctx.runtimeProcesses`, and those of them whose instance has ended while its exit waits to be handled; only `Processes`, the others are in Docker |
| `boot` | the rows `reconcileRuntimeStateOnBoot` is still to start |
| `handler` | by the service whose lock it holds, the root: the start or restart in progress and its stack of `startDependencies` calls, each with the dependencies it has still to visit |
| `stops` | services with a `stopService` in progress |
| `bulk` | the start-all, restart-all or stop-all of a group or project |

`Start`, `Restart`, `BootStart` and `BulkNext` come to `Enter` or `EnterRestart`
(`withLock`). `Recurse` takes the walk to its next call, passing over what runs;
`CycleFound` is the visiting set; `StartDep`, `DepStarted`, `DepFailed`,
`LockRefused`, `DepUpAlready` are the start of a dependency inside its own lock,
which is passed over when it is tracked (`runtime.ts:697`), whatever its row says;
`StartOwn` to `OwnFailed` that of the root, with the same question (`OwnUpAlready`); `Leave` is the `finally`. `Stop` and
`StopEnds` take no lock and may fall anywhere. `EditDependencies` changes the
graph during walks. `Dies` ends an instance, `ExitHandled` is its exit callback
some time later, `ContainerEnds` the end of a container. What it takes to start
*one* service is `ServiceRuntime`'s subject and is one step that succeeds or fails.

Run `deps` (three services, any graph on them with no service depending on
itself, cycles included; boot brings up any subset; one request, which may be a
bulk action; one failure; one of the services in Docker; 7.6 million states): three services are enough for a
chain, a diamond's two arms, a cycle with a way into it, and three starts at
once. `TypeOK` includes that a walk has no service twice on its stack, so it ends.

* `LocksHeld`: `actionLocks` is exactly the roots in progress and the
  dependencies being started, and nobody starts what another handler starts.
* `StartedAfterDependencies`: when a runtime is started, each dependency its
  handler read runs, or has run since and went down, or had ended and was still
  tracked when its turn came (finding 25). One that is only "starting" is not
  passed over.
* `StartAllStarts`: a start-all or restart-all that nothing else meets leaves all
  its members running, in whatever order it takes them, if the dependencies are
  acyclic. It excludes boot, for finding 11.

No liveness: the starts it would speak of are single steps here.

`DependenciesProofs` proves, for any services, any graph and any bounds, from the
two named assumptions:

* `DependenciesTypes`, `LocksAreHeld`, from the invariant `Core`: each handler is
  sound (`SoundHandler`), the locks are accounted for service by service
  (`Locking`), and what a call has visited runs or is the service of the call
  within it (`Read`). The lemmas `PushSound`, `PopSound`, `FallenSound` say what
  the operations on a stack preserve; `TakesLock`, `KeepsLock`, `GivesBack` what
  the moves do to the accounting.
* `DependenciesFirst`: `Read` at the moment a walk is over; `Tracking` says that a
  tracked instance which has not ended belongs to a row at "running".
* `StartAllDoesStart`: `StartAllStarts`, which relates a bulk action to all the
  steps since it began. The invariant `Undisturbed` says that only the member the
  action is at has a handler, that the members it is done with run, and that the
  handler `Climbs`: each call on its stack is about a service that ranks below
  all that called for it, in whatever way the services can be ranked, and that
  does not run yet. A walk that goes down meets no cycle (`NoCycle`) and no lock
  (`OnlyOne`), and never starts again, and so takes down for a moment, what an
  earlier walk has left running. `PushClimbs` and `PopClimbs` keep it. The
  services need not be finitely many.

## 7. `ContainerWatch`

| variable | code |
| --- | --- |
| `kind`, `auto`, `status` | columns of `services` |
| `lock` | `ctx.actionLocks` has the service |
| `container` | what Docker has under its name; for a stack, the state `composeStatusFrom` collapses it to |
| `current` | history: the starts to which Docker has shown a container that runs and has not changed since |
| `handler` | starts, stops and restarts by users, boot and the healthcheck: the Docker call each waits for, whether it refers to the container by name or by an id, whether it is in its second attempt |
| `boot`, `drift` | the boot and the tick of the drift loop: the row they read, what Docker answered |
| `failures`, `probes` | the count of the healthcheck and its probes under way |
| `health` | what probes find: the environment |

One action per Docker call: `Halting`, `Removing`, `ComposeStop`, `Stopped` are the
stop;
`Deps`, `Image`, `Inspect`, `Halt`, `Drop`, `Create`, `Clear`, `CreateAgain`,
`StartContainer`, `Reclear`, `Ready` and `Up` the start, with the recovery from a
name conflict and from a missing image, each of which takes effect or fails, and
`Live` or `Dead` its end: what Docker showed, or the exit code of `up`, is written
to the row an await later, when the container may have changed again
(`runtime.ts:401-409`, `1004`, `composeRuntime.ts:216-234`). A compose command may
also throw and leave the row at "starting" or "stopping".
`External` is Docker by itself, the user at its command line, and restart
policies. `DriftTick`, `DriftAnswered`, `DriftWrites` are the three sections of a
tick; `HealthTick`, `ProbeAnswered`, `ProbeFails` the healthcheck; `BootReads` to
`BootStarts` the boot. A kill leaves only the row and what Docker has, and the
initial states have any of these, so what follows a kill is a behaviour of its own.

Run `container` (one user with one stop or restart, one fault, two probes
under way, threshold 2 where the code has 3; 1,466,751 distinct states): boot, the user
and the healthcheck overlap with the drift loop, which is four actors at one
container, with one call failing or one change from outside. The instance starts
an app that never answers or adopts one that does; a row at "running" without a
container and its converse are among the initial states.

* `OnlyKnownMismarks`: a settled status that disagrees with Docker is written in
  the listed ways only, among them a start whose container ended between the
  answer that showed it running and the write.
* `StatusConverges`: however the row was marked, the drift loop makes it agree
  again; except a row torn by a kill or by a compose command that threw, and a
  stack that has vanished (finding 15).
* `SickRestarts`: an app that never answers does not run on for ever, although a
  restart refused by a held lock is dropped.

Run `container_stopped` (one stop, no faults) violates `OnlyEligibleRestarted`: a
probe that was sent while the service ran fails after a user's stop, and the
healthcheck restarts what has just been stopped (finding 28).

Fairness: calls are answered (the Docker client fails or answers, readiness has a
deadline), the intervals fire, probes end by their timeout
(`AbortSignal.timeout`). Faults are bounded, which is the assumption that Docker
is left alone in the end; users' requests are not fair.

`ContainerWatchProofs` proves `ContainerTypes` and `MismarksAreKnown` for any
users, requests and bounds: of the inductive invariant, `Locked` says that one
handler at most is a start or a restart and the lock is held exactly then (else
the end of another would free it), `Watched` that an observation that is still
fresh is true and that a start in `current` has a container that runs. Liveness is only model-checked.

## 8. `SaasDomains`

| variable | code |
| --- | --- |
| `own` | the hostname lies in the operator's zone (a CNAME) or a tenant's (a custom hostname) |
| `services`, `row` | the services, and the row of `saas_domains` with the hostname |
| `record`, `rule` | at Cloudflare: the record with its validation, the tunnel's rule |
| `mutex` | the promise chain of `withIngressLock`: who waits, in order |
| `task` | the requests in progress, each with the call it waits for, its answer, and the ids it read |
| `astray` | history: the custom hostnames that a deletion removed when the row it had read was there no more |

`Register`, `Origin`, `Create`, `Created`, `List`, `Listed`, `Writes` are
`registerSaasDomain`: a custom hostname that exists already is looked up and
used, the row is inserted or updated. `Verify`, `Get`, `Got` are
`verifySaasDomain`; `Delete`, `Drop`, `Dropped` `deleteSaasDomain`, which
`DeleteService` and `Stopped` also come to. `Ingress` is a turn at the tunnel.
`Validates` is Cloudflare, `Kill` the end of the control plane. An assumption about
Cloudflare: a custom hostname that is active stays so until it is removed. What
the code does when one is not (moved, expired) is the same lookup, and until the
next verification the row says active.

Run `saas` (two services, four requests, one failing call or kill; 2.8 million
states): the shortest ways to a wrong rule or status need a registration, a
deletion, a second registration and one more request in flight, so four.

* `OnlyKnownMisroutes`: the tunnel comes to differ from the row only when a call
  is lost or when the last turn was of a request whose row had gone (findings 16, 17).
* `OnlyKnownOrphans`: how a record at Cloudflare comes to be known to no row.
* `OnlyKnownFalseActives`: a late answer never marks a hostname that has been
  registered again as verified; how else a row is wrongly active.

The last two have exceptions that four requests do not need. Without them they
cannot be proved, and TLC shows why with five requests on one service (finding
21): what a deletion removes after its row has gone may belong to a later row.
`astray` is the history that names it.

Stopping is legal and nothing here must happen, so no fairness and no deadlock
check.

`SaasDomainsProofs` proves, for any services and bounds, `SaasTypes` (with it,
that the mutex is a queue of exactly the requests at the tunnel, once each) and
`MisroutesAreKnown`. The strengthening `Latest` carries it: rows are written and
turns taken in one section, so the last one in the queue, if it found its row,
brings the rule to where the row is.

`OrphansAreKnown` and `FalseActivesAreKnown` are the other two properties, for
any number of requests. Their invariant is `Known`, which adds

* `Names`: what a number stands for. A request's number becomes that of the row
  and of the record it creates, nobody knows it before (`Births`), and a handler
  has what its call needs (`Shapes`);
* `Current`: as long as the row of a request is there, what the request was told
  about the record is so, unless a deletion of the row is in progress or the
  record is in `astray`.

## 9. `PersistedUploads`

| variable | code |
| --- | --- |
| `auto` | the path is one of `DEFAULT_UPLOAD_DIRS`, or configured |
| `head` | the files of the path in the commit that is checked out |
| `clone`, `files` | what is at the path in the clone |
| `volume` | the data volume's directory of the path |
| `app` | the service's process: down, tracked, or left over by a stop or a kill |
| `deploy`, `ensure` | the deploy in progress; `ensurePersistedPaths` between two of its calls |

`DeployBegins` stops and unlinks, `GitResets` or `GitFails`, then `Resolve`,
`Seed`, `Copied`, `Remove`, `Link` are `ensurePersistedPaths` for the deploy or,
after `Start`, for a start; `BuildEnds` is the rest of the deploy. Each may fail
and be swallowed as the code does. `AppWrites` is a write at any moment, through
the link or beside it; `Kill` and `Adopt` the end and boot of the control plane.
A directory that cannot be read is taken for an empty one (`persistence.ts:153`), a
`git checkout -f` that is followed by a failing reset has overwritten files, and a
file that the app writes while it is copied may be copied in part. A file is
known by where its content is from: the repository, the app's last write, an
earlier one, a copy cut short, or one that mixes two writes.

Run `uploads` (two files, three faults, commits with any of the files; 178,191
states; deadlock is checked): two files are one that is copied and one that
waits; three faults allow a kill during a copy, a surviving app and a failing
call in one behaviour.

* `UploadsKept`: what the app wrote last is what the path shows once it is linked,
  and a started app sees the volume, each with the listed exceptions: a file
  written beside the link, or while the directory was being replaced, a copy cut
  short by a kill, a directory that could not be read (`missed`), a conventional
  path that git does not have (findings 19, 20, 26).

`PersistedUploadsProofs` proves both `UploadsTypes` and `UploadsStay`, for any
files (infinitely many too) and any number of faults. `Sound` carries the
argument: while a directory is being replaced, whatever was in it is still to be
copied or has a name in the volume, unless the listing missed it or the app wrote
it since (`late`), so that removing the directory loses only those.

## 10. Findings

All are in `PROJECT.json`, with the lines that disagree quoted. The first
and the last have a run of their own, in which TLC finds the counterexample; several others are named
exceptions of properties that pass, which fail when the exception is dropped.

1. **A stopped service is started again by its backoff timer** (`runtime_resurrect`,
   `runtime.ts:886`). The test `runtime.restart.test.ts` says a stopped service must
   not be resurrected; it covers the 500 ms before the timer is set.
2. A force restart lets a deploy into the tree of a running rollback
   (`runtime.ts:1311`): rollbacks are not in `activeDeploys`.
3. Two shutdowns in a row forget what ran (`runtime.ts:1467`): the marker is
   consumed before the services are restored. `RestoredUnlessShutdown` excepts it.
4. A push can be passed over for ever (`poller.ts:181`): it is recorded as
   attempted and its deploy is refused because a start has taken the lock while
   the poller asked the remote.
5. After a failed deploy the service is started from the failed tree
   (`deploy.ts:1984`), where the log speaks of keeping the previous one.
6. The comment at `runtime.ts:46` on ungraceful crashes contradicts the code and
   the comment at `runtime.ts:53`.
7. `deployStateMachine.ts:11` says all status writes go through `transition()`;
   `deploy.ts` writes "running" and "success" directly, which the table does not
   know and `transition()` reads as "queued".
8. A bind that loses takes the winner's traffic (`routes/cloudflare.ts:340`): the
   tunnel's rule is written before the unique index refuses the row.
9. A removal that was put off takes down a domain bound again meanwhile
   (`cleanupQueue.ts:86`; an exception of `OnlyKnownOutages`).
10. An edit that changes a service's domain leaves the old DNS record behind
    (`routes/services.ts:1196`; an exception of `OnlyKnownOrphans` of `DomainBinding`).
11. Boot starts services without awaiting them, so one whose dependency boot is
    starting fails and is not tried again (`runtime.ts:1545`; `StartAllStarts`
    excludes boot).
12. The healthcheck carries failures of one instance over to the next
    (`runtime.ts:1656`), which a single failing probe then restarts.
13. One failed list of Docker marks every running container service stopped until
    the next tick (`runtime.ts:1336`; an exception of `OnlyKnownMismarks`).
14. For compose stacks the drift loop overwrites a transition that began during its
    `ps` (`runtime.ts:1598`; an exception of `OnlyKnownMismarks`).
15. A stack whose containers were all removed stays "running" for ever
    (`composeRuntime.ts:277`; excepted from `StatusConverges` as `Vanished`).
16. A failed change of the tunnel's rules is said to surface on the next verify,
    which does not look at them (`saasDomains.ts:210`; `OnlyKnownMisroutes`).
17. A registration or deletion whose row is gone nevertheless changes the rule of
    whoever has the hostname by then (`saasDomains.ts:319`; `OnlyKnownMisroutes`).
18. A service can be bound to a domain that is registered for another one as a SaaS
    hostname (`routes/cloudflare.ts:295`); met while modelling, in no run.
19. A conventional upload directory that git does not track is linked by a start,
    unlinked by the next deploy and not linked again (`persistence.ts:112`;
    an exception of `UploadsKept`).
20. A kill while a file is copied leaves an incomplete one under its final name,
    which wins over the complete one (`persistence.ts:167`; an exception of
    `UploadsKept`).
21. Of two deletions of one hostname, one may fail to remove the custom hostname,
    a registration takes it up again, and the other deletion removes it from the
    new row (`saasDomains.ts:597`; exceptions of `OnlyKnownOrphans` and
    `OnlyKnownFalseActives` of `SaasDomains`).
22. An exit with code 0 or by a signal makes the exit callback await `ps` after its
    check that the instance is still the tracked one; it then untracks whatever is
    tracked by then and schedules another start (`runtime.ts:838`; `OneRuns` excepts
    it as `overtaken`).
23. A backoff timer that meets a held lock is refused and not set again; a rollback
    that holds it and then throws leaves the service "crashed" (`runtime.ts:889`; an
    exception of `CrashResolves`).
24. A service killed in its first deploy stays "building", which the poller passes
    over (`poller.ts:130`; `PushNoticed` excepts it as `LeftBuilding`).
25. A dependency whose instance has ended is taken for up while it is tracked
    (`runtime.ts:697`; an exception of `StartedAfterDependencies`).
26. A directory of uploads that cannot be read is removed uncopied
    (`persistence.ts:153`; an exception of `UploadsKept`).
27. A `ps` that fails makes boot drop the record of a group that runs, and perhaps
    start a second one (`runtime.ts:438`; an exception of `OnlyBootUnrecords`).
28. **A service that was just stopped is restarted by a late probe**
    (`container_stopped`, `runtime.ts:1656`): the catch of a probe asks for the count
    and the lock, not for the row.

## 11. Not modelled

*Of the modelled parts.* Several process services at once beyond their starts and
stops, the deletion of a service's process and files, the choice of build
commands, ports (`freeServicePort` is an await), Windows (process groups), reuse
of process ids after a reboot of the host; force restarts of containers;
bind mounts of Docker services for uploads; the browser-login tunnel, quick
tunnels and path prefixes of domains.

*Whole parts*, each with its reason in `PROJECT.json`. Pairing, licenses, tokens,
settings and the resource layer are synchronous functions over SQLite, where
nothing interleaves with a guard: a unit test reaches what a model would.
Scheduled backups and terminals have one hazard each (a tick that starts a second
run, a limit read before an await) and are otherwise I/O; the first is listed
among the hazards with no property. Route matching compares strings. The
dashboard, the companion and the desktop shell are views; the emailer, n8n, Plex,
Stripe and AI adapters translate between formats and launch programs, and build
detection is a table of file names.

These parts are most of the repository's lines, which is why the source map covers
a small share of them: it names the control of the server's core, and widening it
would mean modelling data and views that no property tells apart.
