--------------------------- MODULE ContainerWatch ---------------------------
(***************************************************************************)
(* One service that runs in Docker, as a container (type docker) or as a   *)
(* compose stack (type compose): startDockerService, startComposeService,  *)
(* stopService and restartService of services/runtime.ts, the boot         *)
(* that adopts what runs, and the two loops that watch it, the drift loop  *)
(* (row against Docker) and the healthcheck loop (restart of what does not *)
(* answer).  Docker itself is seen through the calls the code makes.       *)
(*                                                                         *)
(* An action takes a handler from one await to the next: the call it was   *)
(* waiting for takes effect, and the handler goes on to the next call.     *)
(*                                                                         *)
(* Simplifications.                                                        *)
(*  - A stack is one state: the set of its containers, collapsed as        *)
(*    composeStatusFrom does.                                              *)
(*  - Dependencies and linked databases (Dependencies) are one await; the  *)
(*    shutdown and its marker are ServiceRuntime's subject.                *)
(*  - A kill of the control plane leaves nothing but the row and what      *)
(*    Docker has, and behaviours start from any of these: what follows a   *)
(*    kill is a behaviour of its own.                                      *)
(*  - No force restart, which breaks locks.  One restart by the            *)
(*    healthcheck at a time.                                               *)
(***************************************************************************)
EXTENDS Naturals, FiniteSets

CONSTANTS
    Users,
    Requests,       \* what users ask for
    MaxRequests,    \* bound: requests of users
    MaxFaults,      \* bound: calls that fail, probes lost, containers that
                    \* end, start or vanish by themselves
    MaxProbes,      \* bound: probes of the healthcheck that are on their way
    FAILURE_THRESHOLD   \* 3 in the code

ASSUME UsersAssumption == Users \cap {"boot", "health"} = {}
ASSUME RequestsAssumption == Requests \subseteq {"start", "stop", "restart"}
ASSUME BoundsAssumption == {MaxRequests, MaxFaults, MaxProbes} \subseteq Nat
ASSUME ThresholdAssumption == FAILURE_THRESHOLD \in Nat \ {0}

VARIABLES
    kind,           \* services.type
    auto,           \* services.start_mode = "auto"
    health,         \* what probes find, without a healthcheck_path nothing
    status,         \* services.status
    lock,           \* the service is in ctx.actionLocks
    container,      \* what Docker has under the name of the service
    current,        \* for the properties: the starts to which Docker has shown a
                    \* container that runs and has not changed since
    handler,        \* the handlers in progress
    boot,           \* reconcileRuntimeStateOnBoot
    drift,          \* the tick of startContainerDriftLoop
    failures,       \* failures of startHealthcheckLoop
    probes,         \* its probes that have not been answered
    requests, faults

fixed == <<kind, auto, health>>
docker == <<container, current>>
budget == <<requests, faults>>
loops == <<boot, drift, failures, probes>>
vars == <<fixed, status, lock, docker, handler, loops, budget>>

Handlers == Users \cup {"boot", "health"}
Status == {"stopped", "starting", "running", "stopping", "crashed", "error"}

\* "failed" is a stack with a container that died badly, whatever the others do.
States == {"none", "created", "running", "exited", "failed"}

\* What a list or ps says; unknown is the null of observeComposeStatus.
Observed == {"running", "stopped", "crashed", "unknown"}

\* The calls a handler awaits, in the order of the code; "stopped", "live" and
\* "dead": the answer that ends a stop or a start is on its way.
Places == {"idle", "halting", "removing", "composeStop", "stopped", "deps",
           "image", "inspect", "halt", "drop", "create", "clear", "createAgain",
           "start", "reclear", "ready", "up", "live", "dead"}

\* holds: how a start refers to its container, by the name or by the id of one
\* it created, which may be gone.  retry: it is in the second attempt.
HandlerType == [op : {"none", "start", "stop", "restart"}, at : Places,
                holds : {"nothing", "name", "id", "gone"}, retry : BOOLEAN]

\* row: the status a loop read before it awaited; fresh, for the properties:
\* Docker has not changed since it was observed.
WatchType == [at : {"idle", "waiting", "asked", "answered", "adopting"}, row : Status, seen : Observed,
              fresh : BOOLEAN]

TypeOK ==
    /\ kind \in {"docker", "compose"}
    /\ auto \in BOOLEAN
    /\ health \in {"none", "sick", "well"}
    /\ status \in Status
    /\ lock \in BOOLEAN
    /\ container \in States
    /\ current \subseteq Handlers
    /\ handler \in [Handlers -> HandlerType]
    /\ lock <=> \E t \in Handlers : handler[t].op \in {"start", "restart"}
    /\ \A t \in Handlers :
        /\ handler[t].op = "none" <=> handler[t].at = "idle"
        /\ handler[t].at \in {"start", "ready"} => handler[t].holds # "nothing"
    /\ boot \in WatchType
    /\ drift \in WatchType
    /\ failures \in 0..FAILURE_THRESHOLD
    /\ probes \in 0..MaxProbes
    /\ requests \in 0..MaxRequests
    /\ faults \in 0..MaxFaults

Idle == [op |-> "none", at |-> "idle", holds |-> "nothing", retry |-> FALSE]
Quiet == [at |-> "idle", row |-> "stopped", seen |-> "unknown", fresh |-> FALSE]

Active(t) == handler[t].at # "idle"
At(t, place) == handler[t].at = place

-----------------------------------------------------------------------------
(* Docker and faults. *)

NoFault == UNCHANGED faults

Fault ==
    /\ faults < MaxFaults
    /\ faults' = faults + 1

\* Docker has c from now on; observations made before are old.
DockerBecomes(c) ==
    /\ container' = c
    /\ boot' = IF c = container THEN boot ELSE [boot EXCEPT !.fresh = FALSE]
    /\ drift' = IF c = container THEN drift ELSE [drift EXCEPT !.fresh = FALSE]

Remain(c) == IF c = container THEN current ELSE {}

DockerHas(c) == DockerBecomes(c) /\ current' = Remain(c)

DockerStays == UNCHANGED <<docker, boot, drift>>

\* The ids of a removed container name nothing any more.
Stale(hs) == [t \in Handlers |-> IF hs[t].holds = "id" THEN [hs[t] EXCEPT !.holds = "gone"]
                                 ELSE hs[t]]

\* container.remove({force: true}), whose failure the callers swallow.
ForceRemoved(hs) ==
    \/ DockerHas("none") /\ handler' = Stale(hs) /\ NoFault
    \/ DockerStays /\ handler' = hs /\ Fault

Gone(t) == container = "none" \/ handler[t].holds = "gone"

-----------------------------------------------------------------------------
(* Handlers. *)

Goes(t, place) == [handler EXCEPT ![t].at = place]

\* What the handlers are when that of t ends, and its lock, if it took one.
Left(t) == [handler EXCEPT ![t] = Idle]
UnlocksNever(t) == UNCHANGED lock

Unlocks(t) == lock' = (lock /\ handler[t].op = "stop")

StopPlace == IF kind = "docker" THEN "halting" ELSE "composeStop"

\* withLock, for startService and restartService only; stopService takes no lock.
Begins(t, op) ==
    /\ ~Active(t)
    /\ op # "stop" => ~lock
    /\ lock' = (lock \/ op # "stop")
    /\ status' = IF op = "start" THEN status ELSE "stopping"
    /\ handler' = [handler EXCEPT ![t] =
           [Idle EXCEPT !.op = op, !.at = IF op = "start" THEN "deps" ELSE StopPlace]]

Asked ==
    /\ requests < MaxRequests
    /\ requests' = requests + 1
    /\ UNCHANGED faults

Request(u) ==
    /\ Asked
    /\ \E op \in Requests : Begins(u, op)
    /\ UNCHANGED <<fixed, docker, loops>>

Halting(t) ==
    /\ At(t, "halting")
    /\ \/ DockerHas(IF container = "running" THEN "exited" ELSE container) /\ NoFault
       \/ DockerStays /\ Fault
    /\ handler' = Goes(t, "removing")
    /\ UNCHANGED <<fixed, status, lock, failures, probes, requests>>

\* container.remove({force: false}) refuses a running container.
Removing(t) ==
    /\ At(t, "removing")
    /\ \/ container \in {"created", "exited"} /\ DockerHas("none")
          /\ handler' = Stale(Goes(t, "stopped")) /\ NoFault
       \/ container \in {"none", "running"} /\ DockerStays
          /\ handler' = Goes(t, "stopped") /\ NoFault
       \/ DockerStays /\ handler' = Goes(t, "stopped") /\ Fault
    /\ UNCHANGED <<fixed, status, lock, failures, probes, requests>>

\* A stop that fails is logged, and the row says "stopped" all the same; one whose
\* env file cannot be written throws and leaves it at "stopping".
ComposeStop(t) ==
    /\ At(t, "composeStop")
    /\ \/ DockerHas(IF container = "none" THEN "none" ELSE "exited")
          /\ handler' = Goes(t, "stopped") /\ UNCHANGED lock /\ NoFault
       \/ DockerStays /\ handler' = Goes(t, "stopped") /\ UNCHANGED lock /\ Fault
       \/ DockerStays /\ handler' = Left(t) /\ Unlocks(t) /\ Fault
    /\ UNCHANGED <<fixed, status, failures, probes, requests>>

\* stopService has stopped what it could, and a restart goes on to start.
Stopped(t) ==
    /\ At(t, "stopped")
    /\ status' = "stopped"
    /\ handler' = IF handler[t].op = "stop" THEN Left(t) ELSE Goes(t, "deps")
    /\ NoFault
    /\ UNCHANGED <<fixed, lock, docker, loops, requests>>

Deps(t) ==
    /\ At(t, "deps")
    /\ \/ /\ status' = "starting"
          /\ handler' = Goes(t, IF kind = "docker" THEN "image" ELSE "up")
          /\ UNCHANGED lock /\ NoFault
       \/ Fault /\ handler' = Left(t) /\ Unlocks(t) /\ UNCHANGED status
    /\ UNCHANGED <<fixed, docker, loops, requests>>

\* The catch of startDockerService; an up that fails.
StartThrows(t) ==
    /\ status' = IF kind = "docker" THEN "error" ELSE "crashed"
    /\ handler' = Left(t)
    /\ Unlocks(t)

\* The pull may fail, a missing image may not.
Image(t) ==
    /\ At(t, "image")
    /\ \/ handler' = Goes(t, "inspect") /\ UNCHANGED <<status, lock>> /\ NoFault
       \/ Fault /\ StartThrows(t)
    /\ UNCHANGED <<fixed, docker, loops, requests>>

-----------------------------------------------------------------------------
(* getOrCreateContainer and container.start. *)

\* A running container is reused if it has the ports and mounts of today.
Inspect(t) ==
    /\ At(t, "inspect")
    /\ \/ container = "none" /\ handler' = Goes(t, "create") /\ NoFault
       \/ container \in {"created", "exited"} /\ handler' = Goes(t, "drop") /\ NoFault
       \/ /\ container = "running"
          /\ \/ handler' = [Goes(t, "start") EXCEPT ![t].holds = "name"]
             \/ handler' = Goes(t, "halt")
          /\ NoFault
       \/ handler' = Goes(t, "create") /\ Fault
    /\ UNCHANGED <<fixed, status, lock, docker, loops, requests>>

Halt(t) ==
    /\ At(t, "halt")
    /\ \/ DockerHas(IF container = "running" THEN "exited" ELSE container) /\ NoFault
       \/ DockerStays /\ Fault
    /\ handler' = Goes(t, "drop")
    /\ UNCHANGED <<fixed, status, lock, failures, probes, requests>>

Drop(t) ==
    /\ At(t, "drop")
    /\ ForceRemoved(Goes(t, "create"))
    /\ UNCHANGED <<fixed, status, lock, failures, probes, requests>>

Created(t) ==
    /\ container = "none"
    /\ DockerHas("created")
    /\ handler' = [Goes(t, "start") EXCEPT ![t].holds = "id"]
    /\ UNCHANGED <<status, lock>>

\* "name already in use": the name is cleared, and creation tried once more.
Create(t) ==
    /\ At(t, "create")
    /\ \/ Created(t) /\ NoFault
       \/ /\ container # "none" /\ handler' = Goes(t, "clear")
          /\ DockerStays /\ UNCHANGED <<status, lock>> /\ NoFault
       \/ StartThrows(t) /\ DockerStays /\ Fault
    /\ UNCHANGED <<fixed, failures, probes, requests>>

Clear(t) ==
    /\ At(t, "clear")
    /\ ForceRemoved(Goes(t, "createAgain"))
    /\ UNCHANGED <<fixed, status, lock, failures, probes, requests>>

CreateAgain(t) ==
    /\ At(t, "createAgain")
    /\ \/ Created(t) /\ NoFault
       \/ container # "none" /\ StartThrows(t) /\ DockerStays /\ NoFault
       \/ StartThrows(t) /\ DockerStays /\ Fault
    /\ UNCHANGED <<fixed, failures, probes, requests>>

\* The first attempt forgives a container that runs already or has gone.
StartContainer(t) ==
    /\ At(t, "start")
    /\ \/ /\ ~Gone(t) /\ container # "running"
          /\ DockerHas("running")
          /\ handler' = Goes(t, "ready")
          /\ UNCHANGED <<status, lock>> /\ NoFault
       \/ /\ ~Gone(t) /\ container = "running" /\ ~handler[t].retry
          /\ handler' = Goes(t, "ready")
          /\ DockerStays /\ UNCHANGED <<status, lock>> /\ NoFault
       \/ /\ Gone(t) /\ ~handler[t].retry
          /\ handler' = Goes(t, "reclear")
          /\ DockerStays /\ UNCHANGED <<status, lock>> /\ NoFault
       \/ /\ handler[t].retry /\ (Gone(t) \/ container = "running")
          /\ StartThrows(t) /\ DockerStays /\ NoFault
       \/ StartThrows(t) /\ DockerStays /\ Fault
    /\ UNCHANGED <<fixed, failures, probes, requests>>

Reclear(t) ==
    /\ At(t, "reclear")
    /\ ForceRemoved([Goes(t, "inspect") EXCEPT ![t].retry = TRUE, ![t].holds = "nothing"])
    /\ UNCHANGED <<fixed, status, lock, failures, probes, requests>>

\* Docker shows t a container that runs.
Shows(t, before) == handler' = Goes(t, "live") /\ current' = before \cup {t}

\* A start that does not wait for its container.
ReadyAtOnce(t) ==
    /\ At(t, "ready")
    /\ Shows(t, current)
    /\ UNCHANGED <<fixed, status, lock, container, loops, budget>>

\* waitForContainerReadiness: a container that runs counts as started once it is
\* healthy, or after 30 s.
Ready(t) ==
    /\ At(t, "ready")
    /\ \/ ~Gone(t) /\ container = "running" /\ Shows(t, current) /\ NoFault
       \/ /\ Gone(t) \/ container = "exited"
          /\ handler' = Goes(t, "dead") /\ UNCHANGED current /\ NoFault
       \/ handler' = Goes(t, "dead") /\ UNCHANGED current /\ Fault
    /\ UNCHANGED <<fixed, status, lock, container, loops, requests>>

\* composeUp: a failed one may have brought up some containers or all, and one
\* whose env file cannot be written throws and leaves the row at "starting".
Up(t) ==
    /\ At(t, "up")
    /\ \/ /\ DockerBecomes("running") /\ Shows(t, Remain("running"))
          /\ UNCHANGED lock /\ NoFault
       \/ /\ Fault
          /\ \E c \in {container, "running", "failed"} : DockerHas(c)
          /\ handler' = Goes(t, "dead") /\ UNCHANGED lock
       \/ Fault /\ DockerStays /\ handler' = Left(t) /\ Unlocks(t)
    /\ UNCHANGED <<fixed, status, failures, probes, requests>>

\* The row is written on the answer, whatever Docker has by now.  Nobody asks for
\* the containers of a stack after its up.
Live(t) ==
    /\ At(t, "live")
    /\ status' = "running"
    /\ handler' = Left(t)
    /\ Unlocks(t)
    /\ current' = current \ {t}
    /\ NoFault
    /\ UNCHANGED <<fixed, container, loops, requests>>

Dead(t) ==
    /\ At(t, "dead")
    /\ StartThrows(t)
    /\ NoFault
    /\ UNCHANGED <<fixed, docker, loops, requests>>

HandlerStep(t) ==
    \/ Halting(t) \/ Removing(t) \/ ComposeStop(t) \/ Stopped(t)
    \/ Deps(t) \/ Image(t) \/ Inspect(t) \/ Halt(t) \/ Drop(t)
    \/ Create(t) \/ Clear(t) \/ CreateAgain(t)
    \/ StartContainer(t) \/ Reclear(t) \/ Ready(t) \/ Up(t)
    \/ Live(t) \/ Dead(t)

-----------------------------------------------------------------------------
(* What happens to the container from outside. *)

External ==
    /\ \/ /\ container = "running"
          /\ DockerHas("exited")
          /\ UNCHANGED handler
       \/ /\ container = "running" /\ kind = "compose"
          /\ DockerHas("failed")
          /\ UNCHANGED handler
       \/ /\ container \in {"exited", "failed"}
          /\ DockerHas("running")
          /\ UNCHANGED handler
       \/ /\ container # "none"
          /\ DockerHas("none")
          /\ handler' = Stale(handler)
    /\ Fault
    /\ UNCHANGED <<fixed, status, lock, failures, probes, requests>>

-----------------------------------------------------------------------------
(* Observing Docker. *)

\* listLiveAdoptableContainers takes an unreachable Docker for an empty list;
\* observeComposeStatus does not know, and neither for a stack without containers.
Observation ==
    IF container = "running" THEN "running"
    ELSE IF kind = "docker" \/ container \notin {"none", "failed"} THEN "stopped"
    ELSE IF container = "none" THEN "unknown" ELSE "crashed"

FailedObservation == IF kind = "docker" THEN "stopped" ELSE "unknown"

\* The watch before and after the answer.
Answers(asked, answered) ==
    \/ /\ NoFault
       /\ answered = [asked EXCEPT !.at = "answered", !.seen = Observation, !.fresh = TRUE]
    \/ /\ Fault
       /\ answered = [asked EXCEPT !.at = "answered", !.seen = FailedObservation]

InTransition(s) == s \in {"starting", "stopping"}

\* A tick.  For a stack the row is read before compose is asked, and one that is
\* in transition is passed over.
DriftTick ==
    /\ drift.at = "idle"
    /\ kind = "compose" => ~InTransition(status)
    /\ drift' = [Quiet EXCEPT !.at = "asked",
                              !.row = IF kind = "compose" THEN status ELSE @]
    /\ UNCHANGED <<fixed, status, lock, docker, handler, boot, failures, probes, budget>>

DriftAnswered ==
    /\ drift.at = "asked"
    /\ Answers(drift, drift')
    /\ UNCHANGED <<fixed, status, lock, docker, handler, boot, failures, probes, requests>>

\* A drift check that only adopts what runs.
DriftAdopts ==
    IF drift.seen = "running" /\ ~InTransition(status) THEN "running" ELSE status

\* For a container the row is read after the list.
DriftVerdict ==
    IF kind = "docker"
    THEN IF InTransition(status) THEN status
         ELSE IF drift.seen = "running" THEN "running"
         ELSE IF status = "running" THEN "stopped" ELSE status
    ELSE IF drift.seen \in {"unknown", drift.row} THEN status ELSE drift.seen

DriftWrites ==
    /\ drift.at = "answered"
    /\ status' = DriftVerdict
    /\ drift' = Quiet
    /\ UNCHANGED <<fixed, lock, docker, handler, boot, failures, probes, budget>>

-----------------------------------------------------------------------------
(* startHealthcheckLoop. *)

\* A tick probes a running service and forgets the failures of any other.
HealthTick ==
    /\ health # "none"
    /\ \/ status = "running" /\ probes < MaxProbes /\ probes' = probes + 1 /\ UNCHANGED failures
       \/ status # "running" /\ failures # 0 /\ failures' = 0 /\ UNCHANGED probes
    /\ UNCHANGED <<fixed, status, lock, docker, handler, boot, drift, budget>>

ProbeAnswered ==
    /\ probes > 0
    /\ health = "well" /\ container = "running"
    /\ probes' = probes - 1
    /\ failures' = 0
    /\ UNCHANGED <<fixed, status, lock, docker, handler, boot, drift, budget>>

\* The count with one more failure; above the threshold counts are not told apart.
Counted == IF failures < FAILURE_THRESHOLD THEN failures + 1 ELSE failures

\* A count that acts on the threshold only when it is reached.
ReachesOnce == failures + 1 = FAILURE_THRESHOLD

ReachesThreshold == Counted = FAILURE_THRESHOLD

\* While the lock is held nothing is done and the count stays.
ProbeFails ==
    /\ probes > 0
    /\ probes' = probes - 1
    /\ IF health = "sick" \/ container # "running" THEN NoFault ELSE Fault
    /\ \/ /\ ~ReachesThreshold \/ lock
          /\ failures' = Counted
          /\ UNCHANGED <<status, lock, handler>>
       \/ /\ ReachesThreshold /\ ~lock
          /\ failures' = 0
          /\ Begins("health", "restart")
    /\ UNCHANGED <<fixed, docker, boot, drift, requests>>

-----------------------------------------------------------------------------
(* reconcileRuntimeStateOnBoot, while the routes and the loops are up. *)

\* For a stack the row is read and then compose is asked.
BootReads ==
    /\ boot.at = "waiting"
    /\ boot' = [boot EXCEPT !.at = "asked", !.row = status]
    /\ UNCHANGED <<fixed, status, lock, docker, handler, drift, failures, probes, budget>>

BootAnswered ==
    /\ boot.at = "asked"
    /\ Answers(boot, boot')
    /\ UNCHANGED <<fixed, status, lock, docker, handler, drift, failures, probes, requests>>

\* A container that runs is asked for its restart policy before its row is written.
BootReadsRow ==
    /\ boot.at = "answered"
    /\ kind = "docker" /\ boot.seen = "running"
    /\ boot' = [boot EXCEPT !.at = "adopting", !.row = status]
    /\ UNCHANGED <<fixed, status, lock, docker, handler, drift, failures, probes, budget>>

BootAdopts ==
    /\ boot.at = IF kind = "docker" THEN "adopting" ELSE "answered"
    /\ boot.seen = "running"
    /\ status' = IF boot.row = "running" THEN status ELSE "running"
    /\ boot' = Quiet
    /\ UNCHANGED <<fixed, lock, docker, handler, drift, failures, probes, budget>>

\* Nothing runs: a row at "running" is corrected, and an automatic one started.
BootStarts ==
    /\ boot.at = "answered"
    /\ boot.seen # "running"
    /\ boot' = Quiet
    /\ status' = IF "running" = (IF kind = "docker" THEN status ELSE boot.row)
                 THEN "stopped" ELSE status
    /\ IF auto /\ ~lock
       THEN /\ lock' = TRUE
            /\ handler' = [handler EXCEPT !["boot"] = [Idle EXCEPT !.op = "start", !.at = "deps"]]
       ELSE UNCHANGED <<lock, handler>>
    /\ UNCHANGED <<fixed, docker, drift, failures, probes, budget>>

-----------------------------------------------------------------------------

\* The daemon has just come up, over whatever Docker and the row have become.
Init ==
    /\ kind \in {"docker", "compose"}
    /\ auto \in BOOLEAN
    /\ health \in {"none", "sick", "well"}
    /\ status \in Status
    /\ container \in States
    /\ kind = "docker" => container # "failed"
    /\ kind = "compose" => container # "created" /\ status # "error"
    /\ current = {}
    /\ lock = FALSE
    /\ handler = [t \in Handlers |-> Idle]
    /\ boot = [Quiet EXCEPT !.at = IF kind = "docker" THEN "asked" ELSE "waiting"]
    /\ drift = Quiet
    /\ failures = 0
    /\ probes = 0
    /\ requests = 0 /\ faults = 0

Next ==
    \/ \E u \in Users : Request(u)
    \/ \E t \in Handlers : HandlerStep(t)
    \/ External
    \/ DriftTick \/ DriftAnswered \/ DriftWrites
    \/ HealthTick \/ ProbeAnswered \/ ProbeFails
    \/ BootReads \/ BootAnswered \/ BootReadsRow \/ BootAdopts \/ BootStarts

Spec == Init /\ [][Next]_vars

\* Calls are answered, intervals fire, probes end by their timeout.
Fairness ==
    /\ \A t \in Handlers : WF_vars(HandlerStep(t))
    /\ WF_vars(DriftTick) /\ WF_vars(DriftAnswered) /\ WF_vars(DriftWrites)
    /\ WF_vars(HealthTick) /\ WF_vars(ProbeAnswered \/ ProbeFails)
    /\ WF_vars(BootReads \/ BootAnswered \/ BootReadsRow \/ BootAdopts \/ BootStarts)

FairSpec == Spec /\ Fairness

-----------------------------------------------------------------------------
(* Properties. *)

Agrees == status = "running" <=> container = "running"

\* A settled status that is written is true, whoever writes it, except by a stop
\* that Docker refused or that ends over a container started meanwhile
\* (runtime.ts:1076), by a start that fails and leaves its container running
\* (runtime.ts:1010), by a start whose container ended after Docker had shown it
\* running, or whose stack did after its up (runtime.ts:1005, composeRuntime.ts:234),
\* by a list that failed (runtime.ts:1336) and by a drift check or boot whose answer
\* is older than the last change in Docker (runtime.ts:1570).
OnlyKnownMismarks ==
    [][status' # status /\ ~InTransition(status') /\ ~Agrees' =>
         \/ \E t \in Handlers : /\ handler[t].at = "stopped" /\ handler'[t] # handler[t]
                               /\ status' = "stopped"
         \/ \E t \in Handlers : /\ Active(t) /\ handler'[t].at = "idle"
                               /\ status' \in {"error", "crashed"}
         \/ \E t \in Handlers : /\ handler[t].at = "live" /\ handler'[t].at = "idle"
                               /\ t \notin current
         \/ drift.at = "answered" /\ ~drift.fresh
         \/ boot.at \in {"answered", "adopting"} /\ ~boot.fresh]_vars

\* A row at "starting" or "stopping" that no handler will move on: the loops pass
\* over it and boot only corrects "running".
Torn == InTransition(status) /\ \A t \in Handlers : ~Active(t)

\* A stack none of whose containers is left cannot be told from one that could not
\* be asked (composeRuntime.ts:277).
Vanished == kind = "compose" /\ container = "none"

\* "external docker stop / docker rm / crash-and-restart actions show up in the
\* dashboard within one tick" (runtime.ts:1556): however overlapped handlers,
\* failed lists and outside changes mark the row, the drift loop makes it agree
\* with Docker again, unless it is torn or its stack has vanished.
StatusConverges == []<>(Agrees \/ Torn \/ Vanished)

\* An app that runs and never answers is not left running for ever: its failures
\* reach the threshold, and a restart refused by a held lock (runtime.ts:1656) is
\* made up for by a later probe.
SickRestarts == []<>~(health = "sick" /\ status = "running" /\ container = "running")

\* "Forget services no longer eligible (stopped, healthcheck removed, etc.)"
\* (runtime.ts:1626): the healthcheck restarts only what the row says runs.  It is
\* not so: a probe sent before a stop that fails after it counts all the same
\* (runtime.ts:1656), as the failures before are forgotten at the next tick only.
OnlyEligibleRestarted ==
    [][~Active("health") /\ handler'["health"].op = "restart" => status = "running"]_vars
=============================================================================
