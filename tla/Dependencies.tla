---------------------------- MODULE Dependencies ----------------------------
(***************************************************************************)
(* Several services that depend on each other: startService,               *)
(* restartService and stopService of services/runtime.ts for many          *)
(* services, startDependencies with the locks it takes under the lock of   *)
(* its caller, the boot that starts services without awaiting them, the    *)
(* actions on a whole group or project (routes/serviceGroups.ts,           *)
(* routes/projects.ts) and the edits of depends_on.                        *)
(*                                                                         *)
(* A start or a restart holds the lock of its service, so its handler is   *)
(* named by that service, the root.  An action takes a handler from one    *)
(* await to the next.                                                      *)
(*                                                                         *)
(* Simplifications.                                                        *)
(*  - What it takes to start one service is ServiceRuntime's subject: here *)
(*    a start is under way, then succeeds or fails.  No force restart,     *)
(*    which breaks locks, and no backoff timers; an exit callback acts in  *)
(*    one step, some time after its instance has ended.                    *)
(*  - depends_on is a set: its members are visited in any order.  Names of *)
(*    services that do not exist are skipped by the code and left out.     *)
(*  - One stop of a service at a time, one bulk action at a time.          *)
(***************************************************************************)
EXTENDS Naturals, Sequences, FiniteSets

CONSTANTS
    Services,
    Processes,      \* the services of type process or static; others are in Docker
    NoService,
    MaxRequests,    \* bound: requests of users, edits included
    MaxFailures     \* bound: starts that fail, running services that crash

ASSUME ServicesAssumption == NoService \notin Services /\ Processes \subseteq Services
ASSUME BoundsAssumption == {MaxRequests, MaxFailures} \subseteq Nat

VARIABLES
    status,         \* services.status
    dependsOn,      \* services.depends_on
    locks,          \* ctx.actionLocks
    tracked,        \* ctx.runtimeProcesses: services with an instance in it
    ended,          \* those whose tracked instance has ended, exit not handled yet
    boot,           \* rows that reconcileRuntimeStateOnBoot is still to start
    handler,        \* the start or restart that holds the lock of each root
    stops,          \* services with a stopService in progress
    bulk,           \* the start-all, restart-all or stop-all in progress
    requests, failures

vars == <<status, dependsOn, locks, tracked, ended, boot, handler, stops, bulk,
          requests, failures>>

Status == {"stopped", "starting", "running", "stopping", "crashed"}

\* A call of startDependencies: the service it is about and the dependencies
\* still to visit; need, for the properties, are the ones it read, without those
\* that left "running" after it had visited them and those that it took for up
\* because their instance, which had ended, was still tracked.
FrameType == [svc : Services, todo : SUBSET Services, need : SUBSET Services]

\* The calls on the stack, innermost first; at is the await the handler is at:
\* the stop of a restart, the walk, the start of a dependency, its own start.
HandlerType == [at : {"idle", "stop", "deps", "dep", "own"},
                bulk : BOOLEAN,
                stack : Seq(FrameType)]

\* alone, for the properties: nothing but the action has happened since it began.
BulkType == [op : {"none", "start", "restart", "stop"},
             members : SUBSET Services, todo : SUBSET Services,
             now : Services \cup {NoService}, alone : BOOLEAN]

\* The calls on a stack are about different services, the last one about the root.
StackOf(r, stack) ==
    /\ stack # <<>> => stack[Len(stack)].svc = r
    /\ \A i, j \in DOMAIN stack : stack[i].svc = stack[j].svc => i = j

\* A walk that needs the stack has one.  The walk ends, whatever the graph and its
\* edits, because no service is on the stack twice (runtime.ts:1177).
TypeOK ==
    /\ status \in [Services -> Status]
    /\ dependsOn \in [Services -> SUBSET Services]
    /\ locks \subseteq Services
    /\ tracked \subseteq Processes
    /\ ended \subseteq tracked
    /\ boot \subseteq Services
    /\ handler \in [Services -> HandlerType]
    /\ \A r \in Services :
        /\ StackOf(r, handler[r].stack)
        /\ handler[r].at \in {"idle", "stop"} <=> handler[r].stack = <<>>
        /\ handler[r].at = "own" => Len(handler[r].stack) = 1
        /\ handler[r].at = "dep" => Len(handler[r].stack) > 1
    /\ stops \subseteq Services
    /\ bulk \in BulkType
    /\ requests \in 0..MaxRequests
    /\ failures \in 0..MaxFailures

Idle == [at |-> "idle", bulk |-> FALSE, stack |-> <<>>]
NoBulk == [op |-> "none", members |-> {}, todo |-> {}, now |-> NoService, alone |-> FALSE]

Active(r) == handler[r].at # "idle"
Top(r) == Head(handler[r].stack)
Visiting(r) == {handler[r].stack[i].svc : i \in DOMAIN handler[r].stack}
AtRoot(r) == Len(handler[r].stack) = 1
\* A dependency that is being started counts as up.
DownUnlessStarting(r) == {d \in Top(r).todo : status[d] \notin {"running", "starting"}}

Down(r) == {d \in Top(r).todo : status[d] # "running"}

Walked(r) == handler[r].at = "deps" /\ Down(r) = {}

\* The service whose runtime the handler is starting.
Starts(r) == CASE handler[r].at = "own" -> {r}
               [] handler[r].at = "dep" -> {Top(r).svc}
               [] OTHER -> {}

-----------------------------------------------------------------------------
(* Steps of handlers. *)

Call(s) == [svc |-> s, todo |-> dependsOn[s], need |-> dependsOn[s]]

\* All handlers hs, after the service s has left "running".
Fallen(hs, s) ==
    [r \in Services |->
        [hs[r] EXCEPT !.stack =
            [i \in DOMAIN hs[r].stack |->
                IF s \in hs[r].stack[i].todo THEN hs[r].stack[i]
                ELSE [hs[r].stack[i] EXCEPT !.need = @ \ {s}]]]]

\* The status of s becomes v while the handlers become hs.
Becomes(s, v, hs) ==
    /\ status' = [status EXCEPT ![s] = v]
    /\ handler' = IF status[s] = "running" /\ v # "running" THEN Fallen(hs, s) ELSE hs

Disturbed == [bulk EXCEPT !.alone = FALSE]

Asked ==
    /\ requests < MaxRequests
    /\ requests' = requests + 1

Fails ==
    /\ failures < MaxFailures
    /\ failures' = failures + 1

\* withLock of a start; the lock must be free.
Enter(r, inBulk) ==
    /\ r \notin locks
    /\ locks' = locks \cup {r}
    /\ handler' = [handler EXCEPT ![r] = [at |-> "deps", bulk |-> inBulk,
                                          stack |-> <<Call(r)>>]]
    /\ UNCHANGED <<status, tracked, ended>>

\* stopService untracks the instance first: its exit callback will do nothing.
Untrack(s) ==
    /\ tracked' = tracked \ {s}
    /\ ended' = ended \ {s}

\* The instance of a process service is spawned.
Track(s) ==
    /\ tracked' = tracked \cup ({s} \cap Processes)
    /\ UNCHANGED ended

\* withLock of a restart, which stops the service first.
EnterRestart(r, inBulk) ==
    /\ r \notin locks
    /\ locks' = locks \cup {r}
    /\ Becomes(r, "stopping",
               [handler EXCEPT ![r] = [at |-> "stop", bulk |-> inBulk, stack |-> <<>>]])
    /\ Untrack(r)

Start(r) ==
    /\ Asked
    /\ Enter(r, FALSE)
    /\ bulk' = Disturbed
    /\ UNCHANGED <<dependsOn, boot, stops, failures>>

Restart(r) ==
    /\ Asked
    /\ EnterRestart(r, FALSE)
    /\ bulk' = Disturbed
    /\ UNCHANGED <<dependsOn, boot, stops, failures>>

RestartStopped(r) ==
    /\ handler[r].at = "stop"
    /\ Becomes(r, "stopped",
               [handler EXCEPT ![r].at = "deps", ![r].stack = <<Call(r)>>])
    /\ UNCHANGED <<dependsOn, locks, tracked, ended, boot, stops, bulk, requests, failures>>

\* Boot does not await the starts it makes; a lock that is held refuses one.
BootStart(r) ==
    /\ r \in boot
    /\ boot' = boot \ {r}
    /\ bulk' = Disturbed
    /\ \/ Enter(r, FALSE)
       \/ r \in locks /\ UNCHANGED <<status, locks, tracked, ended, handler>>
    /\ UNCHANGED <<dependsOn, stops, requests, failures>>

\* The loop over the dependencies runs to its next await: it passes over those
\* that are running and calls itself for one that is not.
Recurse(r) ==
    /\ handler[r].at = "deps"
    /\ \E d \in Down(r) \ Visiting(r), passed \in SUBSET (Top(r).todo \ Down(r)) :
        handler' = [handler EXCEPT ![r].stack =
            <<Call(d), [Top(r) EXCEPT !.todo = @ \ ({d} \cup passed)]>> \o Tail(@)]
    /\ UNCHANGED <<status, dependsOn, locks, tracked, ended, boot, stops, bulk, requests, failures>>

\* A handler that keeps the services it was visiting.
LeaveVisiting(r, freed, hs) ==
    /\ locks' = locks \ ({r} \cup freed)
    /\ handler' = [hs EXCEPT ![r].at = "idle", ![r].bulk = FALSE]

\* A failed start that gives back the lock of its root only.
LeaveDepLocked(r, freed, hs) ==
    /\ locks' = locks \ {r}
    /\ handler' = [hs EXCEPT ![r] = Idle]

\* The handler ends: the finally of withLock gives its lock back, and a bulk
\* action goes on.
Leave(r, freed, hs) ==
    /\ locks' = locks \ ({r} \cup freed)
    /\ handler' = [hs EXCEPT ![r] = Idle]

BulkGoesOn(r) == bulk' = IF handler[r].bulk THEN [bulk EXCEPT !.now = NoService] ELSE bulk

CycleFound(r) ==
    /\ handler[r].at = "deps"
    /\ Down(r) \cap Visiting(r) # {}
    /\ Leave(r, {}, handler)
    /\ BulkGoesOn(r)
    /\ UNCHANGED <<status, dependsOn, tracked, ended, boot, stops, requests, failures>>

\* The lock of a dependency is held by somebody else: the whole start fails.
LockRefused(r) ==
    /\ Walked(r) /\ ~AtRoot(r)
    /\ Top(r).svc \in locks
    /\ Leave(r, {}, handler)
    /\ BulkGoesOn(r)
    /\ UNCHANGED <<status, dependsOn, tracked, ended, boot, stops, requests, failures>>

Pop(r, hs) == [hs EXCEPT ![r].at = "deps", ![r].stack = Tail(@)]

\* startProcessService comes as far as "starting".
Begin(s, at, r) ==
    /\ s \notin tracked
    /\ Becomes(s, "starting", [handler EXCEPT ![r].at = at])
    /\ UNCHANGED <<tracked, ended>>

StartDep(r) ==
    /\ Walked(r) /\ ~AtRoot(r)
    /\ Top(r).svc \notin locks
    /\ locks' = locks \cup {Top(r).svc}
    /\ Begin(Top(r).svc, "dep", r)
    /\ UNCHANGED <<dependsOn, boot, stops, bulk, requests, failures>>

\* An instance of the service is tracked: startProcessService returns at once,
\* whether the instance has ended or not.
DepUpAlready(r) ==
    /\ Walked(r) /\ ~AtRoot(r)
    /\ Top(r).svc \notin locks
    /\ Top(r).svc \in tracked
    /\ handler' = IF status[Top(r).svc] = "running" THEN Pop(r, handler)
                  ELSE [Pop(r, handler) EXCEPT ![r].stack[1].need = @ \ ({Top(r).svc} \cap ended)]
    /\ UNCHANGED <<status, dependsOn, locks, tracked, ended, boot, stops, bulk,
                   requests, failures>>

\* A dependency's lock that is given back only with the root's.
DepStartedLocked(r) ==
    /\ handler[r].at = "dep"
    /\ Becomes(Top(r).svc, "running", Pop(r, handler))
    /\ Track(Top(r).svc)
    /\ UNCHANGED <<dependsOn, locks, boot, stops, bulk, requests, failures>>

DepStarted(r) ==
    /\ handler[r].at = "dep"
    /\ locks' = locks \ {Top(r).svc}
    /\ Becomes(Top(r).svc, "running", Pop(r, handler))
    /\ Track(Top(r).svc)
    /\ UNCHANGED <<dependsOn, boot, stops, bulk, requests, failures>>

DepFailed(r) ==
    /\ handler[r].at = "dep"
    /\ Fails
    /\ status' = [status EXCEPT ![Top(r).svc] = "crashed"]
    /\ Leave(r, {Top(r).svc},
             IF status[Top(r).svc] = "running" THEN Fallen(handler, Top(r).svc) ELSE handler)
    /\ bulk' = [Disturbed EXCEPT !.now = IF handler[r].bulk THEN NoService ELSE @]
    /\ UNCHANGED <<dependsOn, tracked, ended, boot, stops, requests>>

StartOwn(r) ==
    /\ Walked(r) /\ AtRoot(r)
    /\ Begin(r, "own", r)
    /\ UNCHANGED <<dependsOn, locks, boot, stops, bulk, requests, failures>>

OwnUpAlready(r) ==
    /\ Walked(r) /\ AtRoot(r)
    /\ r \in tracked
    /\ Leave(r, {}, handler)
    /\ BulkGoesOn(r)
    /\ UNCHANGED <<status, dependsOn, tracked, ended, boot, stops, requests, failures>>

OwnStarted(r) ==
    /\ handler[r].at = "own"
    /\ status' = [status EXCEPT ![r] = "running"]
    /\ Track(r)
    /\ Leave(r, {}, handler)
    /\ BulkGoesOn(r)
    /\ UNCHANGED <<dependsOn, boot, stops, requests, failures>>

OwnFailed(r) ==
    /\ handler[r].at = "own"
    /\ Fails
    /\ status' = [status EXCEPT ![r] = "crashed"]
    /\ Leave(r, {}, IF status[r] = "running" THEN Fallen(handler, r) ELSE handler)
    /\ bulk' = [Disturbed EXCEPT !.now = IF handler[r].bulk THEN NoService ELSE @]
    /\ UNCHANGED <<dependsOn, tracked, ended, boot, stops, requests>>

HandlerStep(r) ==
    \/ RestartStopped(r) \/ Recurse(r) \/ CycleFound(r) \/ LockRefused(r)
    \/ StartDep(r) \/ DepUpAlready(r) \/ DepStarted(r) \/ DepFailed(r)
    \/ StartOwn(r) \/ OwnUpAlready(r) \/ OwnStarted(r) \/ OwnFailed(r)

-----------------------------------------------------------------------------
(* Stops take no lock. *)

StopBegins(s) ==
    /\ s \notin stops
    /\ stops' = stops \cup {s}
    /\ Becomes(s, "stopping", handler)
    /\ Untrack(s)

Stop(s) ==
    /\ Asked
    /\ StopBegins(s)
    /\ bulk' = Disturbed
    /\ UNCHANGED <<dependsOn, locks, boot, failures>>

\* Whatever the row names by now is killed: an instance that was started while
\* the stop waited is, and stays tracked until its exit is handled.
StopEnds(s) ==
    /\ s \in stops
    /\ stops' = stops \ {s}
    /\ Becomes(s, "stopped", handler)
    /\ ended' = ended \cup ({s} \cap tracked)
    /\ bulk' = IF bulk.op = "stop" /\ bulk.now = s THEN [bulk EXCEPT !.now = NoService] ELSE bulk
    /\ UNCHANGED <<dependsOn, locks, tracked, boot, requests, failures>>

\* The instance of a process service ends by itself; the row does not say so yet.
Dies(s) ==
    /\ s \in tracked \ ended
    /\ Fails
    /\ ended' = ended \cup {s}
    /\ bulk' = Disturbed
    /\ UNCHANGED <<status, dependsOn, locks, tracked, boot, handler, stops, requests>>

\* The exit callback, 500 ms after the exit.
ExitHandled(s) ==
    /\ s \in ended
    /\ \E v \in {"crashed", "stopped"} : Becomes(s, v, handler)
    /\ Untrack(s)
    /\ UNCHANGED <<dependsOn, locks, boot, stops, bulk, requests, failures>>

\* The drift loop finds that the container of a running service has ended.
ContainerEnds(s) ==
    /\ s \notin Processes
    /\ status[s] = "running"
    /\ Fails
    /\ Becomes(s, "stopped", handler)
    /\ bulk' = Disturbed
    /\ UNCHANGED <<dependsOn, locks, tracked, ended, boot, stops, requests>>

\* PATCH /services/:id; it looks for no cycle.
EditDependencies(s) ==
    /\ Asked
    /\ \E want \in SUBSET Services : dependsOn' = [dependsOn EXCEPT ![s] = want]
    /\ bulk' = Disturbed
    /\ UNCHANGED <<status, locks, tracked, ended, boot, handler, stops, failures>>

-----------------------------------------------------------------------------
(* Actions on all members of a group or project, one after the other. *)

BulkRequest(op) ==
    /\ bulk.op = "none"
    /\ Asked
    /\ \E members \in SUBSET Services \ {{}} :
        bulk' = [op |-> op, members |-> members, todo |-> members, now |-> NoService,
                 alone |-> /\ boot = {} /\ stops = {} /\ ended = {}
                           /\ \A r \in Services : ~Active(r)]
    /\ UNCHANGED <<status, dependsOn, locks, tracked, ended, boot, handler, stops, failures>>

\* A member that throws gets a failed result; the others follow all the same.
BulkNext(s) ==
    /\ bulk.op # "none" /\ bulk.now = NoService
    /\ s \in bulk.todo
    /\ \/ /\ bulk.op = "start"
          /\ Enter(s, TRUE)
          /\ bulk' = [bulk EXCEPT !.todo = @ \ {s}, !.now = s]
          /\ UNCHANGED stops
       \/ /\ bulk.op = "restart"
          /\ EnterRestart(s, TRUE)
          /\ bulk' = [bulk EXCEPT !.todo = @ \ {s}, !.now = s]
          /\ UNCHANGED stops
       \/ /\ bulk.op = "stop"
          /\ StopBegins(s)
          /\ bulk' = [bulk EXCEPT !.todo = @ \ {s}, !.now = s]
          /\ UNCHANGED locks
       \/ /\ bulk.op \in {"start", "restart"} /\ s \in locks
          /\ bulk' = [bulk EXCEPT !.todo = @ \ {s}]
          /\ UNCHANGED <<status, locks, tracked, ended, handler, stops>>
    /\ UNCHANGED <<dependsOn, boot, requests, failures>>

BulkEnds ==
    /\ bulk.op # "none" /\ bulk.now = NoService /\ bulk.todo = {}
    /\ bulk' = NoBulk
    /\ UNCHANGED <<status, dependsOn, locks, tracked, ended, boot, handler, stops,
                   requests, failures>>

-----------------------------------------------------------------------------

\* Any dependencies, cycles included; the rows boot is to start are stopped, and
\* what it found running is adopted, not tracked.
Init ==
    /\ status \in [Services -> {"stopped", "running"}]
    /\ dependsOn \in [Services -> SUBSET Services]
    /\ boot \in SUBSET {s \in Services : status[s] = "stopped"}
    /\ locks = {}
    /\ tracked = {}
    /\ ended = {}
    /\ handler = [s \in Services |-> Idle]
    /\ stops = {}
    /\ bulk = NoBulk
    /\ requests = 0
    /\ failures = 0

Next ==
    \/ \E s \in Services :
        \/ Start(s) \/ Restart(s) \/ BootStart(s) \/ HandlerStep(s)
        \/ Stop(s) \/ StopEnds(s) \/ Dies(s) \/ ExitHandled(s) \/ ContainerEnds(s)
        \/ EditDependencies(s) \/ BulkNext(s)
    \/ \E op \in {"start", "restart", "stop"} : BulkRequest(op)
    \/ BulkEnds

Spec == Init /\ [][Next]_vars

-----------------------------------------------------------------------------
(* Properties. *)

\* No dependency leads back to the service.
Acyclic == \E rank \in [Services -> 1..Cardinality(Services)] :
              \A s \in Services : \A d \in dependsOn[s] : rank[d] < rank[s]

\* The locks are those of the handlers in progress and of the dependencies they
\* are starting, and no service is started by two handlers at once, although
\* startDependencies takes the lock of a dependency under that of its caller
\* (runtime.ts:424, 1198) and every error gives both back.
LocksHeld ==
    /\ locks = {r \in Services : Active(r)} \cup UNION {Starts(r) : r \in Services}
    /\ \A r \in Services :
        /\ handler[r].at = "dep" => ~Active(Top(r).svc)
        /\ \A q \in Services \ {r} : Starts(r) \cap Starts(q) = {}

\* "When starting a service, ensure its dependencies are running first"
\* (ROADMAP.md:421): when the runtime of a service is started, each dependency
\* its handler read is shown running, or has been and went down in the meantime;
\* or its instance had ended but was still tracked when its turn came, so that it
\* was taken for up and not started.
StartedAfterDependencies ==
    [][\A r \in Services :
         handler'[r].at \in {"dep", "own"} /\ handler[r].at = "deps" =>
            \A d \in Top(r).need : status[d] = "running"]_vars

\* A start-all or restart-all that nothing else meets leaves all its members
\* running, in whatever order it takes them: each start brings up its dependencies,
\* the locks it took are free again before the next one, and none takes down what
\* an earlier one brought up (routes/serviceGroups.ts:134).
StartAllStarts ==
    bulk.op \in {"start", "restart"} /\ bulk.todo = {} /\ bulk.now = NoService
        /\ bulk.alone /\ Acyclic
        => \A s \in bulk.members : status[s] = "running"
=============================================================================
