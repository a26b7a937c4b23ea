------------------------ MODULE ContainerWatchProofs ------------------------
(***************************************************************************)
(* Theorems about ContainerWatch: type correctness, with it that the lock  *)
(* of the service is held exactly while a start or a restart is in         *)
(* progress, and that a settled status that is wrong is written in the     *)
(* listed ways only; for any users, requests and bounds.                   *)
(***************************************************************************)
EXTENDS ContainerWatch, TLAPS

Static ==
    /\ kind \in {"docker", "compose"}
    /\ auto \in BOOLEAN
    /\ health \in {"none", "sick", "well"}
    /\ status \in Status
    /\ container \in States
    /\ failures \in 0..FAILURE_THRESHOLD
    /\ probes \in 0..MaxProbes
    /\ requests \in 0..MaxRequests
    /\ faults \in 0..MaxFaults

SoundHandler ==
    {h \in HandlerType : /\ h.op = "none" <=> h.at = "idle"
                         /\ h.at \in {"start", "ready"} => h.holds # "nothing"}

Locker(h) == h.op \in {"start", "restart"}

(* One handler at most is inside the lock: the end of another would free it.*)
Locked ==
    /\ handler \in [Handlers -> SoundHandler]
    /\ lock \in BOOLEAN
    /\ lock <=> \E t \in Handlers : Locker(handler[t])
    /\ \A t, u \in Handlers : Locker(handler[t]) /\ Locker(handler[u]) => t = u

(* An observation that is fresh is true. *)
SoundWatch(w) ==
    /\ w \in WatchType
    /\ w.fresh => /\ w.at \in {"answered", "adopting"}
                  /\ w.seen = "running" <=> container = "running"

(* A start that is shown a container has one that runs. *)
Watched ==
    /\ SoundWatch(boot) /\ SoundWatch(drift)
    /\ current \subseteq Handlers
    /\ current # {} => container = "running"

IInv == Static /\ Locked /\ Watched

LEMMA IInvTypes == IInv => TypeOK
BY DEF IInv, Static, Locked, Watched, SoundWatch, SoundHandler, Locker, TypeOK

------------------------------------------------------------------------------
(* Handlers. *)

(* ks are the handlers hs, some of which have moved on. *)
Moved(hs, ks) ==
    /\ ks \in [Handlers -> SoundHandler]
    /\ \A u \in Handlers : ks[u].op = hs[u].op

LEMMA IdleSound == Idle \in SoundHandler /\ Idle.op = "none" /\ Idle.at = "idle"
BY DEF Idle, SoundHandler, HandlerType, Places

LEMMA PlaceSound ==
    ASSUME NEW h \in SoundHandler, h.at # "idle",
           NEW place \in Places \ {"idle", "start", "ready"}
    PROVE  /\ [h EXCEPT !.at = place] \in SoundHandler
           /\ [h EXCEPT !.at = place].op = h.op
BY DEF SoundHandler, HandlerType, Places

LEMMA GoesMoves ==
    ASSUME Locked, NEW t \in Handlers, Active(t),
           NEW place \in Places \ {"idle", "start", "ready"}
    PROVE  Moved(handler, Goes(t, place))
<1>1. [handler[t] EXCEPT !.at = place] \in SoundHandler /\ [handler[t] EXCEPT !.at = place].op = handler[t].op
  BY PlaceSound DEF Locked, Active
<1> QED
  BY <1>1 DEF Moved, Goes, Locked

LEMMA StaleMoves ==
    ASSUME NEW hs \in [Handlers -> SoundHandler]
    PROVE  Moved(hs, Stale(hs)) /\ \A u \in Handlers : Stale(hs)[u].at = hs[u].at
<1>1. ASSUME NEW h \in SoundHandler, h.holds = "id"
      PROVE  /\ [h EXCEPT !.holds = "gone"] \in SoundHandler
             /\ [h EXCEPT !.holds = "gone"].op = h.op
             /\ [h EXCEPT !.holds = "gone"].at = h.at
  BY <1>1 DEF SoundHandler, HandlerType
<1> QED
  BY <1>1 DEF Moved, Stale

LEMMA MovesLocked ==
    ASSUME Locked, Moved(handler, handler'), UNCHANGED lock
    PROVE  Locked'
BY DEF Locked, Moved, Locker

LEMMA StaysLocked ==
    ASSUME Locked, UNCHANGED <<handler, lock>>
    PROVE  Locked'
BY DEF Locked, Locker

LEMMA LeavesLocked ==
    ASSUME Locked, NEW t \in Handlers, Active(t), NEW hs, Moved(handler, hs),
           handler' = [hs EXCEPT ![t] = Idle], Unlocks(t)
    PROVE  Locked'
<1>1. handler[t].op \in {"start", "restart", "stop"}
  BY DEF Locked, Active, SoundHandler, HandlerType
<1>2. /\ handler' \in [Handlers -> SoundHandler]
      /\ handler'[t].op = "none"
      /\ \A u \in Handlers \ {t} : handler'[u].op = handler[u].op
  BY IdleSound DEF Moved
<1> HIDE DEF Moved
<1> QED
  BY <1>1, <1>2 DEF Locked, Locker, Unlocks

LEMMA LeftLocked ==
    ASSUME Locked, NEW t \in Handlers, Active(t), handler' = Left(t), Unlocks(t)
    PROVE  Locked'
<1>1. Moved(handler, handler)
  BY DEF Moved, Locked
<1> QED
  BY <1>1, LeavesLocked DEF Left

LEMMA BeginsLocked ==
    ASSUME Locked, NEW t \in Handlers, NEW op \in {"start", "stop", "restart"}, Begins(t, op)
    PROVE  Locked'
<1> DEFINE h == [Idle EXCEPT !.op = op, !.at = IF op = "start" THEN "deps" ELSE StopPlace]
<1>1. h \in SoundHandler /\ h.op = op
  BY DEF Idle, SoundHandler, HandlerType, Places, StopPlace
<1>2. handler' = [handler EXCEPT ![t] = h] /\ ~Active(t) /\ lock' = (lock \/ op # "stop")
      /\ (op # "stop" => ~lock)
  BY DEF Begins
<1> HIDE DEF h
<1>3. /\ handler' \in [Handlers -> SoundHandler]
      /\ handler'[t].op = op
      /\ \A u \in Handlers \ {t} : handler'[u].op = handler[u].op
  BY <1>1, <1>2 DEF Locked
<1>4. handler[t].op = "none"
  BY <1>2 DEF Locked, Active, SoundHandler
<1> QED
  BY <1>2, <1>3, <1>4 DEF Locked, Locker

------------------------------------------------------------------------------
(* Observations. *)

LEMMA OldSound ==
    ASSUME NEW w \in WatchType
    PROVE  /\ [w EXCEPT !.fresh = FALSE] \in WatchType
           /\ [w EXCEPT !.fresh = FALSE].fresh = FALSE
BY DEF WatchType

LEMMA DockerWatched ==
    ASSUME Watched, NEW c, DockerHas(c)
    PROVE  Watched'
<1>1. CASE c = container
  BY <1>1 DEF Watched, SoundWatch, DockerHas, DockerBecomes, Remain
<1>2. CASE c # container
  BY <1>2, OldSound DEF Watched, SoundWatch, DockerHas, DockerBecomes, Remain
<1> QED BY <1>1, <1>2

(* The answer that t waits for shows it a container that runs. *)
LEMMA ShowsWatched ==
    ASSUME Watched, NEW t \in Handlers, DockerBecomes("running"),
           Shows(t, Remain("running"))
    PROVE  Watched'
<1>1. CASE container = "running"
  BY <1>1 DEF Watched, SoundWatch, DockerBecomes, Remain, Shows
<1>2. CASE container # "running"
  BY <1>2, OldSound DEF Watched, SoundWatch, DockerBecomes, Remain, Shows
<1> QED BY <1>1, <1>2

LEMMA StaysWatched ==
    ASSUME Watched, DockerStays
    PROVE  Watched'
BY DEF Watched, SoundWatch, DockerStays, docker

LEMMA QuietSound == Quiet \in WatchType /\ Quiet.fresh = FALSE
BY DEF Quiet, WatchType, Status, Observed

LEMMA ObservationSound ==
    /\ Observation \in Observed /\ FailedObservation \in Observed
    /\ Observation = "running" <=> container = "running"
<1>1. FailedObservation \in Observed
  BY DEF FailedObservation, Observed
<1>2. CASE container = "running"
  <2>1. Observation = "running"
    BY <1>2 DEF Observation
  <2> QED BY <1>1, <1>2, <2>1 DEF Observed
<1>3. CASE container # "running"
  <2>1. Observation \in {"stopped", "unknown", "crashed"}
    BY <1>3 DEF Observation
  <2> QED BY <1>1, <1>3, <2>1 DEF Observed
<1> QED BY <1>2, <1>3

LEMMA AnswersSound ==
    ASSUME NEW asked \in WatchType, asked.fresh = FALSE, NEW answered, Answers(asked, answered)
    PROVE  /\ answered \in WatchType
           /\ answered.at = "answered"
           /\ answered.fresh => (answered.seen = "running" <=> container = "running")
<1>1. CASE answered = [asked EXCEPT !.at = "answered", !.seen = Observation, !.fresh = TRUE]
  <2>1. answered \in WatchType /\ answered.at = "answered" /\ answered.seen = Observation
    BY <1>1, ObservationSound DEF WatchType
  <2> QED BY <2>1, ObservationSound
<1>2. CASE answered = [asked EXCEPT !.at = "answered", !.seen = FailedObservation]
  BY <1>2, ObservationSound DEF WatchType
<1> QED
  BY <1>1, <1>2 DEF Answers

------------------------------------------------------------------------------
(* Each action. *)

LEMMA InitSound == Init => IInv
<1> SUFFICES ASSUME Init PROVE IInv
  OBVIOUS
<1> USE DEF Init
<1>1. Static
  BY BoundsAssumption, ThresholdAssumption DEF Static, States
<1>2. Locked
  BY IdleSound DEF Locked, Locker
<1>3. SoundWatch(drift)
  BY QuietSound DEF SoundWatch
<1>4. SoundWatch(boot)
  <2>1. [Quiet EXCEPT !.at = "asked"] \in WatchType /\ [Quiet EXCEPT !.at = "asked"].fresh = FALSE
    BY QuietSound DEF WatchType
  <2>2. [Quiet EXCEPT !.at = "waiting"] \in WatchType /\ [Quiet EXCEPT !.at = "waiting"].fresh = FALSE
    BY QuietSound DEF WatchType
  <2>3. boot \in {[Quiet EXCEPT !.at = "asked"], [Quiet EXCEPT !.at = "waiting"]}
    OBVIOUS
  <2> HIDE DEF Init
  <2> QED BY <2>1, <2>2, <2>3 DEF SoundWatch
<1> QED BY <1>1, <1>2, <1>3, <1>4 DEF IInv, Watched

LEMMA HandlerMoves == ASSUME Locked PROVE Moved(handler, handler)
BY DEF Moved, Locked

LEMMA StaleHandler ==
    ASSUME Locked
    PROVE  Moved(handler, Stale(handler)) /\ \A u \in Handlers : Stale(handler)[u].at = handler[u].at
BY StaleMoves DEF Locked

LEMMA RemovedLocked ==
    ASSUME Locked, NEW hs, Moved(handler, hs), ForceRemoved(hs), UNCHANGED lock
    PROVE  Locked'
<1>1. Moved(handler, Stale(hs))
  BY StaleMoves DEF Moved
<1> QED BY <1>1, MovesLocked DEF ForceRemoved

LEMMA RemovedWatched ==
    ASSUME Watched, Static, NEW hs, ForceRemoved(hs)
    PROVE  Watched' /\ container' \in States /\ faults' \in 0..MaxFaults
BY DockerWatched, StaysWatched, BoundsAssumption
   DEF ForceRemoved, DockerHas, DockerBecomes, DockerStays, docker, Static, States, Fault, NoFault

LEMMA FaultsBounded ==
    ASSUME Static, Fault \/ NoFault
    PROVE  faults' \in 0..MaxFaults
BY BoundsAssumption DEF Static, Fault, NoFault

(* Static, when only what a handler may change does. *)
LEMMA HandlerStatic ==
    ASSUME Static, status' \in Status, container' \in States, Fault \/ NoFault,
           UNCHANGED <<fixed, failures, probes, requests>>
    PROVE  Static'
BY FaultsBounded DEF Static, fixed

LEMMA HandlerStepSound ==
    ASSUME IInv, NEW t \in Handlers, HandlerStep(t)
    PROVE  IInv'
<1>0. Static /\ Locked /\ Watched /\ Moved(handler, handler)
  BY HandlerMoves DEF IInv
<1>d. ASSUME NEW c \in States, DockerHas(c) PROVE Watched' /\ container' \in States
  BY <1>0, <1>d, DockerWatched DEF DockerHas, DockerBecomes
<1>s. ASSUME DockerStays PROVE Watched' /\ container' \in States
  BY <1>0, <1>s, StaysWatched DEF DockerStays, docker, Static
<1>l. ASSUME UNCHANGED <<docker, loops>> PROVE Watched' /\ container' \in States
  BY <1>s, <1>l DEF DockerStays, loops
<1>t. ASSUME Active(t), StartThrows(t) PROVE Locked' /\ status' \in Status
  BY <1>0, <1>t, LeftLocked DEF StartThrows, Status
<1>g. ASSUME Active(t), NEW place \in Places \ {"idle", "start", "ready"},
             handler' = Goes(t, place), UNCHANGED lock
      PROVE  Locked'
  BY <1>0, <1>g, GoesMoves, MovesLocked
<1>n. {"none", "created", "running", "exited", "failed", container} \subseteq States
  BY <1>0 DEF Static, States
<1>c. UNCHANGED status => status' \in Status
  BY <1>0 DEF Static
<1>1. CASE Halting(t)
  <2>1. Locked'
    BY <1>1, <1>g DEF Halting, At, Active, Places
  <2>2. Watched' /\ container' \in States
    BY <1>1, <1>d, <1>s, <1>n DEF Halting
  <2> QED BY <1>0, <1>1, <1>c, <2>1, <2>2, HandlerStatic DEF IInv, Halting
<1>2. CASE Removing(t)
  <2>1. Moved(handler, Goes(t, "stopped"))
    BY <1>0, <1>2, GoesMoves DEF Removing, At, Active, Places
  <2>2. Moved(handler, Stale(Goes(t, "stopped")))
    BY <2>1, StaleMoves DEF Moved
  <2>3. Locked'
    BY <1>0, <1>2, <2>1, <2>2, MovesLocked DEF Removing
  <2>4. Watched' /\ container' \in States
    BY <1>2, <1>d, <1>s, <1>n DEF Removing
  <2> QED BY <1>0, <1>2, <1>c, <2>3, <2>4, HandlerStatic DEF IInv, Removing
<1>3. CASE ComposeStop(t)
  <2>1. Locked'
    BY <1>0, <1>3, <1>g, LeftLocked DEF ComposeStop, At, Active, Places
  <2>2. Watched' /\ container' \in States
    BY <1>3, <1>d, <1>s, <1>n DEF ComposeStop
  <2> QED BY <1>0, <1>3, <1>c, <2>1, <2>2, HandlerStatic DEF IInv, ComposeStop
<1>16. CASE Stopped(t)
  <2>1. ASSUME handler[t].op = "stop" PROVE Locked'
    <3>1. Active(t) /\ handler' = Left(t) /\ Unlocks(t)
      BY <1>0, <1>16, <2>1 DEF Stopped, At, Active, Unlocks, Locked
    <3> QED BY <1>0, <3>1, LeftLocked
  <2>2. ASSUME handler[t].op # "stop" PROVE Locked'
    BY <1>16, <1>g, <2>2 DEF Stopped, At, Active, Places
  <2>3. Watched' /\ container' \in States
    BY <1>16, <1>l DEF Stopped
  <2>4. Locked'
    BY <2>1, <2>2
  <2> QED BY <1>0, <1>16, <2>3, <2>4, HandlerStatic DEF IInv, Stopped, Status, loops
<1>4. CASE Deps(t)
  <2>1. Locked'
    BY <1>0, <1>4, <1>g, LeftLocked DEF Deps, At, Active, Places
  <2>2. Watched' /\ container' \in States
    BY <1>4, <1>l DEF Deps
  <2> QED BY <1>0, <1>4, <1>c, <2>1, <2>2, HandlerStatic DEF IInv, Deps, Status, loops
<1>5. CASE Image(t)
  <2>1. Locked' /\ status' \in Status
    BY <1>5, <1>g, <1>t, <1>c DEF Image, At, Active, Places
  <2>2. Watched' /\ container' \in States
    BY <1>5, <1>l DEF Image
  <2> QED BY <1>0, <1>5, <2>1, <2>2, HandlerStatic DEF IInv, Image, loops
<1>6. CASE Inspect(t)
  <2>1. ASSUME handler' = [Goes(t, "start") EXCEPT ![t].holds = "name"], UNCHANGED lock
        PROVE  Locked'
    <3>1. handler[t] \in SoundHandler /\ handler[t].at = "inspect"
      BY <1>0, <1>6 DEF Inspect, At, Locked
    <3> DEFINE h == [handler[t] EXCEPT !.at = "start", !.holds = "name"]
    <3>2. h \in SoundHandler /\ h.op = handler[t].op
      BY <3>1 DEF SoundHandler, HandlerType, Places
    <3>3. handler' = [handler EXCEPT ![t] = h]
      BY <1>0, <2>1 DEF Goes, Locked
    <3> HIDE DEF h
    <3>4. Moved(handler, handler')
      BY <1>0, <3>2, <3>3 DEF Moved, Locked
    <3> QED BY <1>0, <2>1, <3>4, MovesLocked
  <2>2. Locked'
    BY <1>6, <1>g, <2>1 DEF Inspect, At, Active, Places
  <2>3. Watched' /\ container' \in States
    BY <1>6, <1>l DEF Inspect
  <2> QED BY <1>0, <1>6, <1>c, <2>2, <2>3, HandlerStatic DEF IInv, Inspect, loops
<1>7. CASE Halt(t)
  <2>1. Locked'
    BY <1>7, <1>g DEF Halt, At, Active, Places
  <2>2. Watched' /\ container' \in States
    BY <1>7, <1>d, <1>s, <1>n DEF Halt
  <2> QED BY <1>0, <1>7, <1>c, <2>1, <2>2, HandlerStatic DEF IInv, Halt
<1>8. CASE Drop(t)
  <2>1. Moved(handler, Goes(t, "create"))
    BY <1>0, <1>8, GoesMoves DEF Drop, At, Active, Places
  <2>2. Locked' /\ Watched' /\ container' \in States
    BY <1>0, <1>8, <2>1, RemovedLocked, RemovedWatched DEF Drop
  <2> QED BY <1>0, <1>8, <1>c, <2>2, HandlerStatic DEF IInv, Drop, ForceRemoved
<1>9. CASE Clear(t)
  <2>1. Moved(handler, Goes(t, "createAgain"))
    BY <1>0, <1>9, GoesMoves DEF Clear, At, Active, Places
  <2>2. Locked' /\ Watched' /\ container' \in States
    BY <1>0, <1>9, <2>1, RemovedLocked, RemovedWatched DEF Clear
  <2> QED BY <1>0, <1>9, <1>c, <2>2, HandlerStatic DEF IInv, Clear, ForceRemoved
<1>m. ASSUME Active(t), Created(t) PROVE Locked' /\ Watched' /\ container' \in States /\ status' \in Status
  <2>1. handler[t] \in SoundHandler /\ handler[t].at # "idle"
    BY <1>0, <1>m DEF Active, Locked
  <2> DEFINE h == [handler[t] EXCEPT !.at = "start", !.holds = "id"]
  <2>2. h \in SoundHandler /\ h.op = handler[t].op
    BY <2>1 DEF SoundHandler, HandlerType, Places
  <2>3. handler' = [handler EXCEPT ![t] = h]
    BY <1>0, <1>m DEF Created, Goes, Locked
  <2> HIDE DEF h
  <2>4. Moved(handler, handler')
    BY <1>0, <2>2, <2>3 DEF Moved, Locked
  <2>5. Locked'
    BY <1>0, <1>m, <2>4, MovesLocked DEF Created
  <2> QED BY <1>c, <1>d, <1>m, <1>n, <2>5 DEF Created
<1>10. CASE Create(t)
  <2>1. Active(t)
    BY <1>10 DEF Create, At, Active
  <2>2. ASSUME handler' = Goes(t, "clear"), DockerStays, UNCHANGED <<status, lock>>
        PROVE  Locked' /\ Watched' /\ container' \in States /\ status' \in Status
    <3>1. "clear" \in Places \ {"idle", "start", "ready"}
      BY DEF Places
    <3> QED BY <1>c, <1>g, <1>s, <2>1, <2>2, <3>1
  <2>3. \/ Created(t)
        \/ handler' = Goes(t, "clear") /\ DockerStays /\ UNCHANGED <<status, lock>>
        \/ StartThrows(t) /\ DockerStays
    BY <1>10 DEF Create
  <2>4. Locked' /\ Watched' /\ container' \in States /\ status' \in Status
    BY <1>m, <1>t, <1>s, <2>1, <2>2, <2>3
  <2> QED BY <1>0, <1>10, <2>4, HandlerStatic DEF IInv, Create
<1>11. CASE CreateAgain(t)
  <2>1. Active(t)
    BY <1>11 DEF CreateAgain, At, Active
  <2>2. Locked' /\ Watched' /\ container' \in States /\ status' \in Status
    BY <1>11, <1>m, <1>t, <1>s, <2>1 DEF CreateAgain
  <2> QED BY <1>0, <1>11, <2>2, HandlerStatic DEF IInv, CreateAgain
<1>12. CASE StartContainer(t)
  <2>1. /\ Active(t) /\ handler[t] \in SoundHandler /\ handler[t].at = "start"
    BY <1>0, <1>12 DEF StartContainer, At, Active, Locked
  <2>2. [handler[t] EXCEPT !.at = "ready"] \in SoundHandler
        /\ [handler[t] EXCEPT !.at = "ready"].op = handler[t].op
    BY <2>1 DEF SoundHandler, HandlerType, Places
  <2>3. ASSUME handler' = Goes(t, "ready"), UNCHANGED <<status, lock>> PROVE Locked' /\ status' \in Status
    <3>1. Moved(handler, handler')
      BY <1>0, <2>2, <2>3 DEF Moved, Goes, Locked
    <3> QED BY <1>0, <1>c, <2>3, <3>1, MovesLocked
  <2>4. ASSUME handler' = Goes(t, "reclear"), UNCHANGED <<status, lock>> PROVE Locked' /\ status' \in Status
    BY <1>c, <1>g, <2>1, <2>4 DEF Places
  <2>5. \/ handler' = Goes(t, "ready") /\ UNCHANGED <<status, lock>>
        \/ handler' = Goes(t, "reclear") /\ UNCHANGED <<status, lock>>
        \/ StartThrows(t)
    BY <1>12 DEF StartContainer
  <2>6. DockerHas("running") \/ DockerStays
    BY <1>12 DEF StartContainer
  <2>7. Locked' /\ status' \in Status
    BY <1>t, <2>1, <2>3, <2>4, <2>5
  <2>8. Watched' /\ container' \in States
    BY <1>d, <1>s, <1>n, <2>6
  <2>9. (Fault \/ NoFault) /\ UNCHANGED <<fixed, failures, probes, requests>>
    BY <1>12 DEF StartContainer
  <2> QED BY <1>0, <2>7, <2>8, <2>9, HandlerStatic DEF IInv
<1>13. CASE Reclear(t)
  <2> DEFINE h == [handler[t] EXCEPT !.at = "inspect", !.retry = TRUE, !.holds = "nothing"]
             hs == [Goes(t, "inspect") EXCEPT ![t].retry = TRUE, ![t].holds = "nothing"]
  <2>1. handler[t] \in SoundHandler /\ handler[t].at = "reclear"
    BY <1>0, <1>13 DEF Reclear, At, Locked
  <2>2. h \in SoundHandler /\ h.op = handler[t].op
    BY <2>1 DEF SoundHandler, HandlerType, Places
  <2>3. hs = [handler EXCEPT ![t] = h]
    BY <1>0 DEF Goes, Locked
  <2>4. ForceRemoved(hs) /\ UNCHANGED <<fixed, status, lock, failures, probes, requests>>
    BY <1>13 DEF Reclear
  <2> HIDE DEF h, hs
  <2>5. Moved(handler, hs)
    BY <1>0, <2>2, <2>3 DEF Moved, Locked
  <2>6. Locked' /\ Watched' /\ container' \in States
    BY <1>0, <2>4, <2>5, RemovedLocked, RemovedWatched
  <2> QED BY <1>0, <1>c, <2>4, <2>6, HandlerStatic DEF IInv, ForceRemoved
<1>14. CASE Ready(t)
  <2>1. Active(t) /\ "live" \in Places \ {"idle", "start", "ready"}
                 /\ "dead" \in Places \ {"idle", "start", "ready"}
    BY <1>14 DEF Ready, At, Active, Places
  <2>2. Locked'
    BY <1>14, <1>g, <2>1 DEF Ready, Shows
  <2>3. Watched' /\ container' \in States
    <3>1. UNCHANGED <<container, boot, drift>>
      BY <1>14 DEF Ready, loops
    <3>2. \/ container = "running" /\ current' = current \cup {t}
          \/ UNCHANGED current
      BY <1>14 DEF Ready, Shows
    <3> QED BY <1>0, <3>1, <3>2 DEF Watched, SoundWatch, Static
  <2> QED BY <1>0, <1>14, <1>c, <2>2, <2>3, HandlerStatic DEF IInv, Ready, loops
<1>15. CASE Up(t)
  <2>1. Active(t) /\ "live" \in Places \ {"idle", "start", "ready"}
                 /\ "dead" \in Places \ {"idle", "start", "ready"}
    BY <1>15 DEF Up, At, Active, Places
  <2>2. Locked'
    BY <1>0, <1>15, <1>g, <2>1, LeftLocked DEF Up, Shows
  <2>3. ASSUME DockerBecomes("running"), Shows(t, Remain("running"))
        PROVE  Watched' /\ container' \in States
    BY <1>0, <2>3, <1>n, ShowsWatched DEF DockerBecomes
  <2>4. ASSUME \E c \in {container, "running", "failed"} : DockerHas(c)
        PROVE  Watched' /\ container' \in States
    BY <2>4, <1>d, <1>n
  <2>5. Watched' /\ container' \in States
    BY <1>15, <1>s, <2>3, <2>4 DEF Up
  <2> QED BY <1>0, <1>15, <1>c, <2>2, <2>5, HandlerStatic DEF IInv, Up
<1>17. CASE Live(t)
  <2>1. Locked'
    BY <1>0, <1>17, LeftLocked DEF Live, At, Active
  <2>2. Watched' /\ container' \in States
    BY <1>0, <1>17 DEF Live, loops, Watched, SoundWatch, Static
  <2> QED BY <1>0, <1>17, <2>1, <2>2, HandlerStatic DEF IInv, Live, Status, loops
<1>18. CASE Dead(t)
  <2>1. Locked' /\ status' \in Status
    BY <1>18, <1>t DEF Dead, At, Active
  <2>2. Watched' /\ container' \in States
    BY <1>18, <1>l DEF Dead
  <2> QED BY <1>0, <1>18, <2>1, <2>2, HandlerStatic DEF IInv, Dead, loops
<1> QED
  BY <1>1, <1>2, <1>3, <1>4, <1>5, <1>6, <1>7, <1>8, <1>9, <1>10, <1>11, <1>12, <1>13, <1>14, <1>15,
     <1>16, <1>17, <1>18
     DEF HandlerStep

LEMMA RequestSound == ASSUME IInv, NEW u \in Users, Request(u) PROVE IInv'
<1>0. Static /\ Locked /\ Watched
  BY DEF IInv
<1>1. PICK op \in {"start", "stop", "restart"} : Begins(u, op)
  BY RequestsAssumption DEF Request
<1>2. Locked'
  BY <1>0, <1>1, BeginsLocked DEF Handlers
<1>3. Watched'
  BY <1>0, StaysWatched DEF Request, DockerStays, loops
<1>4. requests' \in 0..MaxRequests
  BY <1>0, BoundsAssumption DEF Request, Asked, Static
<1> QED
  BY <1>0, <1>1, <1>2, <1>3, <1>4 DEF IInv, Static, Request, Asked, Begins, fixed, loops, docker, Status

LEMMA ExternalSound == ASSUME IInv, External PROVE IInv'
<1>0. Static /\ Locked /\ Watched
  BY DEF IInv
<1>1. PICK c \in {"exited", "failed", "running", "none"} : DockerHas(c)
  BY DEF External
<1>2. Watched' /\ container' \in States
  BY <1>0, <1>1, DockerWatched DEF DockerHas, DockerBecomes, States
<1>3. Moved(handler, handler')
  BY <1>0, HandlerMoves, StaleHandler DEF External
<1>4. Locked'
  BY <1>0, <1>3, MovesLocked DEF External
<1> QED
  BY <1>0, <1>2, <1>4, HandlerStatic DEF IInv, External, Static

LEMMA DriftSound == ASSUME IInv, DriftTick \/ DriftAnswered \/ DriftWrites PROVE IInv'
<1>0. Static /\ Locked /\ Watched
  BY DEF IInv
<1>1. CASE DriftTick
  <2>1. drift' \in WatchType /\ drift'.fresh = FALSE
    <3>1. \A r \in Status : /\ [Quiet EXCEPT !.at = "asked", !.row = r] \in WatchType
                            /\ [Quiet EXCEPT !.at = "asked", !.row = r].fresh = FALSE
      BY QuietSound DEF WatchType
    <3>2. \E r \in Status : drift' = [Quiet EXCEPT !.at = "asked", !.row = r]
      <4>1. Quiet.row \in Status
        BY QuietSound DEF WatchType
      <4> QED BY <1>0, <1>1, <4>1 DEF DriftTick, Static
    <3> QED BY <3>1, <3>2
  <2>2. Watched'
    BY <1>0, <1>1, <2>1 DEF Watched, SoundWatch, DriftTick, docker
  <2> QED BY <1>0, <1>1, <2>2, StaysLocked DEF IInv, Static, DriftTick, docker, fixed, budget
<1>2. CASE DriftAnswered
  <2>1. drift \in WatchType /\ drift.fresh = FALSE
    BY <1>0, <1>2 DEF Watched, SoundWatch, DriftAnswered, WatchType
  <2>2. /\ drift' \in WatchType /\ drift'.at = "answered"
        /\ drift'.fresh => (drift'.seen = "running" <=> container = "running")
    BY <1>2, <2>1, AnswersSound DEF DriftAnswered
  <2>3. Watched'
    BY <1>0, <1>2, <2>2 DEF Watched, SoundWatch, DriftAnswered, docker
  <2> QED BY <1>0, <1>2, <2>3, StaysLocked, FaultsBounded
          DEF IInv, Static, DriftAnswered, docker, Answers, fixed
<1>3. CASE DriftWrites
  <2>1. Watched'
    BY <1>0, <1>3, QuietSound DEF Watched, SoundWatch, DriftWrites, docker
  <2>2. status' \in Status
    BY <1>0, <1>3 DEF DriftWrites, DriftVerdict, Static, Watched, SoundWatch, WatchType, Observed, Status
  <2> QED BY <1>0, <1>3, <2>1, <2>2, StaysLocked DEF IInv, Static, DriftWrites, docker, fixed, budget
<1> QED BY <1>1, <1>2, <1>3

LEMMA HealthSound == ASSUME IInv, HealthTick \/ ProbeAnswered \/ ProbeFails PROVE IInv'
<1>0. Static /\ Locked /\ Watched
  BY DEF IInv
<1> USE BoundsAssumption, ThresholdAssumption
<1>w. UNCHANGED <<docker, boot, drift>> => Watched'
  BY <1>0, StaysWatched DEF DockerStays
<1>1. CASE HealthTick
  <2>1. probes' \in 0..MaxProbes /\ failures' \in 0..FAILURE_THRESHOLD
    BY <1>0, <1>1 DEF HealthTick, Static
  <2> QED BY <1>0, <1>w, <1>1, <2>1, StaysLocked DEF IInv, Static, HealthTick, docker, fixed, budget
<1>2. CASE ProbeAnswered
  <2>1. probes' \in 0..MaxProbes /\ failures' \in 0..FAILURE_THRESHOLD
    BY <1>0, <1>2 DEF ProbeAnswered, Static
  <2> QED BY <1>0, <1>w, <1>2, <2>1, StaysLocked DEF IInv, Static, ProbeAnswered, docker, fixed, budget
<1>3. CASE ProbeFails
  <2>1. probes' \in 0..MaxProbes /\ failures' \in 0..FAILURE_THRESHOLD
    BY <1>0, <1>3 DEF ProbeFails, Static, Counted
  <2>2. Fault \/ NoFault
    BY <1>3 DEF ProbeFails
  <2>3. Locked' /\ status' \in Status
    <3>1. CASE UNCHANGED <<status, lock, handler>>
      BY <1>0, <3>1, StaysLocked DEF Static
    <3>2. CASE Begins("health", "restart")
      BY <1>0, <3>2, BeginsLocked DEF Begins, Handlers, Status
    <3> QED BY <1>3, <3>1, <3>2 DEF ProbeFails
  <2> QED BY <1>0, <1>w, <1>3, <2>1, <2>2, <2>3, FaultsBounded DEF IInv, Static, ProbeFails, docker, fixed
<1> QED BY <1>1, <1>2, <1>3

LEMMA BootSound ==
    ASSUME IInv, BootReads \/ BootAnswered \/ BootReadsRow \/ BootAdopts \/ BootStarts
    PROVE  IInv'
<1>0. Static /\ Locked /\ Watched
  BY DEF IInv
<1>1. CASE BootReads
  <2>1. boot \in WatchType /\ boot.fresh = FALSE
    BY <1>0, <1>1 DEF Watched, SoundWatch, BootReads, WatchType
  <2>2. boot' \in WatchType /\ boot'.fresh = FALSE
    BY <1>0, <1>1, <2>1 DEF BootReads, WatchType, Static
  <2>3. Watched'
    BY <1>0, <1>1, <2>2 DEF Watched, SoundWatch, BootReads, docker
  <2> QED BY <1>0, <1>1, <2>3, StaysLocked DEF IInv, Static, BootReads, docker, fixed, budget
<1>2. CASE BootAnswered
  <2>1. boot \in WatchType /\ boot.fresh = FALSE
    BY <1>0, <1>2 DEF Watched, SoundWatch, BootAnswered, WatchType
  <2>2. /\ boot' \in WatchType /\ boot'.at = "answered"
        /\ boot'.fresh => (boot'.seen = "running" <=> container = "running")
    BY <1>2, <2>1, AnswersSound DEF BootAnswered
  <2>3. Watched'
    BY <1>0, <1>2, <2>2 DEF Watched, SoundWatch, BootAnswered, docker
  <2> QED BY <1>0, <1>2, <2>3, StaysLocked, FaultsBounded
          DEF IInv, Static, BootAnswered, docker, Answers, fixed
<1>3. CASE BootReadsRow
  <2>1. /\ boot' \in WatchType /\ boot'.at = "adopting"
        /\ boot'.fresh = boot.fresh /\ boot'.seen = boot.seen
    BY <1>0, <1>3 DEF Watched, SoundWatch, BootReadsRow, WatchType, Static
  <2>2. Watched'
    BY <1>0, <1>3, <2>1 DEF Watched, SoundWatch, BootReadsRow, docker
  <2> QED BY <1>0, <1>3, <2>2, StaysLocked DEF IInv, Static, BootReadsRow, docker, fixed, budget
<1>4. CASE BootAdopts
  <2>1. Watched'
    BY <1>0, <1>4, QuietSound DEF Watched, SoundWatch, BootAdopts, docker
  <2> QED BY <1>0, <1>4, <2>1, StaysLocked DEF IInv, Static, BootAdopts, docker, fixed, budget, Status
<1>5. CASE BootStarts
  <2>1. Watched'
    BY <1>0, <1>5, QuietSound DEF Watched, SoundWatch, BootStarts, docker
  <2>2. Locked'
    <3>1. CASE UNCHANGED <<lock, handler>>
      BY <1>0, <3>1, StaysLocked
    <3>2. CASE ~lock /\ lock' = TRUE
               /\ handler' = [handler EXCEPT !["boot"] = [Idle EXCEPT !.op = "start", !.at = "deps"]]
      <4> DEFINE h == [Idle EXCEPT !.op = "start", !.at = "deps"]
      <4>1. h \in SoundHandler /\ h.op = "start"
        BY DEF Idle, SoundHandler, HandlerType, Places
      <4>2. \A u \in Handlers : ~Locker(handler[u])
        BY <1>0, <3>2 DEF Locked
      <4>3. handler' = [handler EXCEPT !["boot"] = h] /\ "boot" \in Handlers
        BY <3>2 DEF Handlers
      <4> HIDE DEF h
      <4>4. /\ handler' \in [Handlers -> SoundHandler]
            /\ handler'["boot"].op = "start"
            /\ \A u \in Handlers \ {"boot"} : handler'[u].op = handler[u].op
        BY <1>0, <4>1, <4>3 DEF Locked
      <4> QED BY <3>2, <4>2, <4>3, <4>4 DEF Locked, Locker
    <3> QED BY <1>5, <3>1, <3>2 DEF BootStarts
  <2> QED BY <1>0, <1>5, <2>1, <2>2 DEF IInv, Static, BootStarts, docker, fixed, budget, Status
<1> QED BY <1>1, <1>2, <1>3, <1>4, <1>5

LEMMA StepSound == IInv /\ [Next]_vars => IInv'
<1> SUFFICES ASSUME IInv, [Next]_vars PROVE IInv'
  OBVIOUS
<1>1. CASE UNCHANGED vars
  <2>1. Static /\ Locked /\ Watched /\ UNCHANGED <<handler, lock, docker, boot, drift>>
    BY <1>1 DEF IInv, vars, loops
  <2> QED BY <1>1, <2>1, StaysLocked, StaysWatched
          DEF IInv, Static, vars, fixed, loops, budget, docker, DockerStays
<1> QED
  BY <1>1, RequestSound, HandlerStepSound, ExternalSound, DriftSound, HealthSound, BootSound DEF Next

LEMMA AlwaysSound == Spec => []IInv
BY InitSound, StepSound, PTL DEF Spec

(* Type correctness, and that the lock is held while and only while a start *)
(* or a restart is in progress.                                             *)
THEOREM ContainerTypes == Spec => []TypeOK
BY AlwaysSound, IInvTypes, PTL

------------------------------------------------------------------------------

(* Who writes a settled status that Docker does not agree with. *)
Mismarks ==
    status' # status /\ ~InTransition(status') /\ ~Agrees' =>
         \/ \E t \in Handlers : /\ handler[t].at = "stopped" /\ handler'[t] # handler[t]
                               /\ status' = "stopped"
         \/ \E t \in Handlers : /\ Active(t) /\ handler'[t].at = "idle"
                               /\ status' \in {"error", "crashed"}
         \/ \E t \in Handlers : /\ handler[t].at = "live" /\ handler'[t].at = "idle"
                               /\ t \notin current
         \/ drift.at = "answered" /\ ~drift.fresh
         \/ boot.at \in {"answered", "adopting"} /\ ~boot.fresh

LEMMA HandlerMismarks ==
    ASSUME IInv, NEW t \in Handlers, HandlerStep(t)
    PROVE  Mismarks
<1>0. Locked /\ handler \in [Handlers -> SoundHandler]
  BY DEF IInv, Locked
<1>1. CASE Stopped(t)
  <2>1. handler'[t].at \in {"idle", "deps"} /\ handler[t].at = "stopped"
    <3>1. [handler[t] EXCEPT !.at = "deps"].at = "deps"
      BY <1>0 DEF SoundHandler, HandlerType
    <3> QED BY <1>0, <1>1, <3>1, IdleSound DEF Stopped, At, Left, Goes
  <2>2. handler'[t] # handler[t] /\ status' = "stopped"
    BY <1>1, <2>1 DEF Stopped
  <2> QED BY <2>1, <2>2 DEF Mismarks
<1>2. ASSUME Active(t), StartThrows(t) PROVE Mismarks
  BY <1>0, <1>2, IdleSound DEF Mismarks, StartThrows, Left
<1>3. CASE Live(t)
  <2>1. CASE t \in current
    <3>1. status' = "running" /\ container' = "running"
      BY <1>3, <2>1 DEF Live, IInv, Watched
    <3> QED BY <3>1 DEF Mismarks, Agrees
  <2>2. CASE t \notin current
    <3>1. handler[t].at = "live" /\ handler'[t].at = "idle"
      BY <1>0, <1>3, IdleSound DEF Live, At, Left
    <3> QED BY <2>2, <3>1 DEF Mismarks
  <2> QED BY <2>1, <2>2
<1>4. ASSUME UNCHANGED status \/ InTransition(status') PROVE Mismarks
  BY <1>4 DEF Mismarks
<1>7. CASE Deps(t)
  BY <1>4, <1>7 DEF Deps, InTransition
<1>8. CASE Image(t)
  BY <1>2, <1>4, <1>8 DEF Image, At, Active
<1>9. CASE Create(t) \/ CreateAgain(t)
  BY <1>2, <1>4, <1>9 DEF Create, CreateAgain, Created, At, Active
<1>10. CASE StartContainer(t)
  BY <1>2, <1>4, <1>10 DEF StartContainer, At, Active
<1>11. CASE Dead(t)
  BY <1>2, <1>11 DEF Dead, At, Active
<1>13. CASE \/ Halting(t) \/ Removing(t) \/ ComposeStop(t) \/ Inspect(t) \/ Halt(t)
            \/ Drop(t) \/ Clear(t) \/ Reclear(t) \/ Ready(t) \/ Up(t)
  BY <1>4, <1>13 DEF Halting, Removing, ComposeStop, Inspect, Halt, Drop, Clear, Reclear, Ready, Up
<1> QED
  BY <1>1, <1>3, <1>7, <1>8, <1>9, <1>10, <1>11, <1>13 DEF HandlerStep

LEMMA StepMismarks == IInv /\ [Next]_vars => Mismarks
<1> SUFFICES ASSUME IInv, [Next]_vars PROVE Mismarks
  OBVIOUS
<1>0. Static /\ SoundWatch(boot) /\ SoundWatch(drift)
  BY DEF IInv, Watched
<1>1. ASSUME NEW u \in Users, Request(u) PROVE Mismarks
  BY <1>1 DEF Mismarks, Request, Begins, InTransition
<1>2. CASE DriftWrites
  BY <1>0, <1>2 DEF Mismarks, Agrees, DriftWrites, DriftVerdict, docker, SoundWatch
<1>3. CASE BootAdopts
  BY <1>0, <1>3 DEF Mismarks, Agrees, BootAdopts, docker, SoundWatch
<1>4. CASE BootStarts
  BY <1>0, <1>4 DEF Mismarks, Agrees, BootStarts, docker, SoundWatch
<1>5. CASE ProbeFails
  BY <1>5 DEF Mismarks, ProbeFails, Begins, InTransition
<1>6. CASE External \/ DriftTick \/ DriftAnswered \/ HealthTick \/ ProbeAnswered
           \/ BootReads \/ BootAnswered \/ BootReadsRow \/ UNCHANGED vars
  BY <1>6 DEF Mismarks, External, DriftTick, DriftAnswered, HealthTick, ProbeAnswered,
              BootReads, BootAnswered, BootReadsRow, vars
<1> QED
  BY <1>1, <1>2, <1>3, <1>4, <1>5, <1>6, HandlerMismarks DEF Next

(* A settled status that is wrong is written by a stop, by a start that     *)
(* fails or whose container has changed since Docker showed it running, or  *)
(* on an answer of Docker that is not fresh, by nothing else.               *)
THEOREM MismarksAreKnown == Spec => OnlyKnownMismarks
<1>1. IInv /\ [Next]_vars => [Mismarks]_vars
  BY StepMismarks
<1>2. [Mismarks]_vars =>
      [status' # status /\ ~InTransition(status') /\ ~Agrees' =>
         \/ \E t \in Handlers : /\ handler[t].at = "stopped" /\ handler'[t] # handler[t]
                               /\ status' = "stopped"
         \/ \E t \in Handlers : /\ Active(t) /\ handler'[t].at = "idle"
                               /\ status' \in {"error", "crashed"}
         \/ \E t \in Handlers : /\ handler[t].at = "live" /\ handler'[t].at = "idle"
                               /\ t \notin current
         \/ drift.at = "answered" /\ ~drift.fresh
         \/ boot.at \in {"answered", "adopting"} /\ ~boot.fresh]_vars
  BY DEF Mismarks
<1> QED
  BY <1>1, <1>2, AlwaysSound, PTL DEF Spec, OnlyKnownMismarks
=============================================================================
