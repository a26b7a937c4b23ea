-------------------------- MODULE DependenciesProofs --------------------------
(***************************************************************************)
(* Theorems about Dependencies, for any services, dependencies and bounds: *)
(* type correctness, which includes that no walk visits a service twice,   *)
(* that the locks are those of the handlers in progress and of the         *)
(* dependencies they start, that a service is started after its            *)
(* dependencies, and that a start-all or restart-all of acyclic services   *)
(* that nothing else meets leaves all of them running.                     *)
(***************************************************************************)
EXTENDS Dependencies, SequenceTheorems, TLAPS

(* A handler of a root r. *)
SoundHandler(r, h) ==
    /\ h \in HandlerType
    /\ StackOf(r, h.stack)
    /\ h.at \in {"idle", "stop"} <=> h.stack = <<>>
    /\ h.at = "own" => Len(h.stack) = 1
    /\ h.at = "dep" => Len(h.stack) > 1

(* What a call has visited runs, or is the service of the call within it.   *)
Read(h, st) ==
    \A i \in DOMAIN h.stack : \A x \in h.stack[i].need \ h.stack[i].todo :
        st[x] = "running" \/ (i > 1 /\ x = h.stack[i - 1].svc)

Handlers(hs, st) ==
    /\ hs \in [Services -> HandlerType]
    /\ \A r \in Services : SoundHandler(r, hs[r]) /\ Read(hs[r], st)

(* The service whose runtime a handler is starting. *)
Starting(r, h, x) ==
    \/ h.at = "own" /\ x = r
    \/ h.at = "dep" /\ x = h.stack[1].svc

(* LocksHeld, service by service. *)
Locking(ls, hs) ==
    /\ ls \subseteq Services
    /\ \A x \in Services :
        x \in ls <=> hs[x].at # "idle" \/ \E r \in Services : Starting(r, hs[r], x)
    /\ \A r \in Services :
        hs[r].at = "dep" => hs[r].stack[1].svc \in Services /\ hs[hs[r].stack[1].svc].at = "idle"
    /\ \A r, q, x \in Services : Starting(r, hs[r], x) /\ Starting(q, hs[q], x) => r = q

Plain ==
    /\ status \in [Services -> Status]
    /\ dependsOn \in [Services -> SUBSET Services]
    /\ boot \subseteq Services
    /\ stops \subseteq Services
    /\ bulk \in BulkType
    /\ requests \in 0..MaxRequests
    /\ failures \in 0..MaxFailures

(* A tracked instance runs, or has ended; and none is tracked of a service  *)
(* whose runtime is being started.                                          *)
Tracking ==
    /\ tracked \subseteq Processes
    /\ ended \subseteq tracked
    /\ \A x \in tracked \ ended : status[x] = "running"
    /\ \A r \in Services : handler[r].at = "stop" => r \notin tracked
    /\ \A r, x \in Services : Starting(r, handler[r], x) => x \notin tracked

IInv == Plain /\ Handlers(handler, status) /\ Locking(locks, handler) /\ Tracking

LEMMA StackFacts ==
    ASSUME NEW r \in Services, NEW h, SoundHandler(r, h)
    PROVE  /\ h.stack \in Seq(FrameType) /\ Len(h.stack) \in Nat
           /\ DOMAIN h.stack = 1..Len(h.stack)
           /\ \A i \in DOMAIN h.stack :
                /\ h.stack[i] \in FrameType
                /\ h.stack[i].svc \in Services
           /\ h.at \notin {"idle", "stop"} =>
                h.stack # <<>> /\ 1 \in DOMAIN h.stack /\ Head(h.stack) = h.stack[1]
<1>1. h.stack \in Seq(FrameType)
  BY DEF SoundHandler, HandlerType
<1>2. /\ Len(h.stack) \in Nat /\ DOMAIN h.stack = 1..Len(h.stack)
      /\ \A i \in DOMAIN h.stack : h.stack[i] \in FrameType
  BY <1>1, LenProperties, ElementOfSeq
<1>3. \A i \in DOMAIN h.stack : h.stack[i].svc \in Services
  BY <1>2 DEF FrameType
<1>4. ASSUME h.at \notin {"idle", "stop"}
      PROVE  h.stack # <<>> /\ 1 \in DOMAIN h.stack /\ Head(h.stack) = h.stack[1]
  <2>1. h.stack # <<>>
    BY <1>4 DEF SoundHandler
  <2>2. Len(h.stack) \in Nat \ {0}
    BY <1>1, <2>1, EmptySeq
  <2>3. Head(h.stack) = h.stack[1]
    BY <1>1
  <2> QED BY <1>2, <2>1, <2>2, <2>3
<1> QED BY <1>1, <1>2, <1>3, <1>4

LEMMA IInvTypes == IInv => TypeOK
BY DEF IInv, Plain, Handlers, SoundHandler, Locking, Tracking, TypeOK

LEMMA StartsAre ==
    ASSUME IInv, NEW r \in Services, NEW x
    PROVE  x \in Starts(r) <=> Starting(r, handler[r], x)
<1>1. SoundHandler(r, handler[r]) /\ handler[r].at \in {"idle", "stop", "deps", "dep", "own"}
  BY DEF IInv, Handlers, HandlerType
<1>2. handler[r].at = "dep" => Top(r) = handler[r].stack[1]
  BY <1>1, StackFacts DEF Top
<1> QED BY <1>1, <1>2 DEF Starts, Starting

LEMMA IInvLocks == IInv => LocksHeld
<1> SUFFICES ASSUME IInv PROVE LocksHeld
  OBVIOUS
<1>1. locks = {r \in Services : Active(r)} \cup UNION {Starts(r) : r \in Services}
  <2>1. \A r \in Services : \A x \in Starts(r) : x \in Services
    <3> SUFFICES ASSUME NEW r \in Services, NEW x, Starting(r, handler[r], x) PROVE x \in Services
      BY StartsAre
    <3>1. SoundHandler(r, handler[r])
      BY DEF IInv, Handlers
    <3> QED BY <3>1, StackFacts DEF Starting
  <2> QED BY <2>1, StartsAre DEF IInv, Locking, Active
<1>2. ASSUME NEW r \in Services, handler[r].at = "dep" PROVE ~Active(Top(r).svc)
  <2>1. SoundHandler(r, handler[r])
    BY DEF IInv, Handlers
  <2>2. Top(r) = handler[r].stack[1]
    BY <1>2, <2>1, StackFacts DEF Top
  <2> QED BY <1>2, <2>2 DEF IInv, Locking, Active
<1>3. ASSUME NEW r \in Services, NEW q \in Services \ {r} PROVE Starts(r) \cap Starts(q) = {}
  <2> SUFFICES ASSUME NEW x, Starting(r, handler[r], x), Starting(q, handler[q], x) PROVE FALSE
    BY StartsAre
  <2>1. x \in Services
    <3>1. SoundHandler(r, handler[r])
      BY DEF IInv, Handlers
    <3> QED BY <3>1, StackFacts DEF Starting
  <2> QED BY <2>1 DEF IInv, Locking
<1> QED BY <1>1, <1>2, <1>3 DEF LocksHeld

------------------------------------------------------------------------------
(* A service leaves "running", or not. *)

FallenOne(h, s) ==
    [h EXCEPT !.stack =
        [i \in DOMAIN h.stack |->
            IF s \in h.stack[i].todo THEN h.stack[i] ELSE [h.stack[i] EXCEPT !.need = @ \ {s}]]]

(* The same calls, whatever they still need. *)
SameShape(g, h) ==
    /\ g.at = h.at
    /\ DOMAIN g.stack = DOMAIN h.stack
    /\ \A i \in DOMAIN h.stack : g.stack[i].svc = h.stack[i].svc

LEMMA FallenSound ==
    ASSUME NEW r \in Services, NEW h, SoundHandler(r, h), NEW s \in Services
    PROVE  /\ SoundHandler(r, FallenOne(h, s)) /\ SameShape(FallenOne(h, s), h)
           /\ \A i \in DOMAIN h.stack :
                /\ FallenOne(h, s).stack[i].todo = h.stack[i].todo
                /\ FallenOne(h, s).stack[i].need \subseteq h.stack[i].need
                /\ s \notin FallenOne(h, s).stack[i].need \ h.stack[i].todo
<1> DEFINE g == FallenOne(h, s)
           frame(i) == IF s \in h.stack[i].todo THEN h.stack[i] ELSE [h.stack[i] EXCEPT !.need = @ \ {s}]
           stack == [i \in 1..Len(h.stack) |-> frame(i)]
<1>1. h \in HandlerType /\ Len(h.stack) \in Nat /\ DOMAIN h.stack = 1..Len(h.stack)
  BY StackFacts DEF SoundHandler
<1>2. \A i \in 1..Len(h.stack) :
        /\ frame(i) \in FrameType /\ frame(i).svc = h.stack[i].svc /\ frame(i).todo = h.stack[i].todo
        /\ frame(i).need \subseteq h.stack[i].need /\ s \notin frame(i).need \ h.stack[i].todo
  <2> SUFFICES ASSUME NEW i \in 1..Len(h.stack)
               PROVE  /\ frame(i) \in FrameType /\ frame(i).svc = h.stack[i].svc
                      /\ frame(i).todo = h.stack[i].todo /\ frame(i).need \subseteq h.stack[i].need
                      /\ s \notin frame(i).need \ h.stack[i].todo
    OBVIOUS
  <2>1. h.stack[i] \in FrameType
    BY <1>1, StackFacts
  <2> QED BY <2>1 DEF FrameType
<1> HIDE DEF frame
<1>3. stack \in Seq(FrameType) /\ Len(stack) = Len(h.stack) /\ DOMAIN stack = 1..Len(h.stack)
  BY <1>1, <1>2, IsASeq
<1>4. g = [h EXCEPT !.stack = stack]
  BY <1>1 DEF FallenOne, frame
<1>5. g \in HandlerType /\ g.at = h.at /\ g.stack = stack
  BY <1>1, <1>3, <1>4 DEF HandlerType
<1>6. stack = <<>> <=> h.stack = <<>>
  BY <1>1, <1>3, EmptySeq, StackFacts
<1>7. StackOf(r, stack)
  BY <1>1, <1>2, <1>3, <1>6 DEF SoundHandler, StackOf
<1> HIDE DEF stack, g
<1>8. SoundHandler(r, g)
  BY <1>3, <1>5, <1>6, <1>7 DEF SoundHandler
<1>9. \A i \in DOMAIN h.stack : stack[i] = frame(i)
  BY <1>1 DEF stack
<1> QED BY <1>1, <1>2, <1>3, <1>5, <1>8, <1>9 DEF SameShape, g

(* The handlers after s has become v, and has fallen if it was running. *)
LEMMA AfterBecoming ==
    ASSUME NEW st \in [Services -> Status], NEW hs, Handlers(hs, st),
           NEW s \in Services, NEW v \in Status,
           NEW gs, gs = IF st[s] = "running" /\ v # "running" THEN Fallen(hs, s) ELSE hs
    PROVE  /\ Handlers(gs, [st EXCEPT ![s] = v])
           /\ \A r \in Services : SameShape(gs[r], hs[r])
<1> DEFINE now == [st EXCEPT ![s] = v]
<1>0. now[s] = v /\ \A x \in Services \ {s} : now[x] = st[x]
  OBVIOUS
<1>1. \A r \in Services : \A i \in DOMAIN hs[r].stack : \A x \in hs[r].stack[i].need : x \in Services
  <2> SUFFICES ASSUME NEW r \in Services, NEW i \in DOMAIN hs[r].stack
               PROVE  hs[r].stack[i].need \subseteq Services
    OBVIOUS
  <2>1. SoundHandler(r, hs[r])
    BY DEF Handlers
  <2>2. hs[r].stack[i] \in FrameType
    BY <2>1, StackFacts
  <2> QED BY <2>2 DEF FrameType
<1> HIDE DEF now
<1>2. CASE st[s] = "running" /\ v # "running"
  <2>1. /\ DOMAIN gs = Services
        /\ gs = [r \in Services |-> FallenOne(hs[r], s)]
    BY <1>2 DEF Fallen, FallenOne
  <2>2. ASSUME NEW r \in Services
        PROVE  /\ SoundHandler(r, gs[r]) /\ SameShape(gs[r], hs[r]) /\ gs[r] \in HandlerType
               /\ Read(gs[r], now)
    <3>1. SoundHandler(r, hs[r]) /\ gs[r] = FallenOne(hs[r], s) /\ Read(hs[r], st)
      BY <2>1 DEF Handlers
    <3>2. /\ SoundHandler(r, gs[r]) /\ SameShape(gs[r], hs[r]) /\ gs[r] \in HandlerType
      BY <3>1, FallenSound DEF SoundHandler
    <3>3. ASSUME NEW i \in DOMAIN gs[r].stack, NEW x \in gs[r].stack[i].need \ gs[r].stack[i].todo
          PROVE  now[x] = "running" \/ (i > 1 /\ x = gs[r].stack[i - 1].svc)
      <4>1. i \in DOMAIN hs[r].stack /\ x \in hs[r].stack[i].need \ hs[r].stack[i].todo /\ x # s
        BY <3>1, <3>2, <3>3, FallenSound DEF SameShape
      <4>2. x \in Services
        BY <1>1, <4>1
      <4>3. CASE st[x] = "running"
        BY <1>0, <4>1, <4>2, <4>3
      <4>4. CASE i > 1 /\ x = hs[r].stack[i - 1].svc
        <5>1. i - 1 \in DOMAIN hs[r].stack
          BY <3>1, <4>1, <4>4, StackFacts
        <5> QED BY <3>2, <4>4, <5>1 DEF SameShape
      <4> QED BY <3>1, <4>1, <4>3, <4>4 DEF Read
    <3> QED BY <3>2, <3>3 DEF Read
  <2> QED BY <2>1, <2>2 DEF Handlers, now
<1>3. CASE ~(st[s] = "running" /\ v # "running")
  <2>1. gs = hs
    BY <1>3
  <2>2. \A r \in Services : Read(hs[r], now)
    BY <1>0, <1>1, <1>3 DEF Handlers, Read
  <2> QED BY <2>1, <2>2 DEF Handlers, SameShape, now
<1> QED BY <1>2, <1>3

(* One handler becomes h. *)
LEMMA OneMoves ==
    ASSUME NEW st, NEW hs, Handlers(hs, st), NEW r \in Services,
           NEW h, SoundHandler(r, h), Read(h, st), NEW gs, gs = [hs EXCEPT ![r] = h]
    PROVE  /\ Handlers(gs, st)
           /\ gs[r] = h
           /\ \A q \in Services : q # r => gs[q] = hs[q]
<1>1. h \in HandlerType
  BY DEF SoundHandler
<1> QED BY <1>1 DEF Handlers

------------------------------------------------------------------------------
(* Locks. *)

LEMMA ShapeKeeps ==
    ASSUME NEW r \in Services, NEW g, NEW h, SoundHandler(r, h), SameShape(g, h)
    PROVE  /\ g.at = h.at
           /\ g.at = "dep" => g.stack[1].svc = h.stack[1].svc /\ h.stack[1].svc \in Services
           /\ \A x : Starting(r, g, x) <=> Starting(r, h, x)
<1>1. h.at = "dep" => g.stack[1].svc = h.stack[1].svc /\ h.stack[1].svc \in Services
  BY StackFacts DEF SameShape
<1> QED BY <1>1 DEF SameShape, Starting

LEMMA SameLocks ==
    ASSUME NEW hs, NEW st, Handlers(hs, st), NEW ls, Locking(ls, hs),
           NEW gs, \A r \in Services : SameShape(gs[r], hs[r])
    PROVE  Locking(ls, gs)
<1>1. \A r \in Services :
        /\ gs[r].at = hs[r].at
        /\ gs[r].at = "dep" => gs[r].stack[1].svc = hs[r].stack[1].svc /\ hs[r].stack[1].svc \in Services
        /\ \A x : Starting(r, gs[r], x) <=> Starting(r, hs[r], x)
  BY ShapeKeeps DEF Handlers
<1> QED BY <1>1 DEF Locking

(* One handler, of r, moves, and others keep their shape.  The locks follow *)
(* if r is or was locked by itself, and so is what it starts.               *)
Moves(r, gs, hs) == \A q \in Services : q # r => gs[q] = hs[q]

LEMMA TakesLock ==
    ASSUME NEW hs, NEW ls, Locking(ls, hs), NEW r \in Services, r \notin ls,
           NEW gs, Moves(r, gs, hs), gs[r].at \in {"stop", "deps"}
    PROVE  Locking(ls \cup {r}, gs)
<1>1. \A x \in Services : ~Starting(r, gs[r], x) /\ ~Starting(r, hs[r], x)
  BY DEF Starting, Locking
<1>2. \A q \in Services : gs[q].at = "dep" => gs[q].stack[1].svc # r
  BY DEF Starting, Locking, Moves
<1> QED BY <1>1, <1>2 DEF Locking, Moves

LEMMA KeepsLock ==
    ASSUME NEW hs, NEW ls, Locking(ls, hs), NEW r \in Services, hs[r].at \in {"stop", "deps"},
           NEW gs, Moves(r, gs, hs), gs[r].at \in {"stop", "deps", "own"}
    PROVE  Locking(ls, gs)
<1>1. \A x \in Services : ~Starting(r, hs[r], x)
  BY DEF Starting
<1>2. \A x \in Services : Starting(r, gs[r], x) => x = r
  BY DEF Starting
<1>3. r \in ls /\ \A q \in Services : ~Starting(q, hs[q], r)
  BY <1>1 DEF Locking, Starting
<1> QED BY <1>1, <1>2, <1>3 DEF Locking, Moves

LEMMA LocksDep ==
    ASSUME NEW hs, NEW ls, Locking(ls, hs), NEW r \in Services, hs[r].at = "deps",
           NEW gs, Moves(r, gs, hs), gs[r].at = "dep",
           NEW d \in Services, d = gs[r].stack[1].svc, d \notin ls
    PROVE  Locking(ls \cup {d}, gs)
<1>1. \A x \in Services : ~Starting(r, hs[r], x) /\ (Starting(r, gs[r], x) <=> x = d)
  BY DEF Starting
<1>2. /\ d # r /\ r \in ls /\ hs[d].at = "idle" /\ \A q \in Services : ~Starting(q, hs[q], d)
  BY DEF Locking
<1>3. \A q \in Services : gs[q].at = "dep" => gs[q].stack[1].svc # r
  <2> SUFFICES ASSUME NEW q \in Services, gs[q].at = "dep", gs[q].stack[1].svc = r PROVE FALSE
    OBVIOUS
  <2>1. q # r
    BY <1>2
  <2> QED BY <2>1 DEF Locking, Moves
<1> QED BY <1>1, <1>2, <1>3 DEF Locking, Moves

(* It gives back the locks freed, its own or that of what it started. *)
LEMMA GivesBack ==
    ASSUME NEW hs, NEW ls, Locking(ls, hs), NEW r \in Services, hs[r].at # "idle",
           NEW gs, Moves(r, gs, hs), gs[r].at \in {"idle", "deps"},
           NEW freed, freed = (IF gs[r].at = "idle" THEN {r} ELSE {})
                              \cup (IF hs[r].at = "dep" THEN {hs[r].stack[1].svc} ELSE {}),
           gs[r].at = "deps" => hs[r].at = "dep"
    PROVE  Locking(ls \ freed, gs)
<1>1. \A x \in Services : ~Starting(r, gs[r], x)
  BY DEF Starting
<1>2. \A q \in Services : q # r => ~Starting(q, hs[q], r)
  BY DEF Locking, Starting
<1>3. hs[r].at = "dep" => hs[hs[r].stack[1].svc].at = "idle"
  BY DEF Locking
<1>4. \A q, x \in Services : q # r /\ Starting(q, hs[q], x) => ~Starting(r, hs[r], x)
  BY DEF Locking
<1>5. ASSUME NEW x \in Services
      PROVE  x \in ls \ freed <=> gs[x].at # "idle" \/ \E q \in Services : Starting(q, gs[q], x)
  <2>1. x \in ls <=> hs[x].at # "idle" \/ \E q \in Services : Starting(q, hs[q], x)
    BY DEF Locking
  <2>2. CASE x = r
    BY <1>1, <1>2, <2>1, <2>2, <1>3 DEF Moves
  <2>3. CASE x # r
    <3>1. gs[x] = hs[x]
      BY <2>3 DEF Moves
    <3>2. CASE Starting(r, hs[r], x)
      <4>1. hs[r].at = "dep" /\ x = hs[r].stack[1].svc
        BY <2>3, <3>2 DEF Starting
      <4> QED BY <1>1, <1>3, <1>4, <3>1, <3>2, <4>1 DEF Moves
    <3>3. CASE ~Starting(r, hs[r], x)
      <4>1. x \notin freed
        BY <2>3, <3>3 DEF Starting
      <4> QED BY <1>1, <2>1, <3>1, <3>3, <4>1 DEF Moves
    <3> QED BY <3>2, <3>3
  <2> QED BY <2>2, <2>3
<1>6. \A q \in Services : gs[q].at = "dep" => q # r /\ gs[gs[q].stack[1].svc].at = "idle"
  <2> SUFFICES ASSUME NEW q \in Services, gs[q].at = "dep"
               PROVE  q # r /\ gs[gs[q].stack[1].svc].at = "idle"
    OBVIOUS
  <2>1. q # r /\ hs[q] = gs[q] /\ hs[hs[q].stack[1].svc].at = "idle"
    BY DEF Moves, Locking
  <2>2. hs[q].stack[1].svc # r
    BY <2>1
  <2> QED BY <2>1, <2>2 DEF Moves, Locking
<1> QED BY <1>1, <1>5, <1>6 DEF Locking, Moves

------------------------------------------------------------------------------
(* Stacks. *)

LEMMA IdleSound ==
    ASSUME NEW r \in Services, NEW st
    PROVE  SoundHandler(r, Idle) /\ Read(Idle, st) /\ Idle.at = "idle"
<1>1. <<>> \in Seq(FrameType) /\ Len(<<>>) = 0 /\ DOMAIN <<>> = {}
  BY EmptySeq
<1> QED BY <1>1 DEF SoundHandler, Read, StackOf, Idle, HandlerType

(* A handler whose only call has just begun. *)
LEMMA CallSound ==
    ASSUME NEW r \in Services, dependsOn \in [Services -> SUBSET Services], NEW st, NEW h,
           h.at = "deps", h.stack = <<Call(r)>>, h \in [at : {"deps"}, bulk : BOOLEAN, stack : {<<Call(r)>>}]
    PROVE  SoundHandler(r, h) /\ Read(h, st)
<1> DEFINE c == Call(r)
<1>1. c \in FrameType /\ c.svc = r /\ c.need = c.todo
  BY DEF Call, FrameType
<1> HIDE DEF c
<1>2. <<c>> \in Seq(FrameType) /\ Len(<<c>>) = 1 /\ <<c>>[1] = c /\ DOMAIN <<c>> = {1} /\ <<c>> # <<>>
  BY <1>1
<1>3. h.stack = <<c>> /\ h \in HandlerType
  <2>1. h.stack = <<c>>
    BY DEF c
  <2> QED BY <1>2, <2>1 DEF HandlerType
<1>4. StackOf(r, <<c>>)
  BY <1>1, <1>2 DEF StackOf
<1>5. Read(h, st)
  BY <1>1, <1>2, <1>3 DEF Read
<1> QED BY <1>2, <1>3, <1>4, <1>5 DEF SoundHandler

(* The handler goes to another await of the same call. *)
LEMMA AwaitSound ==
    ASSUME NEW r \in Services, NEW st, NEW h, SoundHandler(r, h), Read(h, st), h.at = "deps",
           NEW at \in {"dep", "own"}, at = "own" <=> Len(h.stack) = 1
    PROVE  /\ SoundHandler(r, [h EXCEPT !.at = at]) /\ Read([h EXCEPT !.at = at], st)
           /\ [h EXCEPT !.at = at].at = at /\ [h EXCEPT !.at = at].stack = h.stack
<1>1. /\ h \in HandlerType /\ h.stack # <<>> /\ Len(h.stack) \in Nat /\ Len(h.stack) >= 1
  BY StackFacts DEF SoundHandler
<1>2. /\ [h EXCEPT !.at = at] \in HandlerType /\ [h EXCEPT !.at = at].at = at
      /\ [h EXCEPT !.at = at].stack = h.stack
  BY <1>1 DEF HandlerType
<1>3. at = "dep" => Len(h.stack) > 1
  <2> SUFFICES ASSUME at = "dep" PROVE Len(h.stack) > 1
    OBVIOUS
  <2>1. Len(h.stack) # 1
    OBVIOUS
  <2>2. \A k \in Nat : k >= 1 /\ k # 1 => k > 1
    OBVIOUS
  <2> QED BY <1>1, <2>1, <2>2
<1> QED BY <1>1, <1>2, <1>3 DEF SoundHandler, Read

(* The call within the last one returns. *)
LEMMA PopSound ==
    ASSUME NEW r \in Services, NEW st, NEW h, SoundHandler(r, h), Read(h, st),
           h.at \in {"deps", "dep"}, Len(h.stack) > 1, st[h.stack[1].svc] = "running",
           NEW g, g = [h EXCEPT !.at = "deps", !.stack = Tail(@)]
    PROVE  SoundHandler(r, g) /\ Read(g, st) /\ g.at = "deps"
<1> DEFINE s == h.stack
           n == Len(s)
           tail == Tail(s)
<1>1. /\ s \in Seq(FrameType) /\ n \in Nat /\ DOMAIN s = 1..n /\ s # <<>> /\ h \in HandlerType
  BY StackFacts DEF SoundHandler
<1> HIDE DEF s, n
<1>2. /\ tail \in Seq(FrameType) /\ Len(tail) = n - 1 /\ DOMAIN tail = 1..(n - 1)
      /\ \A i \in 1..(n - 1) : tail[i] = s[i + 1] /\ i + 1 \in 1..n
  BY <1>1, HeadTailProperties, LenProperties DEF n
<1> HIDE DEF tail
<1>3. g.at = "deps" /\ g.stack = tail /\ g \in HandlerType
  BY <1>1, <1>2 DEF HandlerType, tail, s
<1>4. n > 1 /\ StackOf(r, s) /\ s[n].svc = r
  BY <1>1 DEF n, s, SoundHandler, StackOf
<1>5. tail # <<>>
  BY <1>1, <1>2, <1>4, EmptySeq
<1>6. StackOf(r, tail)
  <2>1. n - 1 \in 1..(n - 1) /\ (n - 1) + 1 = n
    BY <1>1, <1>4
  <2>2. tail[Len(tail)].svc = r
    BY <1>2, <1>4, <2>1
  <2>3. ASSUME NEW i \in 1..(n - 1), NEW j \in 1..(n - 1), tail[i].svc = tail[j].svc PROVE i = j
    <3>1. i + 1 \in DOMAIN s /\ j + 1 \in DOMAIN s /\ s[i + 1].svc = s[j + 1].svc
      BY <1>1, <1>2, <2>3
    <3>2. i + 1 = j + 1
      BY <1>4, <3>1 DEF StackOf
    <3> QED BY <1>1, <3>2
  <2> QED BY <1>2, <2>2, <2>3 DEF StackOf
<1>7. Read(g, st)
  <2> SUFFICES ASSUME NEW i \in 1..(n - 1), NEW x \in tail[i].need \ tail[i].todo
               PROVE  st[x] = "running" \/ (i > 1 /\ x = tail[i - 1].svc)
    BY <1>2, <1>3 DEF Read
  <2>1. st[x] = "running" \/ (i + 1 > 1 /\ x = s[(i + 1) - 1].svc)
    <3>1. i + 1 \in DOMAIN s /\ x \in s[i + 1].need \ s[i + 1].todo
      BY <1>1, <1>2
    <3> QED BY <3>1 DEF Read, s
  <2>2. (i + 1) - 1 = i
    OBVIOUS
  <2>3. CASE i = 1
    BY <2>1, <2>2, <2>3 DEF s
  <2>4. CASE i > 1
    <3>1. i - 1 \in 1..(n - 1) /\ (i - 1) + 1 = i
      BY <1>1, <2>4
    <3> QED BY <1>2, <2>1, <2>2, <2>4, <3>1
  <2> QED BY <2>3, <2>4
<1> QED BY <1>3, <1>5, <1>6, <1>7 DEF SoundHandler

(* The call within the last one returns, and its service, taken for up, is  *)
(* no longer among those the last one needs.                                *)
LEMMA PassedSound ==
    ASSUME NEW r \in Services, NEW st, NEW h, SoundHandler(r, h), Read(h, st),
           h.at = "deps", Len(h.stack) > 1, NEW d, d = h.stack[1].svc,
           NEW left, left = [Tail(h.stack) EXCEPT ![1].need = @ \ {d}],
           NEW g, g = [h EXCEPT !.at = "deps", !.stack = left]
    PROVE  SoundHandler(r, g) /\ Read(g, st) /\ g.at = "deps"
<1>n. PICK n : n = Len(h.stack)
  OBVIOUS
<1> DEFINE s == h.stack
           tail == Tail(s)
           frame(i) == IF i = 1 THEN [tail[1] EXCEPT !.need = @ \ {d}] ELSE tail[i]
           new == [i \in 1..(n - 1) |-> frame(i)]
<1>1. /\ s \in Seq(FrameType) /\ n \in Nat /\ DOMAIN s = 1..n /\ s # <<>> /\ h \in HandlerType
      /\ n > 1 /\ n = Len(s)
  BY <1>n, StackFacts DEF SoundHandler
<1>2. StackOf(r, s) /\ s[n].svc = r /\ d = s[1].svc
      /\ \A i \in 1..n : \A x \in s[i].need \ s[i].todo :
            st[x] = "running" \/ (i > 1 /\ x = s[i - 1].svc)
  BY <1>1 DEF SoundHandler, StackOf, Read
<1> HIDE DEF s
<1>3. /\ tail \in Seq(FrameType) /\ Len(tail) = n - 1 /\ DOMAIN tail = 1..(n - 1)
      /\ \A i \in 1..(n - 1) : tail[i] = s[i + 1] /\ i + 1 \in 1..n /\ tail[i] \in FrameType
  BY <1>1, HeadTailProperties, LenProperties, ElementOfSeq
<1> HIDE DEF tail
<1>4. \A i \in 1..(n - 1) :
        /\ frame(i) \in FrameType /\ frame(i).svc = s[i + 1].svc /\ frame(i).todo = s[i + 1].todo
        /\ frame(i).need \subseteq s[i + 1].need /\ (i = 1 => d \notin frame(i).need)
  BY <1>3 DEF FrameType
<1>5. [tail EXCEPT ![1].need = @ \ {d}] = new
  <2>1. tail = [i \in 1..(n - 1) |-> tail[i]]
    BY <1>3
  <2> QED BY <2>1
<1> HIDE DEF frame
<1>6. new \in Seq(FrameType) /\ Len(new) = n - 1 /\ DOMAIN new = 1..(n - 1)
      /\ \A i \in 1..(n - 1) : new[i] = frame(i)
  BY <1>1, <1>4, IsASeq
<1> HIDE DEF new
<1>7. g.at = "deps" /\ g.stack = new /\ g \in HandlerType
  <2>1. g = [h EXCEPT !.at = "deps", !.stack = new]
    BY <1>5 DEF tail, s
  <2> HIDE DEF s, tail, new
  <2>2. PICK q \in Seq(FrameType) : q = new
    BY <1>6
  <2>3. g = [h EXCEPT !.at = "deps", !.stack = q]
    BY <2>1, <2>2
  <2> QED BY <1>1, <2>2, <2>3 DEF HandlerType
<1>8. new # <<>>
  BY <1>1, <1>6, EmptySeq
<1>9. StackOf(r, new)
  <2>1. n - 1 \in 1..(n - 1) /\ (n - 1) + 1 = n
    BY <1>1
  <2>2. new[Len(new)].svc = r
    BY <1>2, <1>4, <1>6, <2>1
  <2>3. ASSUME NEW i \in 1..(n - 1), NEW j \in 1..(n - 1), new[i].svc = new[j].svc PROVE i = j
    <3>1. i + 1 \in DOMAIN s /\ j + 1 \in DOMAIN s /\ s[i + 1].svc = s[j + 1].svc
      BY <1>1, <1>3, <1>4, <1>6, <2>3
    <3>2. i + 1 = j + 1
      BY <1>2, <3>1 DEF StackOf
    <3> QED BY <1>1, <3>2
  <2> QED BY <1>6, <2>2, <2>3 DEF StackOf
<1>10. Read(g, st)
  <2> SUFFICES ASSUME NEW i \in 1..(n - 1), NEW x \in new[i].need \ new[i].todo
               PROVE  st[x] = "running" \/ (i > 1 /\ x = new[i - 1].svc)
    BY <1>6, <1>7 DEF Read
  <2>1. x \in s[i + 1].need \ s[i + 1].todo /\ (i = 1 => x # d) /\ i + 1 \in 1..n
    BY <1>3, <1>4, <1>6
  <2>2. (i + 1) - 1 = i
    BY <1>1
  <2>3. st[x] = "running" \/ x = s[i].svc
    BY <1>2, <2>1, <2>2
  <2>4. CASE i = 1
    BY <1>2, <2>1, <2>3, <2>4
  <2>5. CASE i > 1
    <3>1. i - 1 \in 1..(n - 1) /\ (i - 1) + 1 = i
      BY <1>1, <2>5
    <3>2. new[i - 1].svc = s[i].svc
      BY <1>4, <1>6, <3>1
    <3> QED BY <2>3, <2>5, <3>2
  <2>6. i = 1 \/ i > 1
    BY <1>1
  <2> QED BY <2>4, <2>5, <2>6
<1> QED BY <1>7, <1>8, <1>9, <1>10 DEF SoundHandler

(* A call c of startDependencies, within the last one, which passed over    *)
(* services that run and has todo left.                                     *)
Pushed(h, c, todo) ==
    [h EXCEPT !.stack = <<c, [h.stack[1] EXCEPT !.todo = todo]>> \o Tail(@)]

CanPush(h, st, c, todo) ==
    /\ h.at = "deps"
    /\ c \in FrameType /\ c.need = c.todo
    /\ \A i \in DOMAIN h.stack : h.stack[i].svc # c.svc
    /\ todo \in SUBSET Services
    /\ \A x \in h.stack[1].todo \ todo : st[x] = "running" \/ x = c.svc

(* The stack new is s with the call c on it. *)
IsPushed(new, s, c, todo) ==
    /\ Len(new) = Len(s) + 1
    /\ DOMAIN new = 1..(Len(s) + 1)
    /\ new[1] = c
    /\ new[2].need = s[1].need /\ new[2].todo = todo
    /\ \A i \in 2..(Len(s) + 1) : i - 1 \in 1..Len(s) /\ new[i].svc = s[i - 1].svc
    /\ \A i \in 3..(Len(s) + 1) : new[i] = s[i - 1] /\ i - 1 \in 2..Len(s)

LEMMA PushedStack ==
    ASSUME NEW r \in Services, NEW st, NEW h, SoundHandler(r, h),
           NEW c, NEW todo, CanPush(h, st, c, todo)
    PROVE  /\ Pushed(h, c, todo) \in HandlerType /\ Pushed(h, c, todo).at = "deps"
           /\ IsPushed(Pushed(h, c, todo).stack, h.stack, c, todo)
<1>n. PICK n : n = Len(h.stack)
  OBVIOUS
<1>p. PICK new : new = Pushed(h, c, todo).stack
  OBVIOUS
<1> DEFINE s == h.stack
           t == [s[1] EXCEPT !.todo = todo]
           tail == Tail(s)
           two == <<c, t>>
<1>1. /\ s \in Seq(FrameType) /\ n \in Nat /\ DOMAIN s = 1..n /\ s # <<>> /\ h \in HandlerType
      /\ 1 \in 1..n /\ s[1] \in FrameType /\ n = Len(s) /\ n >= 1
      /\ h.at = "deps" /\ c \in FrameType /\ todo \in SUBSET Services
  <2>1. h.at = "deps" /\ c \in FrameType /\ todo \in SUBSET Services
    BY DEF CanPush
  <2>2. /\ s \in Seq(FrameType) /\ n \in Nat /\ DOMAIN s = 1..n /\ s # <<>> /\ h \in HandlerType
        /\ 1 \in 1..n /\ s[1] \in FrameType
    BY <1>n, <2>1, StackFacts DEF SoundHandler
  <2> QED BY <1>n, <2>1, <2>2
<1>2. t \in FrameType /\ t.svc = s[1].svc /\ t.need = s[1].need /\ t.todo = todo
  BY <1>1 DEF FrameType
<1> HIDE DEF s, t
<1>3. /\ tail \in Seq(FrameType) /\ Len(tail) = n - 1 /\ n - 1 \in Nat
      /\ \A i \in 1..(n - 1) : tail[i] = s[i + 1]
  BY <1>1, HeadTailProperties
<1>4. two \in Seq(FrameType) /\ Len(two) = 2 /\ two[1] = c /\ two[2] = t
  BY <1>1, <1>2
<1> HIDE DEF tail, two
<1>5. Pushed(h, c, todo) = [h EXCEPT !.stack = two \o tail]
  BY DEF Pushed, two, t, tail, s
<1>6. /\ two \o tail \in Seq(FrameType) /\ Len(two \o tail) = 2 + (n - 1)
      /\ \A i \in 1..(2 + (n - 1)) : (two \o tail)[i] = IF i <= 2 THEN two[i] ELSE tail[i - 2]
  <2>1. /\ two \o tail \in Seq(FrameType) /\ Len(two \o tail) = Len(two) + Len(tail)
        /\ \A i \in 1..(Len(two) + Len(tail)) :
             (two \o tail)[i] = IF i <= Len(two) THEN two[i] ELSE tail[i - Len(two)]
    <3>1. two \in Seq(FrameType) /\ tail \in Seq(FrameType)
      BY <1>3, <1>4
    <3> QED BY <3>1, ConcatProperties, Zenon
  <2>2. PICK both : both = two \o tail
    OBVIOUS
  <2> QED BY <1>3, <1>4, <2>1, <2>2
<1>7. new = two \o tail /\ Pushed(h, c, todo) \in HandlerType /\ Pushed(h, c, todo).at = "deps"
  <2>1. PICK both : both = two \o tail
    OBVIOUS
  <2>2. Pushed(h, c, todo) = [h EXCEPT !.stack = both] /\ both \in Seq(FrameType)
    BY <1>5, <1>6, <2>1
  <2> QED BY <1>1, <1>p, <2>1, <2>2 DEF HandlerType
<1>8. /\ new \in Seq(FrameType) /\ Len(new) = 2 + (n - 1)
      /\ \A i \in 1..(2 + (n - 1)) : new[i] = IF i <= 2 THEN two[i] ELSE tail[i - 2]
  BY <1>6, <1>7
<1>9. /\ Len(new) = n + 1 /\ DOMAIN new = 1..(n + 1)
      /\ new[1] = c /\ new[2] = t
      /\ \A i \in 3..(n + 1) : new[i] = s[i - 1] /\ i - 1 \in 2..n
  <2>1. 2 + (n - 1) = n + 1 /\ 1 \in 1..(n + 1) /\ 2 \in 1..(n + 1)
    BY <1>1
  <2>2. DOMAIN new = 1..(n + 1)
    BY <1>8, <2>1, LenProperties
  <2>3. ASSUME NEW i \in 3..(n + 1) PROVE new[i] = s[i - 1] /\ i - 1 \in 2..n
    <3>1. i \in 1..(n + 1) /\ ~(i <= 2) /\ i - 2 \in 1..(n - 1) /\ (i - 2) + 1 = i - 1 /\ i - 1 \in 2..n
      BY <1>1
    <3> QED BY <1>3, <1>8, <2>1, <3>1
  <2>4. \A i \in 1..(n + 1) : i <= 2 => new[i] = two[i]
    BY <1>8, <2>1
  <2>5. new[1] = c /\ new[2] = t
    BY <1>4, <2>1, <2>4
  <2> QED BY <1>8, <2>1, <2>2, <2>3, <2>5
<1>10. ASSUME NEW i \in 2..(n + 1) PROVE i - 1 \in 1..n /\ new[i].svc = s[i - 1].svc
  <2>1. i - 1 \in 1..n /\ (i = 2 \/ i \in 3..(n + 1))
    BY <1>1
  <2>2. CASE i = 2
    <3>1. i - 1 = 1
      BY <2>2
    <3> QED BY <1>2, <1>9, <2>1, <2>2, <3>1
  <2>3. CASE i \in 3..(n + 1)
    BY <1>9, <2>1, <2>3
  <2> QED BY <2>1, <2>2, <2>3
<1>11. IsPushed(new, s, c, todo)
  <2>1. n = Len(s)
    BY <1>1
  <2>2. /\ Len(new) = n + 1 /\ DOMAIN new = 1..(n + 1) /\ new[1] = c
        /\ new[2].need = s[1].need /\ new[2].todo = todo
        /\ \A i \in 2..(n + 1) : i - 1 \in 1..n /\ new[i].svc = s[i - 1].svc
        /\ \A i \in 3..(n + 1) : new[i] = s[i - 1] /\ i - 1 \in 2..n
    BY <1>2, <1>9, <1>10
  <2> QED BY <2>1, <2>2 DEF IsPushed
<1> QED BY <1>p, <1>7, <1>11 DEF s

LEMMA PushSound ==
    ASSUME NEW r \in Services, NEW st, NEW h, SoundHandler(r, h), Read(h, st),
           NEW c, NEW todo, CanPush(h, st, c, todo)
    PROVE  /\ SoundHandler(r, Pushed(h, c, todo)) /\ Read(Pushed(h, c, todo), st)
           /\ Pushed(h, c, todo).at = "deps"
<1> DEFINE g == Pushed(h, c, todo)
           s == h.stack
           n == Len(s)
           new == g.stack
<1>c. /\ c.need = c.todo
      /\ \A i \in DOMAIN s : s[i].svc # c.svc
      /\ \A x \in s[1].todo \ todo : st[x] = "running" \/ x = c.svc
      /\ h.at = "deps"
  BY DEF CanPush
<1>1. n \in Nat /\ DOMAIN s = 1..n /\ 1 \in 1..n /\ n >= 1
  BY <1>c, StackFacts
<1>6. /\ g \in HandlerType /\ g.at = "deps"
      /\ Len(new) = n + 1 /\ DOMAIN new = 1..(n + 1)
      /\ new[1] = c
      /\ new[2].need = s[1].need /\ new[2].todo = todo
      /\ \A i \in 2..(n + 1) : i - 1 \in 1..n /\ new[i].svc = s[i - 1].svc
      /\ \A i \in 3..(n + 1) : new[i] = s[i - 1] /\ i - 1 \in 2..n
  BY PushedStack DEF IsPushed
<1>8. StackOf(r, s) /\ s[n].svc = r
  BY <1>1 DEF SoundHandler, StackOf
<1>r. \A i \in DOMAIN s : \A x \in s[i].need \ s[i].todo :
        st[x] = "running" \/ (i > 1 /\ x = s[i - 1].svc)
  BY DEF Read
<1> HIDE DEF s, n, g
<1>7. new # <<>>
  BY <1>1, <1>6, EmptySeq
<1>9. StackOf(r, new)
  <2>1. new[Len(new)].svc = r
    <3>1. n + 1 \in 2..(n + 1) /\ (n + 1) - 1 = n
      BY <1>1
    <3> QED BY <1>6, <1>8, <3>1
  <2>2. \A i \in 2..(n + 1) : i - 1 \in DOMAIN s /\ new[i].svc = s[i - 1].svc
    BY <1>1, <1>6
  <2>3. ASSUME NEW i \in 1..(n + 1), NEW j \in 1..(n + 1), new[i].svc = new[j].svc PROVE i = j
    <3>1. i \in 2..(n + 1) \/ i = 1
      BY <1>1
    <3>2. j \in 2..(n + 1) \/ j = 1
      BY <1>1
    <3>3. \A k \in 2..(n + 1) : new[k].svc # new[1].svc
      BY <1>c, <1>6, <2>2
    <3>4. CASE i \in 2..(n + 1) /\ j \in 2..(n + 1)
      <4>1. i - 1 = j - 1
        BY <1>8, <2>2, <2>3, <3>4 DEF StackOf
      <4> QED BY <1>1, <3>4, <4>1
    <3> QED BY <2>3, <3>1, <3>2, <3>3, <3>4
  <2> QED BY <1>6, <2>1, <2>3 DEF StackOf
<1>10. Read(g, st)
  <2> SUFFICES ASSUME NEW i \in 1..(n + 1), NEW x \in new[i].need \ new[i].todo
               PROVE  st[x] = "running" \/ (i > 1 /\ x = new[i - 1].svc)
    BY <1>6 DEF Read
  <2>1. CASE i = 1
    BY <1>c, <1>6, <2>1
  <2>2. CASE i = 2
    <3>1. x \in s[1].need \ todo
      BY <1>6, <2>2
    <3>2. CASE x \in s[1].todo
      <4>1. st[x] = "running" \/ x = c.svc
        BY <1>c, <3>1, <3>2
      <4>2. i > 1 /\ i - 1 = 1
        BY <2>2
      <4> QED BY <1>6, <4>1, <4>2
    <3>3. CASE x \notin s[1].todo
      BY <1>1, <1>r, <3>1, <3>3
    <3> QED BY <3>2, <3>3
  <2>3. CASE i \in 3..(n + 1)
    <3>1. i - 1 \in DOMAIN s /\ x \in s[i - 1].need \ s[i - 1].todo
      BY <1>1, <1>6, <2>3
    <3>2. st[x] = "running" \/ x = s[(i - 1) - 1].svc
      BY <1>r, <3>1
    <3>3. i - 1 \in 2..(n + 1) /\ i > 1
      BY <1>1, <2>3
    <3> QED BY <1>6, <3>2, <3>3
  <2>4. i = 1 \/ i = 2 \/ i \in 3..(n + 1)
    BY <1>1
  <2> QED BY <2>1, <2>2, <2>3, <2>4
<1> QED BY <1>6, <1>7, <1>9, <1>10 DEF SoundHandler, g

------------------------------------------------------------------------------
(* What each action does to statuses, handlers and locks. *)

Core ==
    /\ status' \in [Services -> Status]
    /\ Handlers(handler', status')
    /\ Locking(locks', handler')

(* Where the handlers, ready for it, see a service become v. *)
LEMMA BecomesCore ==
    ASSUME status \in [Services -> Status], NEW hs, Handlers(hs, status), Locking(locks', hs),
           NEW s \in Services, NEW v \in Status, Becomes(s, v, hs)
    PROVE  Core
<1>1. status' = [status EXCEPT ![s] = v]
  BY DEF Becomes
<1>2. /\ Handlers(handler', [status EXCEPT ![s] = v])
      /\ \A r \in Services : SameShape(handler'[r], hs[r])
  BY AfterBecoming DEF Becomes
<1>3. Locking(locks', handler')
  BY <1>2, SameLocks
<1> QED BY <1>1, <1>2, <1>3 DEF Core

(* The handler of r becomes h, and nothing else happens. *)
LEMMA HandlerCore ==
    ASSUME status \in [Services -> Status], Handlers(handler, status), NEW r \in Services,
           NEW h, SoundHandler(r, h), Read(h, status), handler' = [handler EXCEPT ![r] = h],
           UNCHANGED status, Moves(r, handler', handler) => Locking(locks', handler')
    PROVE  Core
<1>1. Handlers(handler', status) /\ Moves(r, handler', handler)
  <2>1. PICK gs : gs = [handler EXCEPT ![r] = h]
    OBVIOUS
  <2>2. Handlers(gs, status)
    BY <2>1, OneMoves
  <2>3. Moves(r, gs, handler)
    BY <2>1 DEF Moves, Handlers
  <2> QED BY <2>1, <2>2, <2>3
<1> QED BY <1>1 DEF Core

LEMMA SameCore ==
    ASSUME IInv, UNCHANGED <<status, handler, locks>>
    PROVE  Core
BY DEF IInv, Plain, Core

(* The type of a status and what is known of a handler. *)
LEMMA HandlerFacts ==
    ASSUME IInv, NEW r \in Services
    PROVE  /\ SoundHandler(r, handler[r]) /\ Read(handler[r], status)
           /\ handler[r] \in HandlerType /\ status \in [Services -> Status]
           /\ dependsOn \in [Services -> SUBSET Services]
           /\ handler \in [Services -> HandlerType]
           /\ Handlers(handler, status) /\ Locking(locks, handler)
BY DEF IInv, Plain, Handlers

LEMMA StatusesAre == {"stopped", "starting", "running", "stopping", "crashed"} = Status
BY DEF Status

LEMMA EnterCore ==
    ASSUME IInv, NEW r \in Services, NEW b \in BOOLEAN, Enter(r, b)
    PROVE  Core
<1> DEFINE h == [at |-> "deps", bulk |-> b, stack |-> <<Call(r)>>]
<1>1. SoundHandler(r, h) /\ Read(h, status) /\ h.at = "deps"
  BY CallSound, HandlerFacts
<1>2. /\ handler' = [handler EXCEPT ![r] = h] /\ r \notin locks /\ locks' = locks \cup {r}
      /\ UNCHANGED status
  BY DEF Enter
<1> HIDE DEF h
<1>3. handler'[r] = h
  BY <1>2, HandlerFacts
<1>4. Moves(r, handler', handler) => Locking(locks', handler')
  BY <1>1, <1>2, <1>3, TakesLock, HandlerFacts
<1> QED BY <1>1, <1>2, <1>4, HandlerCore, HandlerFacts

LEMMA EnterRestartCore ==
    ASSUME IInv, NEW r \in Services, NEW b \in BOOLEAN, EnterRestart(r, b)
    PROVE  Core
<1> DEFINE h == [at |-> "stop", bulk |-> b, stack |-> <<>>]
           hs == [handler EXCEPT ![r] = h]
<1>1. SoundHandler(r, h) /\ Read(h, status) /\ h.at = "stop"
  <2>1. <<>> \in Seq(FrameType) /\ Len(<<>>) = 0 /\ DOMAIN <<>> = {}
    BY EmptySeq
  <2> QED BY <2>1 DEF SoundHandler, Read, StackOf, HandlerType
<1>2. r \notin locks /\ locks' = locks \cup {r} /\ Becomes(r, "stopping", hs)
  BY DEF EnterRestart
<1> HIDE DEF h
<1>3. Handlers(hs, status) /\ hs[r] = h /\ Moves(r, hs, handler)
  BY <1>1, OneMoves, HandlerFacts DEF Moves
<1> HIDE DEF hs
<1>4. Locking(locks', hs)
  BY <1>1, <1>2, <1>3, TakesLock, HandlerFacts
<1> QED BY <1>2, <1>3, <1>4, BecomesCore, HandlerFacts, StatusesAre

LEMMA RestartStoppedCore ==
    ASSUME IInv, NEW r \in Services, RestartStopped(r)
    PROVE  Core
<1> DEFINE h == [handler[r] EXCEPT !.at = "deps", !.stack = <<Call(r)>>]
           hs == [handler EXCEPT ![r] = h]
<1>1. SoundHandler(r, h) /\ Read(h, status) /\ h.at = "deps"
  <2>1. h \in [at : {"deps"}, bulk : BOOLEAN, stack : {<<Call(r)>>}] /\ h.at = "deps"
        /\ h.stack = <<Call(r)>>
    BY HandlerFacts DEF HandlerType
  <2> HIDE DEF h
  <2> QED BY <2>1, CallSound, HandlerFacts
<1>2. handler[r].at = "stop" /\ locks' = locks /\ Becomes(r, "stopped", hs)
  BY HandlerFacts DEF RestartStopped
<1> HIDE DEF h
<1>3. Handlers(hs, status) /\ hs[r] = h /\ Moves(r, hs, handler)
  BY <1>1, OneMoves, HandlerFacts DEF Moves
<1> HIDE DEF hs
<1>4. Locking(locks', hs)
  BY <1>1, <1>2, <1>3, KeepsLock, HandlerFacts
<1> QED BY <1>2, <1>3, <1>4, BecomesCore, HandlerFacts, StatusesAre

LEMMA VisitingIs ==
    ASSUME NEW r, NEW d
    PROVE  d \in Visiting(r) <=> \E i \in DOMAIN handler[r].stack : handler[r].stack[i].svc = d
BY DEF Visiting

LEMMA RecurseCore ==
    ASSUME IInv, NEW r \in Services, Recurse(r)
    PROVE  Core
<1>1. PICK d \in Down(r) \ Visiting(r), passed \in SUBSET (Top(r).todo \ Down(r)) :
        handler' = [handler EXCEPT ![r].stack =
            <<Call(d), [Top(r) EXCEPT !.todo = @ \ ({d} \cup passed)]>> \o Tail(@)]
  BY DEF Recurse
<1>2. handler[r].at = "deps" /\ Top(r) = handler[r].stack[1] /\ Top(r) \in FrameType
  BY HandlerFacts, StackFacts DEF Recurse, Top
<1> DEFINE c == Call(d)
           todo == Top(r).todo \ ({d} \cup passed)
           h == Pushed(handler[r], c, todo)
<1>3. d \in Services /\ todo \in SUBSET Services
  BY <1>2 DEF Down, FrameType
<1>4. c \in FrameType /\ c.svc = d /\ c.need = c.todo
  BY <1>3, HandlerFacts DEF Call, FrameType
<1>5. handler' = [handler EXCEPT ![r] = h] /\ UNCHANGED <<status, locks>>
  BY <1>1, <1>2, HandlerFacts DEF Recurse, Pushed
<1>6. \A x \in handler[r].stack[1].todo \ todo : status[x] = "running" \/ x = c.svc
  BY <1>2, <1>4 DEF Down
<1>7. \A i \in DOMAIN handler[r].stack : handler[r].stack[i].svc # c.svc
  BY <1>4, VisitingIs
<1> HIDE DEF c, todo
<1>8. CanPush(handler[r], status, c, todo)
  BY <1>2, <1>3, <1>4, <1>6, <1>7 DEF CanPush
<1>9. SoundHandler(r, h) /\ Read(h, status) /\ h.at = "deps"
  BY <1>8, PushSound, HandlerFacts
<1> HIDE DEF h
<1>10. handler'[r] = h
  BY <1>5, HandlerFacts
<1>11. Moves(r, handler', handler) => Locking(locks', handler')
  BY <1>2, <1>5, <1>9, <1>10, KeepsLock, HandlerFacts
<1> QED BY <1>5, <1>9, <1>11, HandlerCore, HandlerFacts

(* A handler ends outside the start of a dependency, or goes on. *)
LEMMA LeaveCore ==
    ASSUME IInv, NEW r \in Services, handler[r].at \in {"deps", "own"},
           Leave(r, {}, handler), UNCHANGED status
    PROVE  Core
<1>1. /\ handler' = [handler EXCEPT ![r] = Idle] /\ handler'[r] = Idle /\ locks' = locks \ {r}
      /\ SoundHandler(r, Idle) /\ Read(Idle, status) /\ handler'[r].at = "idle"
  BY IdleSound, HandlerFacts DEF Leave
<1>2. Moves(r, handler', handler) => Locking(locks', handler')
  BY <1>1, GivesBack, HandlerFacts
<1> QED BY <1>1, <1>2, HandlerCore, HandlerFacts

LEMMA RootOrNot ==
    ASSUME IInv, NEW r \in Services, handler[r].at \in {"deps", "dep", "own"}
    PROVE  /\ AtRoot(r) <=> Len(handler[r].stack) = 1
           /\ ~AtRoot(r) <=> Len(handler[r].stack) > 1
           /\ Top(r) = handler[r].stack[1] /\ Top(r).svc \in Services
<1>1. /\ handler[r].stack # <<>> /\ Len(handler[r].stack) \in Nat /\ 1 \in 1..Len(handler[r].stack)
      /\ Top(r) = handler[r].stack[1] /\ Top(r).svc \in Services
  BY StackFacts, HandlerFacts DEF Top
<1>2. Len(handler[r].stack) # 1 <=> Len(handler[r].stack) > 1
  <2>1. \A k \in Nat : 1 \in 1..k => (k # 1 <=> k > 1)
    OBVIOUS
  <2> QED BY <1>1, <2>1
<1> QED BY <1>1, <1>2 DEF AtRoot

LEMMA StartDepCore ==
    ASSUME IInv, NEW r \in Services, StartDep(r)
    PROVE  Core
<1> DEFINE h == [handler[r] EXCEPT !.at = "dep"]
           hs == [handler EXCEPT ![r] = h]
           d == Top(r).svc
<1>1. /\ handler[r].at = "deps" /\ Len(handler[r].stack) > 1 /\ d \in Services
      /\ d = handler[r].stack[1].svc /\ Len(handler[r].stack) # 1
  <2>1. handler[r].at = "deps" /\ ~AtRoot(r)
    BY DEF StartDep, Walked
  <2> QED BY <2>1, RootOrNot
<1>2. SoundHandler(r, h) /\ Read(h, status) /\ h.at = "dep" /\ h.stack = handler[r].stack
  <2>1. "dep" \in {"dep", "own"} /\ ("dep" = "own" <=> Len(handler[r].stack) = 1)
    BY <1>1
  <2>2. SoundHandler(r, handler[r]) /\ Read(handler[r], status)
    BY HandlerFacts
  <2> HIDE DEF h
  <2>3. h = [handler[r] EXCEPT !.at = "dep"]
    BY DEF h
  <2> QED BY <1>1, <2>1, <2>2, <2>3, AwaitSound
<1>3. d \notin locks /\ locks' = locks \cup {d} /\ Becomes(d, "starting", hs)
  BY HandlerFacts DEF StartDep, Begin
<1> HIDE DEF h, d
<1>4. Handlers(hs, status) /\ hs[r] = h /\ Moves(r, hs, handler)
  BY <1>2, OneMoves, HandlerFacts DEF Moves
<1> HIDE DEF hs
<1>5. Locking(locks', hs)
  BY <1>1, <1>2, <1>3, <1>4, LocksDep, HandlerFacts
<1> QED BY <1>1, <1>3, <1>4, <1>5, BecomesCore, HandlerFacts, StatusesAre

LEMMA StartOwnCore ==
    ASSUME IInv, NEW r \in Services, StartOwn(r)
    PROVE  Core
<1> DEFINE h == [handler[r] EXCEPT !.at = "own"]
           hs == [handler EXCEPT ![r] = h]
<1>1. handler[r].at = "deps" /\ Len(handler[r].stack) = 1
  BY RootOrNot DEF StartOwn, Walked
<1>2. SoundHandler(r, h) /\ Read(h, status) /\ h.at = "own"
  <2>1. "own" \in {"dep", "own"} /\ ("own" = "own" <=> Len(handler[r].stack) = 1)
    BY <1>1
  <2>2. SoundHandler(r, handler[r]) /\ Read(handler[r], status)
    BY HandlerFacts
  <2> HIDE DEF h
  <2>3. h = [handler[r] EXCEPT !.at = "own"]
    BY DEF h
  <2> QED BY <1>1, <2>1, <2>2, <2>3, AwaitSound
<1>3. locks' = locks /\ Becomes(r, "starting", hs)
  BY HandlerFacts DEF StartOwn, Begin
<1> HIDE DEF h
<1>4. Handlers(hs, status) /\ hs[r] = h /\ Moves(r, hs, handler)
  BY <1>2, OneMoves, HandlerFacts DEF Moves
<1> HIDE DEF hs
<1>5. Locking(locks', hs)
  BY <1>1, <1>2, <1>3, <1>4, KeepsLock, HandlerFacts
<1> QED BY <1>3, <1>4, <1>5, BecomesCore, HandlerFacts, StatusesAre

LEMMA DepUpAlreadyCore ==
    ASSUME IInv, NEW r \in Services, DepUpAlready(r)
    PROVE  Core
<1>d. PICK d : d = handler[r].stack[1].svc
  OBVIOUS
<1>p. PICK popped : popped = [handler[r] EXCEPT !.at = "deps", !.stack = Tail(@)]
  OBVIOUS
<1>l. PICK left : left = [Tail(handler[r].stack) EXCEPT ![1].need = @ \ {d}]
  OBVIOUS
<1>q. PICK passed : passed = [handler[r] EXCEPT !.at = "deps", !.stack = left]
  OBVIOUS
<1>h. PICK h : h = IF status[d] = "running" THEN popped ELSE passed
  OBVIOUS
<1>0. SoundHandler(r, handler[r]) /\ Read(handler[r], status)
  BY HandlerFacts
<1>1. /\ handler[r].at = "deps" /\ Len(handler[r].stack) > 1
      /\ Top(r).svc = d /\ d \in tracked
  <2>1. handler[r].at = "deps" /\ ~AtRoot(r) /\ Top(r).svc \in tracked
    BY DEF DepUpAlready, Walked
  <2> QED BY <1>d, <2>1, RootOrNot
<1>2. ASSUME status[d] = "running" PROVE SoundHandler(r, h) /\ Read(h, status) /\ h.at = "deps"
  <2>1. status[handler[r].stack[1].svc] = "running" /\ handler[r].at \in {"deps", "dep"}
    BY <1>1, <1>2, <1>d
  <2>2. SoundHandler(r, popped) /\ Read(popped, status) /\ popped.at = "deps"
    BY <1>0, <1>1, <1>p, <2>1, PopSound
  <2> QED BY <1>2, <1>h, <2>2
<1>3. ASSUME status[d] # "running" PROVE SoundHandler(r, h) /\ Read(h, status) /\ h.at = "deps"
  <2>1. PICK hr, st : hr = handler[r] /\ st = status
    OBVIOUS
  <2>2. SoundHandler(r, hr) /\ Read(hr, st) /\ hr.at = "deps" /\ Len(hr.stack) > 1
        /\ d = hr.stack[1].svc
    BY <1>0, <1>1, <1>d, <2>1
  <2>3. left = [Tail(hr.stack) EXCEPT ![1].need = @ \ {d}]
        /\ passed = [hr EXCEPT !.at = "deps", !.stack = left]
    BY <1>l, <1>q, <2>1
  <2>4. SoundHandler(r, passed) /\ Read(passed, st) /\ passed.at = "deps"
    BY <2>2, <2>3, PassedSound, Zenon
  <2>5. SoundHandler(r, passed) /\ Read(passed, status) /\ passed.at = "deps"
    BY <2>1, <2>4
  <2> QED BY <1>3, <1>h, <2>5
<1>4. SoundHandler(r, h) /\ Read(h, status) /\ h.at = "deps"
  BY <1>2, <1>3
<1>5. handler' = [handler EXCEPT ![r] = h] /\ UNCHANGED <<status, locks>>
  <2>1. UNCHANGED <<status, locks>>
        /\ handler' = IF status[d] = "running" THEN Pop(r, handler)
                      ELSE [Pop(r, handler) EXCEPT ![r].stack[1].need = @ \ ({d} \cap ended)]
    BY <1>1 DEF DepUpAlready
  <2>2. Pop(r, handler) = [handler EXCEPT ![r] = popped]
    BY <1>p, HandlerFacts DEF Pop
  <2>3. CASE status[d] = "running"
    BY <1>h, <2>1, <2>2, <2>3
  <2>4. CASE status[d] # "running"
    <3>1. {d} \cap ended = {d}
      BY <1>1, <2>4 DEF IInv, Tracking
    <3>2. handler' = [Pop(r, handler) EXCEPT ![r].stack[1].need = @ \ {d}]
      BY <2>1, <2>4, <3>1
    <3>3. [popped EXCEPT !.stack[1].need = @ \ {d}] = passed
      <4>1. handler[r] \in [at : {"idle", "stop", "deps", "dep", "own"}, bulk : BOOLEAN,
                            stack : Seq(FrameType)]
        BY HandlerFacts DEF HandlerType
      <4>2. PICK tail : tail = Tail(handler[r].stack)
        OBVIOUS
      <4>3. popped = [handler[r] EXCEPT !.at = "deps", !.stack = tail]
        BY <1>p, <4>2
      <4>4. passed = [handler[r] EXCEPT !.at = "deps", !.stack = [tail EXCEPT ![1].need = @ \ {d}]]
        BY <1>q, <1>l, <4>2
      <4>5. [popped EXCEPT !.stack[1].need = @ \ {d}]
              = [popped EXCEPT !.stack = [tail EXCEPT ![1].need = @ \ {d}]]
        BY <4>1, <4>3
      <4>6. PICK rest : rest = [tail EXCEPT ![1].need = @ \ {d}]
        OBVIOUS
      <4> QED BY <4>1, <4>3, <4>4, <4>5, <4>6
    <3>4. handler' = [[handler EXCEPT ![r] = popped] EXCEPT ![r].stack[1].need = @ \ {d}]
      BY <2>2, <3>2
    <3>5. handler' = [handler EXCEPT ![r] = [popped EXCEPT !.stack[1].need = @ \ {d}]]
      BY <3>4, HandlerFacts
    <3> QED BY <1>h, <2>1, <2>4, <3>3, <3>5
  <2> QED BY <2>1, <2>3, <2>4
<1>6. handler'[r] = h
  BY <1>5, HandlerFacts
<1>7. Moves(r, handler', handler) => Locking(locks', handler')
  BY <1>1, <1>4, <1>5, <1>6, KeepsLock, HandlerFacts
<1> QED BY <1>4, <1>5, <1>7, HandlerCore, HandlerFacts

LEMMA DepStartedCore ==
    ASSUME IInv, NEW r \in Services, DepStarted(r)
    PROVE  Core
<1> DEFINE h == [handler[r] EXCEPT !.at = "deps", !.stack = Tail(@)]
           d == Top(r).svc
           now == [status EXCEPT ![d] = "running"]
<1>1. /\ handler[r].at = "dep" /\ Len(handler[r].stack) > 1 /\ d \in Services
      /\ d = handler[r].stack[1].svc
  BY RootOrNot, HandlerFacts DEF DepStarted, SoundHandler
<1>2. status' = now /\ handler' = [handler EXCEPT ![r] = h] /\ locks' = locks \ {d}
  BY HandlerFacts DEF DepStarted, Becomes, Pop
<1>3. now \in [Services -> Status] /\ now[d] = "running"
  BY <1>1, HandlerFacts DEF Status
<1>4. Handlers(handler, now)
  <2>1. handler = IF status[d] = "running" /\ "running" # "running" THEN Fallen(handler, d) ELSE handler
    OBVIOUS
  <2>2. "running" \in Status /\ Handlers(handler, status) /\ status \in [Services -> Status]
    BY HandlerFacts DEF Status
  <2> HIDE DEF d
  <2> QED BY <1>1, <2>1, <2>2, AfterBecoming
<1> HIDE DEF now
<1>5. SoundHandler(r, h) /\ Read(h, now) /\ h.at = "deps"
  <2>1. SoundHandler(r, handler[r]) /\ Read(handler[r], now)
    BY <1>4 DEF Handlers
  <2>2. now[handler[r].stack[1].svc] = "running"
    BY <1>1, <1>3
  <2> HIDE DEF h
  <2>3. h = [handler[r] EXCEPT !.at = "deps", !.stack = Tail(@)]
    BY DEF h
  <2> QED BY <1>1, <2>1, <2>2, <2>3, PopSound
<1> HIDE DEF h
<1>6. Handlers(handler', now) /\ handler'[r] = h /\ Moves(r, handler', handler)
  <2>1. Handlers(handler', now)
    BY <1>2, <1>4, <1>5, OneMoves
  <2> QED BY <1>2, <2>1, HandlerFacts DEF Moves
<1>7. Locking(locks', handler')
  <2>1. {d} = (IF handler'[r].at = "idle" THEN {r} ELSE {})
              \cup (IF handler[r].at = "dep" THEN {handler[r].stack[1].svc} ELSE {})
    BY <1>1, <1>5, <1>6
  <2> HIDE DEF d
  <2> QED BY <1>1, <1>2, <1>5, <1>6, <2>1, GivesBack, HandlerFacts
<1> QED BY <1>2, <1>3, <1>6, <1>7 DEF Core

LEMMA OwnStartedCore ==
    ASSUME IInv, NEW r \in Services, OwnStarted(r)
    PROVE  Core
<1> DEFINE now == [status EXCEPT ![r] = "running"]
<1>1. /\ handler[r].at = "own" /\ status' = now /\ locks' = locks \ {r}
      /\ handler' = [handler EXCEPT ![r] = Idle]
  BY DEF OwnStarted, Leave
<1>2. now \in [Services -> Status]
  BY HandlerFacts DEF Status
<1>3. Handlers(handler, now)
  <2>1. handler = IF status[r] = "running" /\ "running" # "running" THEN Fallen(handler, r) ELSE handler
    OBVIOUS
  <2>2. "running" \in Status /\ Handlers(handler, status) /\ status \in [Services -> Status]
    BY HandlerFacts DEF Status
  <2> QED BY <2>1, <2>2, AfterBecoming
<1> HIDE DEF now
<1>4. SoundHandler(r, Idle) /\ Read(Idle, now) /\ Idle.at = "idle"
  BY IdleSound
<1>5. Handlers(handler', now) /\ handler'[r] = Idle /\ Moves(r, handler', handler)
  <2>1. Handlers(handler', now)
    BY <1>1, <1>3, <1>4, OneMoves
  <2> QED BY <1>1, <2>1, HandlerFacts DEF Moves
<1>6. Locking(locks', handler')
  <2>1. {r} = (IF handler'[r].at = "idle" THEN {r} ELSE {})
              \cup (IF handler[r].at = "dep" THEN {handler[r].stack[1].svc} ELSE {})
    BY <1>1, <1>4, <1>5
  <2> QED BY <1>1, <1>4, <1>5, <2>1, GivesBack, HandlerFacts
<1> QED BY <1>1, <1>2, <1>5, <1>6 DEF Core

(* A start of s fails: the handler of r ends, and all see s crashed. *)
LEMMA FailedCore ==
    ASSUME IInv, NEW r \in Services, NEW s \in Services,
           \/ handler[r].at = "dep" /\ s = handler[r].stack[1].svc
           \/ handler[r].at = "own" /\ s = r,
           status' = [status EXCEPT ![s] = "crashed"],
           Leave(r, {s}, IF status[s] = "running" THEN Fallen(handler, s) ELSE handler)
    PROVE  Core
<1> DEFINE now == [status EXCEPT ![s] = "crashed"]
           gs == IF status[s] = "running" THEN Fallen(handler, s) ELSE handler
<1>1. status' = now /\ now \in [Services -> Status]
  BY HandlerFacts DEF Status
<1>2. handler' = [gs EXCEPT ![r] = Idle] /\ locks' = locks \ {r, s}
  BY DEF Leave
<1>3. Handlers(gs, now) /\ \A q \in Services : SameShape(gs[q], handler[q])
  <2>1. gs = IF status[s] = "running" /\ "crashed" # "running" THEN Fallen(handler, s) ELSE handler
    OBVIOUS
  <2>2. "crashed" \in Status /\ Handlers(handler, status) /\ status \in [Services -> Status]
    BY HandlerFacts DEF Status
  <2> HIDE DEF gs
  <2> QED BY <2>1, <2>2, AfterBecoming
<1> HIDE DEF gs, now
<1>4. Locking(locks, gs)
  BY <1>3, SameLocks, HandlerFacts
<1>5. SoundHandler(r, Idle) /\ Read(Idle, now) /\ Idle.at = "idle"
  BY IdleSound
<1>6. Handlers(handler', now) /\ handler'[r] = Idle /\ Moves(r, handler', gs)
  <2>1. Handlers(handler', now)
    BY <1>2, <1>3, <1>5, OneMoves
  <2>2. DOMAIN gs = Services
    BY <1>3 DEF Handlers
  <2> QED BY <1>2, <2>1, <2>2 DEF Moves
<1>7. gs[r].at = handler[r].at /\ (gs[r].at = "dep" => gs[r].stack[1].svc = handler[r].stack[1].svc)
  BY <1>3, ShapeKeeps, HandlerFacts
<1>8. {r, s} = (IF handler'[r].at = "idle" THEN {r} ELSE {})
               \cup (IF gs[r].at = "dep" THEN {gs[r].stack[1].svc} ELSE {})
  BY <1>5, <1>6, <1>7
<1>9. Locking(locks', handler')
  <2>1. gs[r].at # "idle"
    BY <1>7
  <2> QED BY <1>2, <1>4, <1>5, <1>6, <1>8, <2>1, GivesBack
<1> QED BY <1>1, <1>6, <1>9 DEF Core

LEMMA HandlerStepCore ==
    ASSUME IInv, NEW r \in Services, HandlerStep(r)
    PROVE  Core
<1>1. CASE CycleFound(r) \/ LockRefused(r) \/ OwnUpAlready(r)
  BY <1>1, LeaveCore DEF CycleFound, LockRefused, OwnUpAlready, Walked
<1>2. CASE DepFailed(r)
  <2>1. handler[r].at = "dep" /\ Top(r).svc \in Services /\ Top(r).svc = handler[r].stack[1].svc
    BY <1>2, RootOrNot DEF DepFailed
  <2> QED BY <1>2, <2>1, FailedCore DEF DepFailed
<1>3. CASE OwnFailed(r)
  <2>1. Leave(r, {r}, IF status[r] = "running" THEN Fallen(handler, r) ELSE handler)
    BY <1>3 DEF OwnFailed, Leave
  <2> QED BY <1>3, <2>1, FailedCore DEF OwnFailed
<1> QED BY <1>1, <1>2, <1>3, RestartStoppedCore, RecurseCore, StartDepCore, DepUpAlreadyCore,
           DepStartedCore, StartOwnCore, OwnStartedCore DEF HandlerStep

(* A service leaves "running" or not, while the handlers stay. *)
LEMMA StopCore ==
    ASSUME IInv, NEW s \in Services, NEW v \in Status, Becomes(s, v, handler), UNCHANGED locks
    PROVE  Core
<1>1. Handlers(handler, status) /\ Locking(locks', handler) /\ status \in [Services -> Status]
  BY HandlerFacts
<1> QED BY <1>1, BecomesCore

LEMMA BulkNextCore ==
    ASSUME IInv, NEW s \in Services, BulkNext(s)
    PROVE  Core
<1>1. CASE Enter(s, TRUE)
  BY <1>1, EnterCore
<1>2. CASE EnterRestart(s, TRUE)
  BY <1>2, EnterRestartCore
<1>3. CASE StopBegins(s) /\ UNCHANGED locks
  BY <1>3, StopCore, StatusesAre DEF StopBegins
<1>4. CASE UNCHANGED <<status, locks, handler>>
  BY <1>4, SameCore
<1> QED BY <1>1, <1>2, <1>3, <1>4 DEF BulkNext

LEMMA StepCore == ASSUME IInv, [Next]_vars PROVE Core
<1>1. ASSUME NEW s \in Services, Start(s) \/ BootStart(s) PROVE Core
  BY <1>1, EnterCore, SameCore DEF Start, BootStart
<1>2. ASSUME NEW s \in Services, Restart(s) PROVE Core
  BY <1>2, EnterRestartCore DEF Restart
<1>3. ASSUME NEW s \in Services, Stop(s) \/ StopEnds(s) \/ ExitHandled(s) \/ ContainerEnds(s) PROVE Core
  BY <1>3, StopCore, StatusesAre DEF Stop, StopBegins, StopEnds, ExitHandled, ContainerEnds
<1>4. ASSUME NEW s \in Services, Dies(s) \/ EditDependencies(s) PROVE Core
  BY <1>4, SameCore DEF Dies, EditDependencies
<1>5. ASSUME NEW op \in {"start", "restart", "stop"}, BulkRequest(op) PROVE Core
  BY <1>5, SameCore DEF BulkRequest
<1>6. CASE BulkEnds
  BY <1>6, SameCore DEF BulkEnds
<1>7. CASE UNCHANGED vars
  BY <1>7, SameCore DEF vars
<1> QED BY <1>1, <1>2, <1>3, <1>4, <1>5, <1>6, <1>7, HandlerStepCore, BulkNextCore DEF Next

------------------------------------------------------------------------------
(* The rest of the state. *)

LEMMA BulkTypes ==
    ASSUME bulk \in BulkType
    PROVE  /\ Disturbed \in BulkType /\ [bulk EXCEPT !.now = NoService] \in BulkType
           /\ [Disturbed EXCEPT !.now = NoService] \in BulkType
           /\ NoBulk \in BulkType
           /\ \A s \in Services : [bulk EXCEPT !.todo = @ \ {s}, !.now = s] \in BulkType
           /\ \A s \in Services : [bulk EXCEPT !.todo = @ \ {s}] \in BulkType
BY DEF BulkType, Disturbed, NoBulk

LEMMA BoundsKept ==
    ASSUME Plain, Asked \/ UNCHANGED requests, Fails \/ UNCHANGED failures
    PROVE  requests' \in 0..MaxRequests /\ failures' \in 0..MaxFailures
BY BoundsAssumption DEF Plain, Asked, Fails

LEMMA HandlerStepPlain ==
    ASSUME IInv, NEW r \in Services, HandlerStep(r), status' \in [Services -> Status]
    PROVE  Plain'
<1> USE DEF IInv, Plain
<1>1. UNCHANGED <<dependsOn, boot, stops, requests>> /\ (Fails \/ UNCHANGED failures)
  BY DEF HandlerStep, RestartStopped, Recurse, CycleFound, LockRefused, StartDep, DepUpAlready,
         DepStarted, DepFailed, StartOwn, OwnUpAlready, OwnStarted, OwnFailed
<1>2. bulk' \in BulkType
  <2>1. BulkGoesOn(r) => bulk' \in BulkType
    BY BulkTypes DEF BulkGoesOn
  <2>2. \A b \in BOOLEAN : [Disturbed EXCEPT !.now = IF b THEN NoService ELSE @] \in BulkType
    BY DEF BulkType, Disturbed
  <2>3. handler[r].bulk \in BOOLEAN
    BY HandlerFacts DEF HandlerType
  <2> QED BY <2>1, <2>2, <2>3 DEF HandlerStep, RestartStopped, Recurse, CycleFound, LockRefused, StartDep,
         DepUpAlready, DepStarted, DepFailed, StartOwn, OwnUpAlready, OwnStarted, OwnFailed
<1>3. requests' \in 0..MaxRequests /\ failures' \in 0..MaxFailures
  BY <1>1, BoundsKept
<1> QED BY <1>1, <1>2, <1>3

LEMMA StepPlain == ASSUME IInv, [Next]_vars, status' \in [Services -> Status] PROVE Plain'
<1> USE DEF IInv, Plain
<1>1. ASSUME NEW s \in Services, Start(s) \/ Restart(s) \/ BootStart(s) PROVE Plain'
  BY <1>1, BulkTypes, BoundsKept DEF Start, Restart, BootStart
<1>2. ASSUME NEW s \in Services, Stop(s) \/ Dies(s) \/ ExitHandled(s) \/ ContainerEnds(s)
      PROVE  Plain'
  BY <1>2, BulkTypes, BoundsKept DEF Stop, StopBegins, Dies, ExitHandled, ContainerEnds
<1>3. ASSUME NEW s \in Services, StopEnds(s) PROVE Plain'
  BY <1>3, BulkTypes DEF StopEnds
<1>4. ASSUME NEW s \in Services, EditDependencies(s) PROVE Plain'
  BY <1>4, BulkTypes, BoundsKept DEF EditDependencies
<1>5. ASSUME NEW op \in {"start", "restart", "stop"}, BulkRequest(op) PROVE Plain'
  <2>1. bulk' \in BulkType
    <3>1. \A r \in Services : Active(r) \in BOOLEAN
      BY DEF Active
    <3> QED BY <1>5, <3>1 DEF BulkRequest, BulkType
  <2> QED BY <1>5, <2>1, BoundsKept DEF BulkRequest
<1>6. ASSUME NEW s \in Services, BulkNext(s) PROVE Plain'
  <2>1. /\ stops' \subseteq Services /\ UNCHANGED <<dependsOn, boot, requests, failures>>
        /\ \/ bulk' = [bulk EXCEPT !.todo = @ \ {s}, !.now = s]
           \/ bulk' = [bulk EXCEPT !.todo = @ \ {s}]
    BY <1>6 DEF BulkNext, StopBegins
  <2>2. bulk' \in BulkType
    BY <2>1, BulkTypes
  <2> QED BY <2>1, <2>2
<1>7. CASE BulkEnds
  BY <1>7, BulkTypes DEF BulkEnds
<1>8. CASE UNCHANGED vars
  BY <1>8 DEF vars
<1> QED BY <1>1, <1>2, <1>3, <1>4, <1>5, <1>6, <1>7, <1>8, HandlerStepPlain DEF Next

------------------------------------------------------------------------------
(* What is tracked. *)

(* A service falls, or not: each handler stays where it is. *)
LEMMA BecomesKeeps ==
    ASSUME NEW hs \in [Services -> HandlerType],
           \A r \in Services : hs[r].at = "dep" => 1 \in DOMAIN hs[r].stack,
           NEW s, NEW v, Becomes(s, v, hs)
    PROVE  \A r \in Services :
              /\ handler'[r].at = hs[r].at
              /\ \A x : Starting(r, handler'[r], x) <=> Starting(r, hs[r], x)
<1> SUFFICES ASSUME NEW r \in Services
             PROVE  /\ handler'[r].at = hs[r].at
                    /\ hs[r].at = "dep" => handler'[r].stack[1].svc = hs[r].stack[1].svc
  BY DEF Starting
<1>1. CASE handler' = hs
  BY <1>1
<1>2. CASE handler' = Fallen(hs, s)
  <2>1. handler'[r] = FallenOne(hs[r], s)
    BY <1>2 DEF Fallen, FallenOne
  <2>2. PICK h \in HandlerType : h = hs[r]
    OBVIOUS
  <2>3. FallenOne(h, s).at = h.at
    BY DEF FallenOne, HandlerType
  <2>4. 1 \in DOMAIN h.stack => FallenOne(h, s).stack[1].svc = h.stack[1].svc
    <3> SUFFICES ASSUME 1 \in DOMAIN h.stack PROVE FallenOne(h, s).stack[1].svc = h.stack[1].svc
      OBVIOUS
    <3>1. h.stack \in Seq(FrameType)
      BY DEF HandlerType
    <3>2. h.stack[1] \in FrameType
      BY <3>1, ElementOfSeq, LenProperties
    <3>3. FallenOne(h, s).stack[1] = IF s \in h.stack[1].todo THEN h.stack[1]
                                    ELSE [h.stack[1] EXCEPT !.need = @ \ {s}]
      BY DEF FallenOne, HandlerType
    <3> QED BY <3>2, <3>3 DEF FrameType
  <2> QED BY <2>1, <2>2, <2>3, <2>4
<1> QED BY <1>1, <1>2 DEF Becomes

(* Nothing new is tracked, and no handler begins to stop or to start. *)
LEMMA TrackingStays ==
    ASSUME Tracking, tracked' \subseteq tracked, ended' \subseteq tracked',
           tracked' \ ended' \subseteq tracked \ ended,
           \A x \in tracked' \ ended' : status'[x] \in {status[x], "running"},
           \A r \in Services : handler'[r].at = "stop" => r \notin tracked' \/ handler[r].at = "stop",
           \A r, x \in Services : Starting(r, handler'[r], x) => x \notin tracked' \/ Starting(r, handler[r], x)
    PROVE  Tracking'
BY DEF Tracking

(* The steps that track an instance of s, which a handler was starting. *)
LEMMA TracksNew ==
    ASSUME IInv, Core, NEW r \in Services, NEW s \in Services, Starting(r, handler[r], s),
           Track(s), status'[s] = "running",
           \A x \in Services : x # s => status'[x] = status[x],
           \A q \in Services : q # r => handler'[q] = handler[q],
           handler'[r].at \in {"idle", "deps"}
    PROVE  Tracking'
<1>1. \A q, x \in Services : Starting(q, handler'[q], x) => q # r /\ x # s /\ Starting(q, handler[q], x)
  BY DEF Starting, IInv, Locking
<1>2. \A q \in Services : handler'[q].at = "stop" => q # r /\ q # s /\ handler[q].at = "stop"
  <2>1. s = r \/ handler[s].at = "idle"
    BY DEF Starting, IInv, Locking
  <2> QED BY <2>1
<1>3. tracked' = tracked \cup ({s} \cap Processes) /\ ended' = ended
  BY DEF Track
<1>4. Processes \subseteq Services
  BY ServicesAssumption
<1> QED BY <1>1, <1>2, <1>3, <1>4 DEF IInv, Tracking

(* A handler comes to its next await. *)
LEMMA AwaitTracking ==
    ASSUME IInv, NEW r \in Services, NEW h \in HandlerType, h.at = "dep" => 1 \in DOMAIN h.stack,
           NEW s \in Services, NEW v, Becomes(s, v, [handler EXCEPT ![r] = h]),
           \A x \in Services : Starting(r, h, x) => x \notin tracked',
           h.at = "stop" => r \notin tracked',
           tracked' \subseteq tracked \ {s}, ended' = ended \cap tracked'
    PROVE  Tracking'
<1> DEFINE hs == [handler EXCEPT ![r] = h]
<1>1. /\ hs \in [Services -> HandlerType] /\ hs[r] = h
      /\ \A q \in Services : q # r => hs[q] = handler[q]
  BY HandlerFacts
<1> HIDE DEF hs
<1>2. \A q \in Services : hs[q].at = "dep" => 1 \in DOMAIN hs[q].stack
  BY <1>1, HandlerFacts, StackFacts
<1>3. \A q \in Services : /\ handler'[q].at = hs[q].at
                          /\ \A x : Starting(q, handler'[q], x) <=> Starting(q, hs[q], x)
  BY <1>1, <1>2, BecomesKeeps DEF hs
<1>4. \A x \in tracked' \ ended' : status'[x] = status[x]
  BY HandlerFacts DEF Becomes
<1> QED BY <1>1, <1>3, <1>4, TrackingStays DEF IInv, Tracking

(* A handler ends. *)
LEMMA LeaveTracking ==
    ASSUME IInv, NEW r \in Services, NEW freed, NEW s \in Services,
           Leave(r, freed, handler) \/ Leave(r, freed, Fallen(handler, s)),
           UNCHANGED <<tracked, ended>>,
           \A x \in Services : status'[x] = status[x] \/ Starting(r, handler[r], x)
    PROVE  Tracking'
<1>1. PICK hs \in {handler, Fallen(handler, s)} : Leave(r, freed, hs)
  OBVIOUS
<1>2. \A q \in Services : SameShape(hs[q], handler[q])
  <2>1. CASE hs = handler
    BY <2>1 DEF SameShape
  <2>2. CASE hs = Fallen(handler, s)
    <3>1. \A q \in Services : hs[q] = FallenOne(handler[q], s)
      BY <2>2 DEF Fallen, FallenOne
    <3> QED BY <3>1, FallenSound, HandlerFacts
  <2> QED BY <1>1, <2>1, <2>2
<1>3. \A q \in Services : handler'[q] = Idle \/ (q # r /\ handler'[q] = hs[q])
  <2>1. DOMAIN hs = Services
    BY <1>1, HandlerFacts DEF Fallen
  <2> QED BY <1>1, <2>1 DEF Leave
<1>4. \A q \in Services : handler'[q].at = "stop" => handler[q].at = "stop"
  BY <1>2, <1>3 DEF SameShape, Idle
<1>5. \A q, x \in Services : Starting(q, handler'[q], x) => Starting(q, handler[q], x)
  <2>1. \A q \in Services : \A x : Starting(q, hs[q], x) <=> Starting(q, handler[q], x)
    BY <1>2, ShapeKeeps, HandlerFacts
  <2> QED BY <1>3, <2>1 DEF Starting, Idle
<1>6. \A x \in tracked' \ ended' : status'[x] = status[x]
  BY ServicesAssumption DEF IInv, Tracking
<1> QED BY <1>4, <1>5, <1>6, TrackingStays DEF IInv, Tracking

LEMMA HandlerStepTracking ==
    ASSUME IInv, Core, NEW r \in Services, HandlerStep(r)
    PROVE  Tracking'
<1>1. CASE RestartStopped(r)
  <2> DEFINE h == [handler[r] EXCEPT !.at = "deps", !.stack = <<Call(r)>>]
  <2>1. h \in HandlerType /\ h.at = "deps"
    <3>1. Call(r) \in FrameType
      BY HandlerFacts DEF Call, FrameType
    <3>2. <<Call(r)>> \in Seq(FrameType) /\ handler[r] \in HandlerType
      BY <3>1, HandlerFacts
    <3> HIDE DEF Call
    <3> QED BY <3>2 DEF HandlerType
  <2>2. Becomes(r, "stopped", [handler EXCEPT ![r] = h]) /\ r \notin tracked
    BY <1>1, HandlerFacts DEF RestartStopped, IInv, Tracking
  <2>3. UNCHANGED <<tracked, ended>>
    BY <1>1 DEF RestartStopped
  <2> HIDE DEF h
  <2>4. tracked' \subseteq tracked \ {r} /\ ended' = ended \cap tracked'
    BY <2>2, <2>3 DEF IInv, Tracking
  <2>5. \A x \in Services : ~Starting(r, h, x)
    BY <2>1 DEF Starting
  <2> QED BY <2>1, <2>2, <2>4, <2>5, AwaitTracking
<1>2. CASE StartDep(r)
  <2> DEFINE h == [handler[r] EXCEPT !.at = "dep"]
  <2>1. h \in HandlerType /\ h.at = "dep" /\ h.stack = handler[r].stack
    BY HandlerFacts DEF HandlerType
  <2>2. /\ Becomes(Top(r).svc, "starting", [handler EXCEPT ![r] = h]) /\ Top(r).svc \notin tracked
        /\ UNCHANGED <<tracked, ended>> /\ handler[r].at = "deps"
    BY <1>2, HandlerFacts DEF StartDep, Begin, Walked
  <2> HIDE DEF h
  <2>3. Top(r).svc \in Services /\ Top(r).svc = h.stack[1].svc /\ 1 \in DOMAIN h.stack
    BY <2>1, <2>2, RootOrNot, HandlerFacts, StackFacts
  <2>4. /\ tracked' \subseteq tracked \ {Top(r).svc} /\ ended' = ended \cap tracked'
        /\ \A x \in Services : Starting(r, h, x) => x \notin tracked'
    BY <2>1, <2>2, <2>3 DEF IInv, Tracking, Starting
  <2> QED BY <2>1, <2>2, <2>3, <2>4, AwaitTracking
<1>3. CASE StartOwn(r)
  <2> DEFINE h == [handler[r] EXCEPT !.at = "own"]
  <2>1. h \in HandlerType /\ h.at = "own"
    BY HandlerFacts DEF HandlerType
  <2>2. /\ Becomes(r, "starting", [handler EXCEPT ![r] = h]) /\ r \notin tracked
        /\ UNCHANGED <<tracked, ended>>
    BY <1>3, HandlerFacts DEF StartOwn, Begin
  <2> HIDE DEF h
  <2>3. /\ tracked' \subseteq tracked \ {r} /\ ended' = ended \cap tracked'
        /\ \A x \in Services : Starting(r, h, x) => x \notin tracked'
    BY <2>1, <2>2 DEF IInv, Tracking, Starting
  <2> QED BY <2>1, <2>2, <2>3, AwaitTracking
<1>4. CASE Recurse(r) \/ DepUpAlready(r)
  <2>1. UNCHANGED <<status, tracked, ended>> /\ handler[r].at = "deps"
    BY <1>4 DEF Recurse, DepUpAlready, Walked
  <2>2. /\ handler'[r].at = "deps"
        /\ \A q \in Services : q # r => handler'[q] = handler[q]
    <3>1. CASE Recurse(r)
      <4>1. PICK stack : handler' = [handler EXCEPT ![r].stack = stack]
        BY <3>1 DEF Recurse
      <4> QED BY <2>1, <4>1, HandlerFacts DEF HandlerType
    <3>2. CASE DepUpAlready(r)
      <4>1. handler' = Pop(r, handler)
              \/ \E left : handler' = [Pop(r, handler) EXCEPT ![r].stack[1].need = left]
        BY <3>2 DEF DepUpAlready
      <4>2. /\ Pop(r, handler)[r].at = "deps" /\ DOMAIN Pop(r, handler) = Services
            /\ Pop(r, handler)[r] \in [at : {"deps"}, bulk : BOOLEAN, stack : {Tail(handler[r].stack)}]
            /\ \A q \in Services : q # r => Pop(r, handler)[q] = handler[q]
        BY HandlerFacts DEF Pop, HandlerType
      <4> QED BY <4>1, <4>2
    <3> QED BY <1>4, <3>1, <3>2
  <2> QED BY <2>1, <2>2, TrackingStays DEF IInv, Tracking, Starting
<1>5. CASE CycleFound(r) \/ LockRefused(r) \/ OwnUpAlready(r)
  <2>1. Leave(r, {}, handler) /\ UNCHANGED <<status, tracked, ended>>
    BY <1>5 DEF CycleFound, LockRefused, OwnUpAlready
  <2> QED BY <2>1, LeaveTracking
<1>6. CASE DepFailed(r)
  <2>1. handler[r].at = "dep" /\ Top(r).svc = handler[r].stack[1].svc /\ Top(r).svc \in Services
    BY <1>6, RootOrNot DEF DepFailed
  <2>2. \A x \in Services : status'[x] = status[x] \/ Starting(r, handler[r], x)
    BY <1>6, <2>1, HandlerFacts DEF DepFailed, Starting
  <2> QED BY <1>6, <2>1, <2>2, LeaveTracking DEF DepFailed
<1>7. CASE OwnFailed(r)
  <2>1. \A x \in Services : status'[x] = status[x] \/ Starting(r, handler[r], x)
    BY <1>7, HandlerFacts DEF OwnFailed, Starting
  <2> QED BY <1>7, <2>1, LeaveTracking DEF OwnFailed
<1>8. CASE DepStarted(r)
  <2>1. handler[r].at = "dep" /\ Top(r).svc = handler[r].stack[1].svc /\ Top(r).svc \in Services
    BY <1>8, RootOrNot DEF DepStarted
  <2>2. /\ status' = [status EXCEPT ![Top(r).svc] = "running"] /\ Track(Top(r).svc)
        /\ handler' = Pop(r, handler)
    BY <1>8 DEF DepStarted, Becomes
  <2>3. handler'[r].at = "deps" /\ \A q \in Services : q # r => handler'[q] = handler[q]
    BY <2>2, HandlerFacts DEF Pop, HandlerType
  <2>4. status'[Top(r).svc] = "running" /\ \A x \in Services : x # Top(r).svc => status'[x] = status[x]
    BY <2>1, <2>2, HandlerFacts
  <2>5. Starting(r, handler[r], Top(r).svc)
    BY <2>1 DEF Starting
  <2> QED BY <2>1, <2>2, <2>3, <2>4, <2>5, TracksNew
<1>9. CASE OwnStarted(r)
  <2>1. /\ status' = [status EXCEPT ![r] = "running"] /\ Track(r) /\ Starting(r, handler[r], r)
        /\ handler' = [handler EXCEPT ![r] = Idle]
    BY <1>9 DEF OwnStarted, Leave, Starting
  <2>2. handler'[r].at = "idle" /\ \A q \in Services : q # r => handler'[q] = handler[q]
    BY <2>1, HandlerFacts DEF Idle
  <2>3. status'[r] = "running" /\ \A x \in Services : x # r => status'[x] = status[x]
    BY <2>1, HandlerFacts
  <2> QED BY <2>1, <2>2, <2>3, TracksNew
<1> QED BY <1>1, <1>2, <1>3, <1>4, <1>5, <1>6, <1>7, <1>8, <1>9 DEF HandlerStep

LEMMA EnterTracking ==
    ASSUME IInv, NEW r \in Services, NEW b \in BOOLEAN, Enter(r, b)
    PROVE  Tracking'
<1>1. /\ handler' = [handler EXCEPT ![r] = [at |-> "deps", bulk |-> b, stack |-> <<Call(r)>>]]
      /\ UNCHANGED <<status, tracked, ended>>
  BY DEF Enter
<1>2. handler'[r].at = "deps" /\ \A q \in Services : q # r => handler'[q] = handler[q]
  BY <1>1, HandlerFacts
<1> QED BY <1>1, <1>2, TrackingStays DEF IInv, Tracking, Starting

LEMMA EnterRestartTracking ==
    ASSUME IInv, NEW r \in Services, NEW b \in BOOLEAN, EnterRestart(r, b)
    PROVE  Tracking'
<1> DEFINE h == [at |-> "stop", bulk |-> b, stack |-> <<>>]
<1>1. h \in HandlerType /\ h.at = "stop"
  BY EmptySeq DEF HandlerType
<1>2. Becomes(r, "stopping", [handler EXCEPT ![r] = h]) /\ Untrack(r)
  BY DEF EnterRestart
<1> HIDE DEF h
<1>3. /\ tracked' \subseteq tracked \ {r} /\ ended' = ended \cap tracked' /\ r \notin tracked'
      /\ \A x \in Services : ~Starting(r, h, x)
  BY <1>1, <1>2 DEF Untrack, Starting, IInv, Tracking
<1> QED BY <1>1, <1>2, <1>3, AwaitTracking

(* A service falls whose instance, if it is still tracked, has ended. *)
LEMMA FallsTracking ==
    ASSUME IInv, NEW s \in Services, NEW v, Becomes(s, v, handler),
           tracked' \subseteq tracked, ended' \subseteq tracked',
           tracked' \ ended' \subseteq (tracked \ ended) \ {s}
    PROVE  Tracking'
<1>1. \A r \in Services : handler[r].at = "dep" => 1 \in DOMAIN handler[r].stack
  BY HandlerFacts, StackFacts
<1>2. \A r \in Services : /\ handler'[r].at = handler[r].at
                          /\ \A x : Starting(r, handler'[r], x) <=> Starting(r, handler[r], x)
  BY <1>1, BecomesKeeps, HandlerFacts
<1>3. \A x \in tracked' \ ended' : status'[x] = status[x]
  BY HandlerFacts DEF Becomes
<1> QED BY <1>2, <1>3, TrackingStays DEF IInv, Tracking

LEMMA StepTracking == ASSUME IInv, [Next]_vars, Core PROVE Tracking'
<1>0. /\ tracked \subseteq Processes /\ ended \subseteq tracked
  BY DEF IInv, Tracking
<1>1. ASSUME NEW s \in Services, StopBegins(s) PROVE Tracking'
  <2>1. Becomes(s, "stopping", handler) /\ Untrack(s)
    BY <1>1 DEF StopBegins
  <2> QED BY <1>0, <2>1, FallsTracking DEF Untrack
<1>2. ASSUME NEW s \in Services, StopEnds(s) PROVE Tracking'
  <2>1. /\ Becomes(s, "stopped", handler) /\ ended' = ended \cup ({s} \cap tracked)
        /\ tracked' = tracked
    BY <1>2 DEF StopEnds
  <2> QED BY <1>0, <2>1, FallsTracking
<1>3. ASSUME NEW s \in Services, ExitHandled(s) PROVE Tracking'
  <2>1. PICK v : Becomes(s, v, handler) /\ Untrack(s)
    BY <1>3 DEF ExitHandled
  <2> QED BY <1>0, <2>1, FallsTracking DEF Untrack
<1>4. ASSUME NEW s \in Services, ContainerEnds(s) PROVE Tracking'
  <2>1. s \notin Processes /\ Becomes(s, "stopped", handler) /\ UNCHANGED <<tracked, ended>>
    BY <1>4 DEF ContainerEnds
  <2> QED BY <1>0, <2>1, FallsTracking
<1>5. ASSUME NEW s \in Services, Dies(s) PROVE Tracking'
  BY <1>5 DEF Dies, IInv, Tracking
<1>6. ASSUME UNCHANGED <<status, tracked, ended, handler>> PROVE Tracking'
  BY <1>6 DEF IInv, Tracking
<1>7. ASSUME NEW s \in Services, Start(s) \/ Restart(s) \/ BootStart(s) PROVE Tracking'
  BY <1>6, <1>7, EnterTracking, EnterRestartTracking DEF Start, Restart, BootStart
<1>8. ASSUME NEW s \in Services, BulkNext(s) PROVE Tracking'
  BY <1>1, <1>6, <1>8, EnterTracking, EnterRestartTracking DEF BulkNext
<1>9. ASSUME NEW s \in Services, Stop(s) \/ EditDependencies(s) PROVE Tracking'
  BY <1>1, <1>6, <1>9 DEF Stop, EditDependencies
<1>10. ASSUME NEW op \in {"start", "restart", "stop"}, BulkRequest(op) PROVE Tracking'
  BY <1>6, <1>10 DEF BulkRequest
<1>11. CASE BulkEnds \/ UNCHANGED vars
  BY <1>6, <1>11 DEF BulkEnds, vars
<1> QED BY <1>2, <1>3, <1>4, <1>5, <1>7, <1>8, <1>9, <1>10, <1>11, HandlerStepTracking DEF Next

LEMMA InitSound == Init => IInv
<1> SUFFICES ASSUME Init PROVE IInv
  OBVIOUS
<1>1. Plain
  BY BoundsAssumption DEF Init, Plain, Status, BulkType, NoBulk
<1>2. Handlers(handler, status)
  <2>1. Idle \in HandlerType
    BY EmptySeq DEF Idle, HandlerType
  <2> QED BY <2>1, IdleSound DEF Init, Handlers
<1>3. Locking(locks, handler)
  BY DEF Init, Locking, Starting, Idle
<1>4. Tracking
  BY DEF Init, Tracking, Starting, Idle
<1> QED BY <1>1, <1>2, <1>3, <1>4 DEF IInv

LEMMA AlwaysSound == Spec => []IInv
<1>1. IInv /\ [Next]_vars => IInv'
  BY StepCore, StepPlain, StepTracking DEF IInv, Core
<1> QED BY InitSound, <1>1, PTL DEF Spec

------------------------------------------------------------------------------
(* The theorems. *)

(* Every variable keeps its type, and no walk has a service on its stack    *)
(* twice, so every walk ends, cycles and edits notwithstanding.             *)
THEOREM DependenciesTypes == Spec => []TypeOK
BY AlwaysSound, IInvTypes, PTL

(* The locks are those of the handlers in progress and of the dependencies  *)
(* they start, and no service is started by two handlers at once.           *)
THEOREM LocksAreHeld == Spec => []LocksHeld
BY AlwaysSound, IInvLocks, PTL

(* Handlers that see a service fall stay where they are. *)
LEMMA FallenAt ==
    ASSUME NEW hs \in [Services -> HandlerType], NEW s, NEW r \in Services
    PROVE  Fallen(hs, s)[r].at = hs[r].at
BY DEF Fallen, HandlerType

LEMMA BecomesAt ==
    ASSUME NEW hs \in [Services -> HandlerType], NEW s, NEW v, Becomes(s, v, hs), NEW r \in Services
    PROVE  handler'[r].at = hs[r].at
BY FallenAt DEF Becomes

LEMMA LeaveAt ==
    ASSUME IInv, NEW q \in Services, NEW s, NEW freed, NEW hs, hs \in {handler, Fallen(handler, s)},
           Leave(q, freed, hs), NEW r \in Services, handler[r].at = "deps"
    PROVE  handler'[r].at \notin {"dep", "own"}
<1>1. handler \in [Services -> HandlerType] /\ DOMAIN hs = Services
  BY HandlerFacts DEF Fallen
<1>2. hs[r].at = "deps"
  BY <1>1, FallenAt
<1>3. handler' = [hs EXCEPT ![q] = Idle]
  BY DEF Leave
<1> QED BY <1>1, <1>2, <1>3 DEF Idle

(* Only the end of its walk takes a handler to a start. *)
LEMMA StartsWhenWalked ==
    ASSUME IInv, Next, NEW r \in Services, handler[r].at = "deps", handler'[r].at \in {"dep", "own"}
    PROVE  Walked(r)
<1>0. handler \in [Services -> HandlerType]
  BY HandlerFacts
<1>1. ASSUME NEW q \in Services, NEW b \in BOOLEAN, Enter(q, b) PROVE FALSE
  BY <1>0, <1>1 DEF Enter
<1>2. ASSUME NEW q \in Services, NEW b \in BOOLEAN, EnterRestart(q, b) PROVE FALSE
  <2> DEFINE hs == [handler EXCEPT ![q] = [at |-> "stop", bulk |-> b, stack |-> <<>>]]
  <2>1. hs \in [Services -> HandlerType] /\ hs[r].at \in {"deps", "stop"}
    BY <1>0, EmptySeq DEF HandlerType
  <2>2. Becomes(q, "stopping", hs)
    BY <1>2 DEF EnterRestart
  <2> HIDE DEF hs
  <2> QED BY <2>1, <2>2, BecomesAt
<1>3. ASSUME NEW q \in Services, NEW v, Becomes(q, v, handler) PROVE FALSE
  BY <1>0, <1>3, BecomesAt
<1>4. ASSUME handler' = handler PROVE FALSE
  BY <1>4
<1>5. ASSUME NEW q \in Services, HandlerStep(q) PROVE Walked(r)
  <2>1. CASE StartDep(q) \/ StartOwn(q)
    <3>1. CASE q = r
      BY <2>1, <3>1 DEF StartDep, StartOwn
    <3>2. CASE q # r
      <4>1. PICK at \in {"dep", "own"} : \E s, v : Becomes(s, v, [handler EXCEPT ![q].at = at])
        BY <2>1 DEF StartDep, StartOwn, Begin
      <4> DEFINE hs == [handler EXCEPT ![q].at = at]
      <4>2. hs \in [Services -> HandlerType] /\ hs[r].at = "deps"
        BY <1>0, <3>2 DEF HandlerType
      <4> HIDE DEF hs
      <4>3. \E s, v : Becomes(s, v, hs)
        BY <4>1 DEF hs
      <4> QED BY <4>2, <4>3, BecomesAt
    <3> QED BY <3>1, <3>2
  <2>2. CASE RestartStopped(q)
    <3> DEFINE hs == [handler EXCEPT ![q].at = "deps", ![q].stack = <<Call(q)>>]
    <3>1. Call(q) \in FrameType
      BY HandlerFacts DEF Call, FrameType
    <3> DEFINE h == [handler[q] EXCEPT !.at = "deps", !.stack = <<Call(q)>>]
    <3>4. h \in HandlerType /\ h.at = "deps"
      <4>1. <<Call(q)>> \in Seq(FrameType) /\ handler[q] \in HandlerType
        BY <1>0, <3>1
      <4> HIDE DEF Call
      <4> QED BY <4>1 DEF HandlerType
    <3>5. hs = [handler EXCEPT ![q] = h]
      BY <1>0
    <3> HIDE DEF h
    <3>2. hs \in [Services -> HandlerType] /\ hs[r].at = "deps"
      BY <1>0, <3>4, <3>5
    <3>3. Becomes(q, "stopped", hs)
      BY <2>2 DEF RestartStopped
    <3> HIDE DEF hs
    <3> QED BY <3>2, <3>3, BecomesAt
  <2>3. CASE Recurse(q)
    <3>1. PICK stack : handler' = [handler EXCEPT ![q].stack = stack]
      BY <2>3 DEF Recurse
    <3> QED BY <1>0, <3>1 DEF HandlerType
  <2>4. CASE CycleFound(q) \/ LockRefused(q) \/ OwnUpAlready(q) \/ OwnStarted(q)
    BY <2>4, LeaveAt DEF CycleFound, LockRefused, OwnUpAlready, OwnStarted
  <2>5. CASE DepFailed(q) \/ OwnFailed(q)
    BY <2>5, LeaveAt DEF DepFailed, OwnFailed
  <2>6. CASE DepUpAlready(q)
    BY <1>0, <2>6 DEF DepUpAlready, Pop, HandlerType
  <2>7. CASE DepStarted(q)
    <3>1. handler' = Pop(q, handler)
      BY <2>7 DEF DepStarted, Becomes
    <3> QED BY <1>0, <3>1 DEF Pop, HandlerType
  <2> QED BY <1>5, <2>1, <2>2, <2>3, <2>4, <2>5, <2>6, <2>7 DEF HandlerStep
<1>6. ASSUME NEW q \in Services,
             Start(q) \/ Restart(q) \/ BootStart(q) \/ Stop(q) \/ StopEnds(q) \/ Dies(q)
               \/ ExitHandled(q) \/ ContainerEnds(q) \/ EditDependencies(q)
      PROVE  FALSE
  BY <1>1, <1>2, <1>3, <1>4, <1>6 DEF Start, Restart, BootStart, Stop, StopBegins, StopEnds, Dies,
       ExitHandled, ContainerEnds, EditDependencies
<1>7. ASSUME NEW q \in Services, BulkNext(q) PROVE FALSE
  BY <1>1, <1>2, <1>3, <1>4, <1>7 DEF BulkNext, StopBegins
<1>8. ASSUME NEW op \in {"start", "restart", "stop"}, BulkRequest(op) PROVE FALSE
  BY <1>4, <1>8 DEF BulkRequest
<1>9. CASE BulkEnds
  BY <1>4, <1>9 DEF BulkEnds
<1> QED BY <1>5, <1>6, <1>7, <1>8, <1>9 DEF Next

(* A runtime is started when every dependency its handler read is shown     *)
(* running, or has been and went down in the meantime, or was passed over   *)
(* because its instance, which had ended, was still tracked.                *)
THEOREM DependenciesFirst == Spec => StartedAfterDependencies
<1> DEFINE Ordered ==
             \A r \in Services :
                handler'[r].at \in {"dep", "own"} /\ handler[r].at = "deps" =>
                   \A d \in Top(r).need : status[d] = "running"
<1>1. IInv /\ [Next]_vars => [Ordered]_vars
  <2> SUFFICES ASSUME IInv, Next, NEW r \in Services,
                      handler'[r].at \in {"dep", "own"}, handler[r].at = "deps"
               PROVE  \A d \in Top(r).need : status[d] = "running"
    OBVIOUS
  <2>1. Walked(r)
    BY StartsWhenWalked
  <2>2. Top(r) = handler[r].stack[1] /\ 1 \in DOMAIN handler[r].stack /\ Read(handler[r], status)
    BY HandlerFacts, StackFacts DEF Top
  <2>3. \A d \in Top(r).need \ Top(r).todo : status[d] = "running"
    BY <2>2 DEF Read
  <2> QED BY <2>1, <2>3 DEF Walked, Down
<1> QED BY AlwaysSound, <1>1, PTL DEF Spec, StartedAfterDependencies
------------------------------------------------------------------------------
(* A start-all or restart-all that nothing else meets.                      *)

(* The ranks that put each service above its dependencies. *)
Rankings(dep) ==
    {rank \in [Services -> 1..Cardinality(Services)] :
        \A s \in Services : \A d \in dep[s] : rank[d] < rank[s]}

(* The walk of a handler goes down: each call is about a service below all  *)
(* that called for it, which was not running when it was called and is not  *)
(* yet, and visits dependencies that this service still has.                *)
Climbs(h, st, dep) ==
    /\ \A i \in DOMAIN h.stack :
        /\ h.stack[i].todo \subseteq dep[h.stack[i].svc]
        /\ i < Len(h.stack) => st[h.stack[i].svc] # "running"
    /\ \A rank \in Rankings(dep) : \A i, j \in DOMAIN h.stack :
        i < j => rank[h.stack[i].svc] < rank[h.stack[j].svc]

(* Only the member it is at has a handler, and those it is done with run. *)
Undisturbed ==
    /\ boot = {}
    /\ stops = {}
    /\ \A r \in Services : Active(r) =>
        /\ r = bulk.now
        /\ handler[r].bulk
        /\ Climbs(handler[r], status, dependsOn)
    /\ Rankings(dependsOn) # {} =>
        \A s \in bulk.members : s \in bulk.todo \/ s = bulk.now \/ status[s] = "running"

StartAll == bulk.op \in {"start", "restart"} /\ bulk.alone => Undisturbed /\ ended = {}

LEMMA RankingsRank ==
    ASSUME NEW dep, NEW rank \in Rankings(dep)
    PROVE  /\ \A s \in Services : rank[s] \in Int
           /\ \A s \in Services : \A d \in dep[s] : rank[d] < rank[s]
BY DEF Rankings

LEMMA AcyclicIs == Acyclic <=> Rankings(dependsOn) # {}
BY DEF Acyclic, Rankings

(* The first call of a walk. *)
LEMMA CallClimbs ==
    ASSUME NEW r \in Services, NEW st, NEW h, h.stack = <<Call(r)>>
    PROVE  Climbs(h, st, dependsOn)
<1> DEFINE c == Call(r)
<1>1. c.svc = r /\ c.todo = dependsOn[r]
  BY DEF Call
<1> HIDE DEF c
<1>2. h.stack = <<c>>
  BY DEF c
<1>3. Len(h.stack) = 1 /\ DOMAIN h.stack = {1} /\ h.stack[1] = c
  BY <1>2
<1> QED BY <1>1, <1>3 DEF Climbs

(* The walk goes down to a dependency that does not run. *)
LEMMA PushClimbs ==
    ASSUME NEW r \in Services, NEW st, NEW dep \in [Services -> SUBSET Services],
           NEW h, SoundHandler(r, h), Climbs(h, st, dep),
           NEW c, NEW todo, CanPush(h, st, c, todo),
           c.todo \subseteq dep[c.svc], st[c.svc] # "running",
           c.svc \in h.stack[1].todo, todo \subseteq h.stack[1].todo
    PROVE  Climbs(Pushed(h, c, todo), st, dep)
<1> DEFINE s == h.stack
           n == Len(s)
           new == Pushed(h, c, todo).stack
<1>1. /\ n \in Nat /\ DOMAIN s = 1..n /\ 1 \in 1..n
      /\ \A i \in 1..n : s[i].svc \in Services
      /\ c.svc \in Services
  BY StackFacts DEF CanPush, FrameType
<1>2. /\ Len(new) = n + 1 /\ DOMAIN new = 1..(n + 1)
      /\ new[1] = c
      /\ new[2].need = s[1].need /\ new[2].todo = todo
      /\ \A i \in 2..(n + 1) : i - 1 \in 1..n /\ new[i].svc = s[i - 1].svc
      /\ \A i \in 3..(n + 1) : new[i] = s[i - 1] /\ i - 1 \in 2..n
  BY PushedStack DEF IsPushed
<1>3. /\ \A i \in 1..n : s[i].todo \subseteq dep[s[i].svc]
      /\ \A i \in 1..n : i < n => st[s[i].svc] # "running"
      /\ \A rank \in Rankings(dep) : \A i, j \in 1..n : i < j => rank[s[i].svc] < rank[s[j].svc]
  BY <1>1 DEF Climbs
<1> HIDE DEF s, n, new
<1>4. ASSUME NEW i \in 1..(n + 1)
      PROVE  new[i].todo \subseteq dep[new[i].svc] /\ (i < n + 1 => st[new[i].svc] # "running")
  <2>1. CASE i = 1
    BY <1>2, <2>1
  <2>2. CASE i = 2
    <3>1. new[2].svc = s[1].svc /\ todo \subseteq s[1].todo
      <4>1. 2 \in 2..(n + 1) /\ 2 - 1 = 1
        BY <1>1, <2>2
      <4> QED BY <1>2, <4>1 DEF s
    <3>2. i < n + 1 => 1 < n
      BY <1>1, <2>2
    <3> QED BY <1>1, <1>2, <1>3, <2>2, <3>1, <3>2
  <2>3. CASE i \in 3..(n + 1)
    <3>1. i - 1 \in 1..n /\ (i < n + 1 => i - 1 < n)
      BY <1>1, <2>3
    <3> QED BY <1>2, <1>3, <2>3, <3>1
  <2>4. i = 1 \/ i = 2 \/ i \in 3..(n + 1)
    BY <1>1
  <2> QED BY <2>1, <2>2, <2>3, <2>4
<1>5. ASSUME NEW rank \in Rankings(dep), NEW i \in 1..(n + 1), NEW j \in 1..(n + 1), i < j
      PROVE  rank[new[i].svc] < rank[new[j].svc]
  <2>1. j - 1 \in 1..n /\ new[j].svc = s[j - 1].svc
    <3>1. j \in 2..(n + 1)
      BY <1>1, <1>5
    <3> QED BY <1>2, <3>1
  <2>2. CASE i = 1
    <3>1. rank[c.svc] < rank[s[1].svc] /\ rank[c.svc] \in Int /\ rank[s[1].svc] \in Int
          /\ rank[s[j - 1].svc] \in Int
      BY <1>1, <1>3, <2>1, RankingsRank DEF s
    <3>2. j - 1 = 1 \/ rank[s[1].svc] < rank[s[j - 1].svc]
      BY <1>1, <1>3, <2>1
    <3>3. \A a, b, d \in Int : a < b /\ (b = d \/ b < d) => a < d
      OBVIOUS
    <3>4. rank[s[1].svc] = rank[s[j - 1].svc] \/ rank[s[1].svc] < rank[s[j - 1].svc]
      BY <3>2
    <3> QED BY <1>2, <2>1, <2>2, <3>1, <3>3, <3>4
  <2>3. CASE i # 1
    <3>1. i \in 2..(n + 1) /\ i - 1 < j - 1
      BY <1>1, <1>5, <2>3
    <3>2. i - 1 \in 1..n /\ new[i].svc = s[i - 1].svc
      BY <1>2, <3>1
    <3> QED BY <1>3, <2>1, <3>1, <3>2
  <2> QED BY <2>2, <2>3
<1>6. Len(new) = n + 1 /\ DOMAIN new = 1..(n + 1)
  BY <1>2
<1> QED BY <1>4, <1>5, <1>6 DEF Climbs, new

(* The walk comes back from a dependency that runs now. *)
LEMMA PopClimbs ==
    ASSUME NEW r \in Services, NEW st, NEW now, NEW dep,
           NEW h, SoundHandler(r, h), Climbs(h, st, dep), Len(h.stack) > 1,
           \A x \in Services : x # h.stack[1].svc => now[x] = st[x],
           NEW g, g.stack = Tail(h.stack)
    PROVE  Climbs(g, now, dep)
<1> DEFINE s == h.stack
           n == Len(s)
           tail == Tail(s)
<1>1. /\ s \in Seq(FrameType) /\ n \in Nat /\ DOMAIN s = 1..n /\ s # <<>>
      /\ \A i \in 1..n : s[i].svc \in Services
  <2>1. h.at \notin {"idle", "stop"} \/ h.stack # <<>>
    <3>1. h.stack # <<>>
      BY EmptySeq
    <3> QED BY <3>1
  <2> QED BY StackFacts, EmptySeq
<1>2. /\ \A i \in 1..n : s[i].todo \subseteq dep[s[i].svc]
      /\ \A i \in 1..n : i < n => st[s[i].svc] # "running"
      /\ \A rank \in Rankings(dep) : \A i, j \in 1..n : i < j => rank[s[i].svc] < rank[s[j].svc]
  BY <1>1 DEF Climbs
<1>3. n > 1 /\ \A i \in 1..n : i # 1 => s[i].svc # s[1].svc
  <2>1. 1 \in 1..n
    BY <1>1
  <2> QED BY <1>1, <2>1 DEF SoundHandler, StackOf
<1>4. \A x \in Services : x # s[1].svc => now[x] = st[x]
  OBVIOUS
<1> HIDE DEF s, n
<1>5. /\ Len(tail) = n - 1 /\ DOMAIN tail = 1..(n - 1)
      /\ \A i \in 1..(n - 1) : tail[i] = s[i + 1] /\ i + 1 \in 1..n
  BY <1>1, HeadTailProperties, LenProperties DEF n
<1> HIDE DEF tail
<1>6. ASSUME NEW i \in 1..(n - 1)
      PROVE  tail[i].todo \subseteq dep[tail[i].svc] /\ (i < n - 1 => now[tail[i].svc] # "running")
  <2>1. i + 1 \in 1..n /\ i + 1 # 1 /\ (i < n - 1 => i + 1 < n)
    BY <1>1, <1>3
  <2> QED BY <1>1, <1>2, <1>3, <1>4, <1>5, <2>1
<1>7. ASSUME NEW rank \in Rankings(dep), NEW i \in 1..(n - 1), NEW j \in 1..(n - 1), i < j
      PROVE  rank[tail[i].svc] < rank[tail[j].svc]
  <2>1. i + 1 \in 1..n /\ j + 1 \in 1..n /\ i + 1 < j + 1
    BY <1>1, <1>7
  <2> QED BY <1>2, <1>5, <2>1
<1>8. g.stack = tail
  BY DEF tail, s
<1> QED BY <1>5, <1>6, <1>7, <1>8 DEF Climbs

(* The same calls with the same dependencies to visit, and no service of    *)
(* theirs that runs now and did not.                                        *)
LEMMA SameClimbs ==
    ASSUME NEW r \in Services, NEW st, NEW now, NEW dep,
           NEW h, SoundHandler(r, h), Climbs(h, st, dep),
           NEW g, SoundHandler(r, g), SameShape(g, h),
           \A i \in DOMAIN h.stack : g.stack[i].todo = h.stack[i].todo,
           \A x \in Services : now[x] = "running" => st[x] = "running"
    PROVE  Climbs(g, now, dep)
<1>1. /\ DOMAIN g.stack = DOMAIN h.stack /\ Len(g.stack) \in Nat /\ Len(h.stack) \in Nat
      /\ DOMAIN g.stack = 1..Len(g.stack) /\ DOMAIN h.stack = 1..Len(h.stack)
      /\ \A i \in DOMAIN h.stack : h.stack[i].svc \in Services
      /\ \A i \in DOMAIN h.stack : g.stack[i].svc = h.stack[i].svc
  BY StackFacts DEF SameShape
<1>2. Len(g.stack) = Len(h.stack)
  <2>1. \A m, n \in Nat : 1..m = 1..n => m = n
    OBVIOUS
  <2> QED BY <1>1, <2>1
<1> QED BY <1>1, <1>2 DEF Climbs

(* Nobody else has a handler, or starts anything. *)
LEMMA OnlyOne ==
    ASSUME IInv, Undisturbed, NEW r \in Services, Active(r)
    PROVE  /\ r = bulk.now /\ handler[r].bulk /\ handler[r].at \in {"stop", "deps", "dep", "own"}
           /\ Climbs(handler[r], status, dependsOn)
           /\ \A q \in Services : q # r => handler[q].at = "idle"
           /\ handler[r].at = "deps" => \A x \in Services : x \in locks <=> x = r
<1>1. /\ r = bulk.now /\ handler[r].bulk
      /\ Climbs(handler[r], status, dependsOn)
      /\ \A q \in Services : q # r => handler[q].at = "idle"
  BY DEF Undisturbed, Active
<1>2. handler[r].at \in {"stop", "deps", "dep", "own"}
  BY <1>1, HandlerFacts DEF HandlerType, Active
<1>3. ASSUME handler[r].at = "deps", NEW x \in Services PROVE x \in locks <=> x = r
  <2>1. \A q \in Services : ~Starting(q, handler[q], x)
    BY <1>1, <1>3 DEF Starting
  <2>2. x \in locks <=> handler[x].at # "idle"
    BY <2>1, HandlerFacts DEF Locking
  <2> QED BY <1>1, <1>3, <2>2
<1> QED BY <1>1, <1>2, <1>3

(* Its handler goes on: no service stops to run but those it is about. *)
LEMMA HandlerGoesOn ==
    ASSUME IInv, Undisturbed, NEW r \in Services, Active(r),
           UNCHANGED <<dependsOn, boot, stops, bulk>>,
           handler'[r].bulk = handler[r].bulk,
           Climbs(handler'[r], status', dependsOn),
           \A q \in Services : q # r => handler'[q].at = "idle",
           \A s \in Services : s # r /\ status[s] = "running" => status'[s] = "running"
    PROVE  Undisturbed'
<1>1. /\ r = bulk.now /\ handler[r].bulk
  BY OnlyOne
<1>2. bulk.members \subseteq Services
  BY DEF IInv, Plain, BulkType
<1> QED BY <1>1, <1>2 DEF Undisturbed, Active

(* Its handler ends, and the service runs if the dependencies are acyclic. *)
LEMMA HandlerEnds ==
    ASSUME IInv, Undisturbed, NEW r \in Services, Active(r),
           UNCHANGED <<dependsOn, boot, stops>>, BulkGoesOn(r),
           handler' = [handler EXCEPT ![r] = Idle],
           Rankings(dependsOn) # {} => status'[r] = "running",
           \A s \in Services : s # r => status'[s] = status[s]
    PROVE  Undisturbed'
<1>1. /\ r = bulk.now /\ handler[r].bulk /\ \A q \in Services : q # r => handler[q].at = "idle"
  BY OnlyOne
<1>2. /\ bulk.members \subseteq Services /\ bulk' = [bulk EXCEPT !.now = NoService]
      /\ bulk'.todo = bulk.todo /\ bulk'.members = bulk.members
  BY <1>1 DEF IInv, Plain, BulkType, BulkGoesOn
<1>3. \A q \in Services : handler'[q].at = "idle"
  BY <1>1, HandlerFacts DEF Idle
<1>4. /\ boot' = {} /\ stops' = {}
  BY DEF Undisturbed
<1>5. Rankings(dependsOn) # {} =>
        \A s \in bulk.members : s \in bulk.todo \/ s = bulk.now \/ status[s] = "running"
  BY DEF Undisturbed
<1>6. Rankings(dependsOn') # {} =>
        \A s \in bulk'.members : s \in bulk'.todo \/ s = bulk'.now \/ status'[s] = "running"
  BY <1>1, <1>2, <1>5
<1> QED BY <1>3, <1>4, <1>6 DEF Undisturbed, Active

(* A cycle is found only where there is one. *)
LEMMA NoCycle ==
    ASSUME IInv, Undisturbed, NEW r \in Services, handler[r].at = "deps",
           NEW d \in Top(r).todo, d \in Visiting(r)
    PROVE  Rankings(dependsOn) = {}
<1> SUFFICES ASSUME NEW rank \in Rankings(dependsOn) PROVE FALSE
  OBVIOUS
<1>1. Climbs(handler[r], status, dependsOn)
  BY OnlyOne DEF Active
<1>2. /\ 1 \in DOMAIN handler[r].stack /\ Top(r) = handler[r].stack[1]
      /\ DOMAIN handler[r].stack = 1..Len(handler[r].stack) /\ Len(handler[r].stack) \in Nat
      /\ \A i \in DOMAIN handler[r].stack : handler[r].stack[i].svc \in Services
  BY HandlerFacts, StackFacts DEF Top
<1>3. PICK i \in DOMAIN handler[r].stack : handler[r].stack[i].svc = d
  BY VisitingIs
<1> DEFINE top == handler[r].stack[1].svc
<1>4. top \in Services /\ d \in Services /\ d \in dependsOn[top]
  BY <1>1, <1>2, <1>3 DEF Climbs
<1>5. rank[d] < rank[top] /\ rank[d] \in Int /\ rank[top] \in Int
  BY <1>4, RankingsRank
<1>6. i = 1 \/ 1 < i
  BY <1>2
<1>7. 1 < i => rank[top] < rank[d]
  BY <1>1, <1>2, <1>3 DEF Climbs
<1>8. i = 1 => rank[top] = rank[d]
  BY <1>3
<1> HIDE DEF top
<1>9. \A a, b \in Int : a < b => ~(b < a) /\ b # a
  OBVIOUS
<1> QED BY <1>5, <1>6, <1>7, <1>8, <1>9

LEMMA RecurseUndisturbed ==
    ASSUME IInv, Undisturbed, NEW r \in Services, Recurse(r)
    PROVE  Undisturbed'
<1>1. PICK d \in Down(r) \ Visiting(r), passed \in SUBSET (Top(r).todo \ Down(r)) :
        handler' = [handler EXCEPT ![r].stack =
            <<Call(d), [Top(r) EXCEPT !.todo = @ \ ({d} \cup passed)]>> \o Tail(@)]
  BY DEF Recurse
<1>2. /\ handler[r].at = "deps" /\ Top(r) = handler[r].stack[1] /\ Top(r) \in FrameType
      /\ Active(r)
  BY HandlerFacts, StackFacts DEF Recurse, Top, Active
<1>0. /\ Climbs(handler[r], status, dependsOn)
      /\ \A q \in Services : q # r => handler[q].at = "idle"
  BY <1>2, OnlyOne
<1> DEFINE c == Call(d)
           todo == Top(r).todo \ ({d} \cup passed)
           h == Pushed(handler[r], c, todo)
<1>3. d \in Services /\ todo \in SUBSET Services /\ d \in handler[r].stack[1].todo
      /\ todo \subseteq handler[r].stack[1].todo /\ status[d] # "running"
  BY <1>2 DEF Down, FrameType
<1>4. c \in FrameType /\ c.svc = d /\ c.need = c.todo /\ c.todo = dependsOn[d]
  BY <1>3, HandlerFacts DEF Call, FrameType
<1>5. handler' = [handler EXCEPT ![r] = h] /\ UNCHANGED <<status, locks>> /\ h.bulk = handler[r].bulk
      /\ UNCHANGED <<dependsOn, boot, stops, bulk>>
  BY <1>1, <1>2, HandlerFacts DEF Recurse, Pushed, HandlerType
<1>6. \A x \in handler[r].stack[1].todo \ todo : status[x] = "running" \/ x = c.svc
  BY <1>2, <1>4 DEF Down
<1>7. \A i \in DOMAIN handler[r].stack : handler[r].stack[i].svc # c.svc
  BY <1>4, VisitingIs
<1> HIDE DEF c, todo
<1>8. CanPush(handler[r], status, c, todo)
  BY <1>2, <1>3, <1>4, <1>6, <1>7 DEF CanPush
<1>9. Climbs(h, status, dependsOn) /\ h.at = "deps"
  <2>1. SoundHandler(r, handler[r]) /\ dependsOn \in [Services -> SUBSET Services]
    BY HandlerFacts
  <2>2. c.todo \subseteq dependsOn[c.svc] /\ status[c.svc] # "running"
        /\ c.svc \in handler[r].stack[1].todo
    BY <1>3, <1>4
  <2> QED BY <1>0, <1>3, <1>8, <2>1, <2>2, PushClimbs, PushedStack
<1> HIDE DEF h
<1>10. handler'[r] = h /\ \A q \in Services : q # r => handler'[q] = handler[q]
  BY <1>5, HandlerFacts
<1> QED BY <1>0, <1>2, <1>5, <1>9, <1>10, HandlerGoesOn

LEMMA StartDepUndisturbed ==
    ASSUME IInv, Undisturbed, NEW r \in Services, StartDep(r)
    PROVE  Undisturbed'
<1> DEFINE d == Top(r).svc
<1>1. /\ handler[r].at = "deps" /\ Len(handler[r].stack) > 1 /\ d \in Services /\ Active(r)
      /\ d = handler[r].stack[1].svc /\ 1 \in DOMAIN handler[r].stack
  <2>1. handler[r].at = "deps" /\ ~AtRoot(r)
    BY DEF StartDep, Walked
  <2> QED BY <2>1, RootOrNot, HandlerFacts, StackFacts DEF Active
<1>2. /\ Climbs(handler[r], status, dependsOn) /\ SoundHandler(r, handler[r])
      /\ \A q \in Services : q # r => handler[q].at = "idle"
  BY <1>1, OnlyOne, HandlerFacts
<1>3. status[d] # "running"
  BY <1>1, <1>2 DEF Climbs
<1>4. /\ status' = [status EXCEPT ![d] = "starting"] /\ UNCHANGED <<dependsOn, boot, stops, bulk>>
      /\ handler' = [handler EXCEPT ![r].at = "dep"]
  BY <1>3 DEF StartDep, Begin, Becomes
<1>5. /\ \A q \in Services : q # r => handler'[q] = handler[q]
      /\ handler'[r].at = "dep" /\ handler'[r].stack = handler[r].stack
      /\ handler'[r].bulk = handler[r].bulk
  BY <1>4, HandlerFacts DEF HandlerType
<1>6. /\ \A x \in Services : status'[x] = "running" => status[x] = "running"
      /\ \A x \in Services : status[x] = "running" => status'[x] = "running"
  BY <1>1, <1>3, <1>4, HandlerFacts
<1>7. Climbs(handler'[r], status', dependsOn)
  <2>1. \A i \in DOMAIN handler[r].stack : handler[r].stack[i].svc \in Services
    BY <1>2, StackFacts
  <2>2. PICK g : g = handler'[r]
    OBVIOUS
  <2>3. PICK now : now = status'
    OBVIOUS
  <2>4. g.stack = handler[r].stack /\ \A x \in Services : now[x] = "running" => status[x] = "running"
    BY <1>5, <1>6, <2>2, <2>3
  <2>5. Climbs(g, now, dependsOn)
    BY <1>2, <2>1, <2>4 DEF Climbs
  <2> QED BY <2>2, <2>3, <2>5
<1>8. /\ \A q \in Services : q # r => handler'[q].at = "idle"
      /\ \A s \in Services : s # r /\ status[s] = "running" => status'[s] = "running"
      /\ handler'[r].bulk = handler[r].bulk /\ handler'[r].at \in {"deps", "dep", "own"}
      /\ UNCHANGED <<dependsOn, boot, stops, bulk>>
      /\ Active(r)
  BY <1>1, <1>2, <1>4, <1>5, <1>6
<1> QED BY <1>7, <1>8, HandlerGoesOn

LEMMA DepStartedUndisturbed ==
    ASSUME IInv, Undisturbed, NEW r \in Services, DepStarted(r)
    PROVE  Undisturbed'
<1> DEFINE d == Top(r).svc
<1>1. /\ handler[r].at = "dep" /\ Len(handler[r].stack) > 1 /\ d \in Services /\ Active(r)
      /\ d = handler[r].stack[1].svc
  BY RootOrNot, HandlerFacts DEF DepStarted, SoundHandler, Active
<1>2. /\ Climbs(handler[r], status, dependsOn) /\ SoundHandler(r, handler[r])
      /\ \A q \in Services : q # r => handler[q].at = "idle"
  BY <1>1, OnlyOne, HandlerFacts
<1>3. /\ status' = [status EXCEPT ![d] = "running"] /\ UNCHANGED <<dependsOn, boot, stops, bulk>>
      /\ handler' = Pop(r, handler)
  BY DEF DepStarted, Becomes
<1>4. /\ \A q \in Services : q # r => handler'[q] = handler[q]
      /\ handler'[r].at = "deps" /\ handler'[r].stack = Tail(handler[r].stack)
      /\ handler'[r].bulk = handler[r].bulk
  BY <1>3, HandlerFacts DEF HandlerType, Pop
<1>5. /\ \A x \in Services : x # d => status'[x] = status[x]
      /\ status'[d] = "running"
  BY <1>1, <1>3, HandlerFacts
<1>6. Climbs(handler'[r], status', dependsOn)
  <2>1. PICK g : g = handler'[r]
    OBVIOUS
  <2>2. PICK now : now = status'
    OBVIOUS
  <2>3. /\ g.stack = Tail(handler[r].stack)
        /\ \A x \in Services : x # handler[r].stack[1].svc => now[x] = status[x]
    BY <1>1, <1>4, <1>5, <2>1, <2>2
  <2>4. Climbs(g, now, dependsOn)
    BY <1>1, <1>2, <2>3, PopClimbs
  <2> QED BY <2>1, <2>2, <2>4
<1>7. \A s \in Services : s # r /\ status[s] = "running" => status'[s] = "running"
  BY <1>5
<1>8. /\ \A q \in Services : q # r => handler'[q].at = "idle"
      /\ handler'[r].bulk = handler[r].bulk /\ handler'[r].at \in {"deps", "dep", "own"}
      /\ UNCHANGED <<dependsOn, boot, stops, bulk>>
      /\ Active(r)
  BY <1>1, <1>2, <1>3, <1>4
<1> QED BY <1>6, <1>7, <1>8, HandlerGoesOn

(* The root leaves "running", or does not run. *)
LEMMA RootFalls ==
    ASSUME IInv, NEW r \in Services, NEW h, SoundHandler(r, h), Climbs(h, status, dependsOn),
           NEW hs \in [Services -> HandlerType], hs[r] = h,
           \A q \in Services : q # r => hs[q].at = "idle",
           NEW v, v # "running", Becomes(r, v, hs)
    PROVE  /\ handler'[r].bulk = h.bulk
           /\ Climbs(handler'[r], status', dependsOn)
           /\ \A q \in Services : q # r => handler'[q].at = "idle"
           /\ \A s \in Services : s # r => status'[s] = status[s]
<1>1. h \in HandlerType /\ status' = [status EXCEPT ![r] = v]
  BY DEF SoundHandler, Becomes
<1>2. /\ SoundHandler(r, handler'[r]) /\ SameShape(handler'[r], h) /\ handler'[r].bulk = h.bulk
      /\ \A i \in DOMAIN h.stack : handler'[r].stack[i].todo = h.stack[i].todo
      /\ \A q \in Services : q # r => handler'[q].at = "idle"
  <2>1. CASE handler' = hs
    BY <2>1 DEF SameShape
  <2>2. CASE handler' = Fallen(hs, r)
    <3>1. handler'[r] = FallenOne(h, r)
      BY <2>2 DEF Fallen, FallenOne
    <3>2. FallenOne(h, r).bulk = h.bulk
      BY <1>1 DEF FallenOne, HandlerType
    <3>3. \A q \in Services : handler'[q].at = hs[q].at
      BY BecomesAt
    <3> QED BY <3>1, <3>2, <3>3, FallenSound
  <2> QED BY <2>1, <2>2 DEF Becomes
<1>3. /\ \A x \in Services : status'[x] = "running" => status[x] = "running"
      /\ \A s \in Services : s # r => status'[s] = status[s]
  BY <1>1, HandlerFacts
<1>4. Climbs(handler'[r], status', dependsOn)
  BY <1>2, <1>3, SameClimbs
<1> QED BY <1>2, <1>3, <1>4

LEMMA StartOwnUndisturbed ==
    ASSUME IInv, Undisturbed, NEW r \in Services, StartOwn(r)
    PROVE  Undisturbed'
<1> DEFINE h == [handler[r] EXCEPT !.at = "own"]
           hs == [handler EXCEPT ![r] = h]
<1>1. handler[r].at = "deps" /\ Len(handler[r].stack) = 1 /\ Active(r)
  BY RootOrNot DEF StartOwn, Walked, Active
<1>2. /\ Climbs(handler[r], status, dependsOn)
      /\ \A q \in Services : q # r => handler[q].at = "idle"
  BY <1>1, OnlyOne
<1>3. SoundHandler(r, h) /\ h.stack = handler[r].stack
  <2>1. "own" \in {"dep", "own"} /\ ("own" = "own" <=> Len(handler[r].stack) = 1)
    BY <1>1
  <2>2. SoundHandler(r, handler[r]) /\ Read(handler[r], status)
    BY HandlerFacts
  <2> HIDE DEF h
  <2>3. h = [handler[r] EXCEPT !.at = "own"]
    BY DEF h
  <2> QED BY <1>1, <2>1, <2>2, <2>3, AwaitSound
<1>4. h \in HandlerType /\ h.bulk = handler[r].bulk /\ Climbs(h, status, dependsOn)
  BY <1>2, <1>3, HandlerFacts DEF HandlerType, Climbs
<1>5. Becomes(r, "starting", hs) /\ UNCHANGED <<dependsOn, boot, stops, bulk>>
  BY HandlerFacts DEF StartOwn, Begin
<1> HIDE DEF h
<1>6. hs \in [Services -> HandlerType] /\ hs[r] = h /\ \A q \in Services : q # r => hs[q].at = "idle"
  BY <1>2, <1>4, HandlerFacts
<1> HIDE DEF hs
<1>7. /\ handler'[r].bulk = handler[r].bulk /\ Climbs(handler'[r], status', dependsOn)
      /\ \A q \in Services : q # r => handler'[q].at = "idle"
      /\ \A s \in Services : s # r => status'[s] = status[s]
  BY <1>3, <1>4, <1>5, <1>6, RootFalls
<1> QED BY <1>1, <1>5, <1>7, HandlerGoesOn

LEMMA RestartStoppedUndisturbed ==
    ASSUME IInv, Undisturbed, NEW r \in Services, RestartStopped(r)
    PROVE  Undisturbed'
<1> DEFINE h == [handler[r] EXCEPT !.at = "deps", !.stack = <<Call(r)>>]
           hs == [handler EXCEPT ![r] = h]
<1>1. Active(r) /\ \A q \in Services : q # r => handler[q].at = "idle"
  BY OnlyOne DEF RestartStopped, Active
<1>2. /\ h \in [at : {"deps"}, bulk : BOOLEAN, stack : {<<Call(r)>>}] /\ h.at = "deps"
      /\ h.stack = <<Call(r)>> /\ h.bulk = handler[r].bulk
  BY HandlerFacts DEF HandlerType
<1>3. Becomes(r, "stopped", hs) /\ UNCHANGED <<dependsOn, boot, stops, bulk>>
  BY HandlerFacts DEF RestartStopped
<1> HIDE DEF h
<1>4. SoundHandler(r, h) /\ Climbs(h, status, dependsOn) /\ h \in HandlerType
  BY <1>2, CallSound, CallClimbs, HandlerFacts DEF SoundHandler
<1>5. hs \in [Services -> HandlerType] /\ hs[r] = h /\ \A q \in Services : q # r => hs[q].at = "idle"
  BY <1>1, <1>4, HandlerFacts
<1> HIDE DEF hs
<1>6. /\ handler'[r].bulk = h.bulk /\ Climbs(handler'[r], status', dependsOn)
      /\ \A q \in Services : q # r => handler'[q].at = "idle"
      /\ \A s \in Services : s # r => status'[s] = status[s]
  BY <1>3, <1>4, <1>5, RootFalls
<1>7. handler'[r].bulk = handler[r].bulk
  BY <1>2, <1>6
<1> QED BY <1>1, <1>3, <1>6, <1>7, HandlerGoesOn

(* The other steps of a handler end it, or cannot be taken. *)
LEMMA HandlerStepUndisturbed ==
    ASSUME IInv, Undisturbed, ended = {}, NEW r \in Services, HandlerStep(r), bulk'.alone
    PROVE  Undisturbed'
<1>1. CASE CycleFound(r)
  <2>1. /\ handler[r].at = "deps" /\ Active(r) /\ Rankings(dependsOn) = {}
    BY <1>1, NoCycle DEF CycleFound, Down, Active
  <2> QED BY <1>1, <2>1, HandlerEnds DEF CycleFound, Leave
<1>2. CASE LockRefused(r)
  <2>1. handler[r].at = "deps" /\ ~AtRoot(r) /\ Top(r).svc \in locks /\ Active(r)
    BY <1>2 DEF LockRefused, Walked, Active
  <2>2. Top(r).svc = r /\ Len(handler[r].stack) > 1 /\ Top(r).svc = handler[r].stack[1].svc
    BY <2>1, RootOrNot, OnlyOne
  <2>3. /\ StackOf(r, handler[r].stack) /\ Len(handler[r].stack) \in DOMAIN handler[r].stack
        /\ 1 \in DOMAIN handler[r].stack /\ handler[r].stack # <<>>
    BY <2>1, HandlerFacts, StackFacts DEF SoundHandler
  <2>4. Len(handler[r].stack) = 1
    BY <2>2, <2>3 DEF StackOf
  <2>5. ~(1 > 1)
    OBVIOUS
  <2> QED BY <2>2, <2>4, <2>5, Zenon
<1>3. CASE DepUpAlready(r)
  <2>0. handler[r].at = "deps" /\ ~AtRoot(r) /\ Top(r).svc \in tracked /\ Active(r)
    BY <1>3 DEF DepUpAlready, Walked, Active
  <2>1. handler[r].at = "deps" /\ ~AtRoot(r) /\ status[Top(r).svc] = "running" /\ Active(r)
    BY <2>0 DEF IInv, Tracking
  <2>2. /\ Len(handler[r].stack) > 1 /\ status[handler[r].stack[1].svc] = "running"
        /\ 1 \in DOMAIN handler[r].stack
    BY <2>1, RootOrNot, HandlerFacts, StackFacts
  <2> QED BY <2>1, <2>2, OnlyOne DEF Climbs
<1>4. CASE OwnUpAlready(r)
  <2>1. r \in tracked /\ status[r] = "running"
    BY <1>4 DEF OwnUpAlready, IInv, Tracking
  <2> QED BY <1>4, <2>1, HandlerEnds DEF OwnUpAlready, Walked, Leave, Active
<1>5. CASE OwnStarted(r)
  <2>1. status'[r] = "running" /\ \A s \in Services : s # r => status'[s] = status[s]
    BY <1>5, HandlerFacts DEF OwnStarted
  <2> QED BY <1>5, <2>1, HandlerEnds DEF OwnStarted, Leave, Active
<1>7. CASE DepFailed(r) \/ OwnFailed(r)
  <2>1. bulk \in BulkType
    BY DEF IInv, Plain
  <2> QED BY <1>7, <2>1 DEF DepFailed, OwnFailed, Disturbed, BulkType
<1> QED BY <1>1, <1>2, <1>3, <1>4, <1>5, <1>7, RecurseUndisturbed, StartDepUndisturbed,
           DepStartedUndisturbed, StartOwnUndisturbed, RestartStoppedUndisturbed DEF HandlerStep

(* It takes the next member. *)
LEMMA BulkNextUndisturbed ==
    ASSUME IInv, Undisturbed, bulk.op \in {"start", "restart"}, NEW s \in Services, BulkNext(s)
    PROVE  Undisturbed'
<1>1. /\ bulk.now = NoService /\ s \in bulk.todo /\ bulk \in BulkType
      /\ UNCHANGED <<dependsOn, boot>>
  BY DEF BulkNext, IInv, Plain
<1>2. \A q \in Services : handler[q].at = "idle"
  BY <1>1, ServicesAssumption DEF Undisturbed, Active
<1>3. s \notin locks
  <2>1. \A q \in Services : ~Starting(q, handler[q], s)
    BY <1>2 DEF Starting
  <2> QED BY <1>2, <2>1, HandlerFacts DEF Locking
<1>4. /\ Enter(s, TRUE) \/ EnterRestart(s, TRUE)
      /\ bulk' = [bulk EXCEPT !.todo = @ \ {s}, !.now = s] /\ UNCHANGED stops
  BY <1>3 DEF BulkNext
<1>5. /\ handler'[s].bulk /\ Climbs(handler'[s], status', dependsOn)
      /\ \A q \in Services : q # s => handler'[q].at = "idle"
      /\ \A x \in Services : x # s => status'[x] = status[x]
  <2>1. CASE Enter(s, TRUE)
    <3> DEFINE h == [at |-> "deps", bulk |-> TRUE, stack |-> <<Call(s)>>]
    <3>1. h.bulk = TRUE /\ Climbs(h, status, dependsOn)
      BY CallClimbs
    <3>2. handler' = [handler EXCEPT ![s] = h] /\ UNCHANGED status
      BY <2>1 DEF Enter
    <3> HIDE DEF h
    <3>3. handler'[s] = h /\ \A q \in Services : q # s => handler'[q].at = "idle"
      BY <1>2, <3>2, HandlerFacts
    <3> QED BY <3>1, <3>2, <3>3
  <2>2. CASE EnterRestart(s, TRUE)
    <3> DEFINE h == [at |-> "stop", bulk |-> TRUE, stack |-> <<>>]
               hs == [handler EXCEPT ![s] = h]
    <3>1. SoundHandler(s, h) /\ h.bulk = TRUE /\ Climbs(h, status, dependsOn) /\ h \in HandlerType
      <4>1. <<>> \in Seq(FrameType) /\ Len(<<>>) = 0 /\ DOMAIN <<>> = {}
        BY EmptySeq
      <4> QED BY <4>1 DEF SoundHandler, StackOf, HandlerType, Climbs
    <3>2. Becomes(s, "stopping", hs)
      BY <2>2 DEF EnterRestart
    <3> HIDE DEF h
    <3>3. hs \in [Services -> HandlerType] /\ hs[s] = h
          /\ \A q \in Services : q # s => hs[q].at = "idle"
      BY <1>2, <3>1, HandlerFacts
    <3> HIDE DEF hs
    <3> QED BY <3>1, <3>2, <3>3, RootFalls
  <2> QED BY <1>4, <2>1, <2>2
<1>6. bulk'.now = s /\ bulk'.todo = bulk.todo \ {s} /\ bulk'.members = bulk.members
  BY <1>1, <1>4 DEF BulkType
<1>7. \A q \in Services : Active(q)' =>
        q = bulk'.now /\ handler'[q].bulk /\ Climbs(handler'[q], status', dependsOn')
  BY <1>1, <1>5, <1>6 DEF Active
<1>8. Rankings(dependsOn') # {} =>
        \A x \in bulk'.members : x \in bulk'.todo \/ x = bulk'.now \/ status'[x] = "running"
  <2>1. bulk.members \subseteq Services
    BY <1>1 DEF BulkType
  <2>2. Rankings(dependsOn) # {} =>
          \A x \in bulk.members : x \in bulk.todo \/ x = bulk.now \/ status[x] = "running"
    BY DEF Undisturbed
  <2> QED BY <1>1, <1>5, <1>6, <2>1, <2>2, ServicesAssumption
<1>9. boot' = {} /\ stops' = {}
  BY <1>1, <1>4 DEF Undisturbed
<1> QED BY <1>7, <1>8, <1>9 DEF Undisturbed

LEMMA StartAllStep == ASSUME IInv, StartAll, [Next]_vars PROVE StartAll'
<1> SUFFICES ASSUME bulk'.op \in {"start", "restart"}, bulk'.alone PROVE Undisturbed' /\ ended' = {}
  BY DEF StartAll
<1>0. bulk \in BulkType
  BY DEF IInv, Plain
<1>1. ASSUME bulk' = Disturbed PROVE FALSE
  BY <1>0, <1>1 DEF Disturbed, BulkType
<1>2. ASSUME NEW op \in {"start", "restart", "stop"}, BulkRequest(op) PROVE Undisturbed' /\ ended' = {}
  <2>1. PICK members \in SUBSET Services \ {{}} :
          bulk' = [op |-> op, members |-> members, todo |-> members, now |-> NoService,
                   alone |-> /\ boot = {} /\ stops = {} /\ ended = {}
                             /\ \A r \in Services : ~Active(r)]
    BY <1>2 DEF BulkRequest
  <2>2. boot = {} /\ stops = {} /\ ended = {} /\ \A r \in Services : ~Active(r)
    BY <2>1
  <2>3. bulk'.members = bulk'.todo
    BY <2>1
  <2> QED BY <1>2, <2>2, <2>3 DEF BulkRequest, Undisturbed, Active
<1>3. CASE BulkEnds
  BY <1>3 DEF BulkEnds, NoBulk
<1>4. ASSUME bulk'.op = bulk.op, bulk'.alone = bulk.alone PROVE bulk.op \in {"start", "restart"} /\ Undisturbed /\ ended = {}
  BY <1>4 DEF StartAll
<1>5. ASSUME NEW s \in Services, StopEnds(s) PROVE Undisturbed' /\ ended' = {}
  <2>1. bulk'.op = bulk.op /\ bulk'.alone = bulk.alone /\ s \in stops
    BY <1>0, <1>5 DEF StopEnds, BulkType
  <2> QED BY <1>4, <2>1 DEF Undisturbed
<1>6. ASSUME NEW s \in Services, BulkNext(s) PROVE Undisturbed' /\ ended' = {}
  <2>1. bulk'.op = bulk.op /\ bulk'.alone = bulk.alone
    BY <1>0, <1>6 DEF BulkNext, BulkType
  <2>2. ended' \subseteq ended
    BY <1>6 DEF BulkNext, Enter, EnterRestart, StopBegins, Untrack
  <2> QED BY <1>4, <1>6, <2>1, <2>2, BulkNextUndisturbed
<1>7. ASSUME NEW r \in Services, HandlerStep(r) PROVE Undisturbed' /\ ended' = {}
  <2>1. CASE DepFailed(r) \/ OwnFailed(r)
    BY <1>0, <2>1 DEF DepFailed, OwnFailed, Disturbed, BulkType
  <2>2. CASE ~(DepFailed(r) \/ OwnFailed(r))
    <3>1. bulk' = bulk \/ BulkGoesOn(r)
      BY <1>7, <2>2 DEF HandlerStep, RestartStopped, Recurse, CycleFound, LockRefused, StartDep,
           DepUpAlready, DepStarted, StartOwn, OwnUpAlready, OwnStarted
    <3>2. bulk'.op = bulk.op /\ bulk'.alone = bulk.alone
      BY <1>0, <3>1 DEF BulkGoesOn, BulkType
    <3>3. ended' = ended
      BY <1>7, <2>2 DEF HandlerStep, RestartStopped, Recurse, CycleFound, LockRefused, StartDep,
           DepUpAlready, DepStarted, StartOwn, OwnUpAlready, OwnStarted, Begin, Track
    <3> QED BY <1>4, <1>7, <3>2, <3>3, HandlerStepUndisturbed
  <2> QED BY <2>1, <2>2
<1>8. ASSUME NEW s \in Services,
             Start(s) \/ Restart(s) \/ BootStart(s) \/ Stop(s) \/ Dies(s) \/ ContainerEnds(s)
               \/ EditDependencies(s)
      PROVE  FALSE
  BY <1>1, <1>8 DEF Start, Restart, BootStart, Stop, Dies, ContainerEnds, EditDependencies
<1>10. ASSUME NEW s \in Services, ExitHandled(s) PROVE Undisturbed' /\ ended' = {}
  <2>1. bulk' = bulk /\ s \in ended
    BY <1>10 DEF ExitHandled
  <2> QED BY <1>4, <2>1
<1>9. CASE UNCHANGED vars
  BY <1>9 DEF vars, StartAll, Undisturbed, Active
<1> QED BY <1>2, <1>3, <1>5, <1>6, <1>7, <1>8, <1>9, <1>10 DEF Next

LEMMA StartAllEnd ==
    ASSUME IInv, StartAll
    PROVE  StartAllStarts
<1> SUFFICES ASSUME bulk.op \in {"start", "restart"}, bulk.todo = {}, bulk.now = NoService, bulk.alone, Acyclic,
                    NEW s \in bulk.members
             PROVE  status[s] = "running"
  BY DEF StartAllStarts
<1>1. s # NoService
  BY ServicesAssumption DEF IInv, Plain, BulkType
<1> QED BY <1>1, AcyclicIs DEF StartAll, Undisturbed

(* A start-all or restart-all that nothing else meets leaves all its        *)
(* members running, whatever the order it takes them in and however deep    *)
(* the dependencies: its walks meet no cycle and no lock, and none takes    *)
(* down what an earlier one has left running.                               *)
THEOREM StartAllDoesStart == Spec => []StartAllStarts
<1>1. Init => StartAll
  BY DEF Init, StartAll, NoBulk
<1>2. IInv /\ StartAll /\ [Next]_vars => StartAll'
  BY StartAllStep
<1>3. IInv /\ StartAll => StartAllStarts
  BY StartAllEnd
<1> QED BY <1>1, <1>2, <1>3, AlwaysSound, PTL DEF Spec
=============================================================================
