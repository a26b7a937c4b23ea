-------------------------- MODULE SaasDomainsProofs --------------------------
(***************************************************************************)
(* Theorems about SaasDomains, for any services and bounds: type           *)
(* correctness, which includes that the mutex of the tunnel is a queue of  *)
(* the requests at the tunnel; that the tunnel ends where the row does     *)
(* unless a call is lost or the row of the last turn had gone; and that a  *)
(* record is left behind, and a row is wrongly active, in the listed ways  *)
(* only.                                                                   *)
(***************************************************************************)
EXTENDS SaasDomains, SequenceTheorems, TLAPS

(* What the rule of the tunnel becomes at the turn of a handler.            *)
Target(h) == IF h.op = "register" THEN h.svc ELSE NoService

(* A handler is where its operation can be. *)
SoundTask(h) ==
    /\ h \in Handler
    /\ h.at \in {"origin", "record", "list"} => h.op = "register"
    /\ h.at = "stop" => h.op = "deleteService"
    /\ h.at = "drop" => h.op \in {"delete", "deleteService"}

Plain ==
    /\ own \in BOOLEAN
    /\ services \subseteq Service
    /\ row \in [id : Ids, svc : Service \cup {NoService}, ch : Ids, status : Status]
    /\ record \in [id : Ids, state : Validation]
    /\ rule \in Service \cup {NoService}
    /\ astray \subseteq Ids
    /\ faults \in 0..MaxFaults

(* A number above those of the requests made is free. *)
Tasks ==
    /\ task \in [Task -> Handler]
    /\ \A n \in Task : SoundTask(task[n])
    /\ requests \in 0..MaxRequests
    /\ \A n \in Task : n > requests => task[n].at = "idle"

Queue ==
    /\ mutex \in Seq(Task)
    /\ \A i, j \in DOMAIN mutex : mutex[i] = mutex[j] => i = j
    /\ \A i \in DOMAIN mutex : task[mutex[i]].at = "ingress"
    /\ \A n \in Task : task[n].at = "ingress" => \E i \in DOMAIN mutex : mutex[i] = n

(* The latest turn brings the tunnel to the row, if it found its row.       *)
Latest ==
    mutex # <<>> /\ task[mutex[Len(mutex)]].hit => row.svc = Target(task[mutex[Len(mutex)]])

IInv == Plain /\ Tasks /\ Queue /\ Latest

LEMMA IInvTypes == IInv => TypeOK
<1> SUFFICES ASSUME IInv PROVE TypeOK
  OBVIOUS
<1>1. {mutex[i] : i \in DOMAIN mutex} = {n \in Task : task[n].at = "ingress"}
  <2>1. \A i \in DOMAIN mutex : mutex[i] \in Task
    BY ElementOfSeq DEF IInv, Queue
  <2> QED BY <2>1 DEF IInv, Queue
<1> QED BY <1>1 DEF IInv, Plain, Tasks, Queue, TypeOK

------------------------------------------------------------------------------
(* What a step does to the task of a request, and to the queue. *)

LEMMA QueueFacts ==
    ASSUME Queue
    PROVE  /\ Len(mutex) \in Nat /\ DOMAIN mutex = 1..Len(mutex)
           /\ \A i \in DOMAIN mutex : mutex[i] \in Task
           /\ mutex # <<>> => Len(mutex) \in DOMAIN mutex
BY ElementOfSeq, LenProperties, EmptySeq DEF Queue

LEMMA OthersStay ==
    ASSUME Tasks, NEW n \in Task, NEW h, SoundTask(h), task' = [task EXCEPT ![n] = h]
    PROVE  /\ task' \in [Task -> Handler] /\ task'[n] = h
           /\ \A m \in Task : m # n => task'[m] = task[m]
           /\ \A m \in Task : SoundTask(task'[m])
BY DEF Tasks, SoundTask

(* A request goes on outside the queue. *)
LEMMA GoesOn ==
    ASSUME Tasks, Queue, Latest, NEW n \in Task, task[n].at # "ingress",
           NEW h, SoundTask(h), h.at # "ingress", task' = [task EXCEPT ![n] = h],
           n <= requests' \/ h.at = "idle", requests' \in 0..MaxRequests, requests <= requests',
           UNCHANGED mutex, row'.svc = row.svc
    PROVE  Tasks' /\ Queue' /\ Latest'
<1>1. Tasks'
  <2>1. ASSUME NEW m \in Task, m > requests' PROVE task'[m].at = "idle"
    <3>1. m > requests
      BY <2>1 DEF Tasks, Task
    <3>2. m = n => h.at = "idle"
      BY <2>1 DEF Tasks, Task
    <3> QED BY <3>1, <3>2, OthersStay DEF Tasks
  <2> QED BY <2>1, OthersStay DEF Tasks
<1>2. \A i \in DOMAIN mutex : mutex[i] # n /\ task'[mutex[i]] = task[mutex[i]]
  BY QueueFacts, OthersStay DEF Queue
<1>3. Queue'
  BY <1>2, OthersStay DEF Queue
<1>4. Latest'
  BY <1>2, QueueFacts DEF Latest, Target
<1> QED BY <1>1, <1>3, <1>4

(* A request takes a turn. *)
LEMMA TakesTurn ==
    ASSUME Tasks, Queue, NEW n \in Task, task[n].at \notin {"idle", "ingress"},
           NEW h, SoundTask(h), h.at = "ingress", task' = [task EXCEPT ![n] = h],
           mutex' = Append(mutex, n), h.hit => row'.svc = Target(h), UNCHANGED requests
    PROVE  Tasks' /\ Queue' /\ Latest'
<1>1. Tasks'
  BY OthersStay DEF Tasks
<1>2. /\ mutex' \in Seq(Task) /\ Len(mutex') = Len(mutex) + 1 /\ mutex'[Len(mutex) + 1] = n
      /\ \A i \in 1..Len(mutex) : mutex'[i] = mutex[i]
      /\ DOMAIN mutex' = 1..(Len(mutex) + 1)
  BY AppendProperties, LenProperties DEF Queue
<1>3. \A i \in DOMAIN mutex : mutex[i] # n /\ task'[mutex[i]] = task[mutex[i]]
  BY QueueFacts, OthersStay DEF Queue
<1>4. Queue'
  <2>1. DOMAIN mutex' = DOMAIN mutex \cup {Len(mutex) + 1}
    BY <1>2, QueueFacts
  <2>2. \A i, j \in DOMAIN mutex' : mutex'[i] = mutex'[j] => i = j
    BY <1>2, <1>3, <2>1, QueueFacts DEF Queue
  <2>3. \A i \in DOMAIN mutex' : task'[mutex'[i]].at = "ingress"
    <3> SUFFICES ASSUME NEW i \in DOMAIN mutex' PROVE task'[mutex'[i]].at = "ingress"
      OBVIOUS
    <3>1. CASE i = Len(mutex) + 1
      BY <1>2, <3>1, OthersStay
    <3>2. CASE i \in DOMAIN mutex
      <4>1. mutex'[i] = mutex[i]
        BY <1>2, <3>2, QueueFacts
      <4> QED BY <1>3, <3>2, <4>1 DEF Queue
    <3> QED BY <2>1, <3>1, <3>2
  <2>4. ASSUME NEW m \in Task, task'[m].at = "ingress" PROVE \E i \in DOMAIN mutex' : mutex'[i] = m
    <3>1. CASE m = n
      BY <1>2, <2>1, <3>1
    <3>2. CASE m # n
      <4>1. task[m].at = "ingress"
        BY <2>4, <3>2, OthersStay
      <4>2. PICK i \in DOMAIN mutex : mutex[i] = m
        BY <4>1 DEF Queue
      <4> QED BY <1>2, <2>1, <4>2, QueueFacts
    <3> QED BY <3>1, <3>2
  <2> QED BY <1>2, <2>2, <2>3, <2>4 DEF Queue
<1>5. Latest'
  BY <1>2, OthersStay DEF Latest, Target
<1> QED BY <1>1, <1>4, <1>5

LEMMA IdleSound == SoundTask(Idle)
<1>1. 0 \in Ids \/ MaxRequests \notin Nat
  BY DEF Ids
<1> QED BY <1>1, BoundsAssumption DEF SoundTask, Handler, Idle, Places, Replies, Ids

(* The first in the queue has its turn. *)
LEMMA EndsTurn ==
    ASSUME Tasks, Queue, Latest, NEW n \in Task, mutex # <<>>, Head(mutex) = n,
           mutex' = Tail(mutex), task' = [task EXCEPT ![n] = Idle], UNCHANGED <<row, requests>>
    PROVE  Tasks' /\ Queue' /\ Latest'
<1>1. Tasks'
  BY IdleSound, OthersStay DEF Tasks, Idle
<1>2. /\ mutex' \in Seq(Task) /\ Len(mutex') = Len(mutex) - 1
      /\ \A i \in 1..Len(mutex') : mutex'[i] = mutex[i + 1]
      /\ DOMAIN mutex' = 1..Len(mutex') /\ n = mutex[1] /\ 1 \in DOMAIN mutex
  BY HeadTailProperties, LenProperties, EmptySeq, QueueFacts DEF Queue
<1>3. \A i \in DOMAIN mutex' : i + 1 \in DOMAIN mutex
  BY <1>2, QueueFacts
<1>4. \A i \in DOMAIN mutex' : mutex'[i] # n /\ task'[mutex'[i]] = task[mutex'[i]]
  <2> SUFFICES ASSUME NEW i \in DOMAIN mutex' PROVE mutex'[i] # n
    BY <1>2, <1>3, QueueFacts, IdleSound, OthersStay
  <2>1. i + 1 # 1 /\ i \in Nat
    BY <1>2
  <2> QED BY <1>2, <1>3, <2>1 DEF Queue
<1>5. Queue'
  <2>1. \A i, j \in DOMAIN mutex' : mutex'[i] = mutex'[j] => i = j
    <3> SUFFICES ASSUME NEW i \in DOMAIN mutex', NEW j \in DOMAIN mutex', mutex'[i] = mutex'[j]
                 PROVE  i = j
      OBVIOUS
    <3>1. i + 1 = j + 1
      BY <1>2, <1>3 DEF Queue
    <3>2. i \in Nat /\ j \in Nat
      BY <1>2
    <3> QED BY <3>1, <3>2
  <2>2. ASSUME NEW m \in Task, task'[m].at = "ingress" PROVE \E i \in DOMAIN mutex' : mutex'[i] = m
    <3>1. m # n /\ task[m].at = "ingress"
      BY <2>2, IdleSound, OthersStay DEF Idle
    <3>2. PICK i \in DOMAIN mutex : mutex[i] = m
      BY <3>1 DEF Queue
    <3>3. i \in 2..Len(mutex)
      BY <1>2, <3>1, <3>2, QueueFacts
    <3>4. i - 1 \in DOMAIN mutex' /\ (i - 1) + 1 = i
      BY <1>2, <3>3, QueueFacts
    <3> QED BY <1>2, <3>2, <3>4
  <2> QED BY <1>2, <1>3, <1>4, <2>1, <2>2 DEF Queue
<1>6. Latest'
  <2> SUFFICES ASSUME mutex' # <<>>, task'[mutex'[Len(mutex')]].hit
               PROVE  row'.svc = Target(task'[mutex'[Len(mutex')]])
    BY DEF Latest, Target
  <2>1. Len(mutex') \in Nat /\ Len(mutex') # 0
    BY <1>2, EmptySeq, LenProperties
  <2>2. Len(mutex) = Len(mutex') + 1
    BY <1>2, QueueFacts
  <2>3. Len(mutex') \in 1..Len(mutex')
    BY <2>1
  <2>4. mutex'[Len(mutex')] = mutex[Len(mutex)]
    BY <1>2, <2>2, <2>3
  <2>5. task'[mutex'[Len(mutex')]] = task[mutex[Len(mutex)]]
    BY <1>2, <1>4, <2>3, <2>4
  <2>6. row.svc = Target(task[mutex[Len(mutex)]])
    BY <2>5 DEF Latest
  <2> QED BY <2>5, <2>6
<1> QED BY <1>1, <1>5, <1>6

(* A request begins. *)
LEMMA Begins ==
    ASSUME Tasks, Queue, Latest, NEW h, SoundTask([h EXCEPT !.reply = "sent"]),
           [h EXCEPT !.reply = "sent"].at # "ingress", Starts(h), UNCHANGED mutex, row'.svc = row.svc
    PROVE  Tasks' /\ Queue' /\ Latest'
<1>1. /\ requests + 1 \in Task /\ requests' = requests + 1 /\ requests' \in 0..MaxRequests
      /\ requests \in Nat /\ requests + 1 > requests
  BY BoundsAssumption DEF Starts, Tasks, Task
<1>2. task[requests + 1].at # "ingress"
  BY <1>1 DEF Tasks
<1>3. /\ requests + 1 <= requests' /\ requests <= requests'
      /\ task' = [task EXCEPT ![requests + 1] = [h EXCEPT !.reply = "sent"]]
  BY <1>1 DEF Starts
<1> QED BY <1>1, <1>2, <1>3, GoesOn

------------------------------------------------------------------------------
(* Each action. *)

LEMMA InProgress ==
    ASSUME Tasks, NEW n \in Task, task[n].at # "idle"
    PROVE  n <= requests /\ requests \in 0..MaxRequests /\ SoundTask(task[n]) /\ task[n] \in Handler
BY DEF Tasks, Task, SoundTask

(* A request gets an answer, goes to its next call, or ends. *)
LEMMA Answers ==
    ASSUME Tasks, Queue, Latest, NEW n \in Task, task[n].at \notin {"idle", "ingress"},
           UNCHANGED <<mutex, requests>>, row'.svc = row.svc,
           \/ \E reply \in Replies : Answer(n, reply)
           \/ \E reply \in Replies, ch \in Ids : task' = [task EXCEPT ![n].reply = reply, ![n].ch = ch]
           \/ \E place \in Places : /\ Goes(n, place)
                                   /\ place \in {"record", "list"} /\ task[n].op = "register"
           \/ Ends(n)
    PROVE  Tasks' /\ Queue' /\ Latest'
<1>1. /\ n <= requests' /\ requests' \in 0..MaxRequests /\ requests <= requests'
      /\ SoundTask(task[n]) /\ task[n] \in Handler
  BY InProgress, BoundsAssumption
<1>2. ASSUME NEW reply \in Replies, Answer(n, reply) PROVE Tasks' /\ Queue' /\ Latest'
  <2> DEFINE h == [task[n] EXCEPT !.reply = reply]
  <2>1. SoundTask(h) /\ h.at # "ingress"
    BY <1>1 DEF SoundTask, Handler
  <2>2. task' = [task EXCEPT ![n] = h]
    BY <1>2 DEF Answer
  <2> HIDE DEF h
  <2> QED BY <1>1, <2>1, <2>2, GoesOn
<1>3. ASSUME NEW reply \in Replies, NEW ch \in Ids,
             task' = [task EXCEPT ![n].reply = reply, ![n].ch = ch]
      PROVE  Tasks' /\ Queue' /\ Latest'
  <2> DEFINE h == [task[n] EXCEPT !.reply = reply, !.ch = ch]
  <2>1. SoundTask(h) /\ h.at # "ingress"
    BY <1>1 DEF SoundTask, Handler
  <2>2. task' = [task EXCEPT ![n] = h]
    BY <1>3
  <2> HIDE DEF h
  <2> QED BY <1>1, <2>1, <2>2, GoesOn
<1>4. ASSUME NEW place \in {"record", "list"}, task[n].op = "register", Goes(n, place)
      PROVE  Tasks' /\ Queue' /\ Latest'
  <2> DEFINE h == [task[n] EXCEPT !.at = place, !.reply = "sent"]
  <2>1. SoundTask(h) /\ h.at # "ingress"
    BY <1>1, <1>4 DEF SoundTask, Handler, Places, Replies
  <2>2. task' = [task EXCEPT ![n] = h]
    BY <1>4 DEF Goes
  <2> HIDE DEF h
  <2> QED BY <1>1, <2>1, <2>2, GoesOn
<1>5. CASE Ends(n)
  <2>1. SoundTask(Idle) /\ Idle.at # "ingress"
    BY IdleSound DEF Idle
  <2> QED BY <1>1, <1>5, <2>1, GoesOn DEF Ends
<1> QED BY <1>2, <1>3, <1>4, <1>5

LEMMA IdsAre == 0 \in Ids /\ Task \subseteq Ids
BY BoundsAssumption DEF Task, Ids

Sound == Plain' /\ Tasks' /\ Queue' /\ Latest'

LEMMA BeginsSound ==
    ASSUME IInv,
           \/ \E s \in Service : Register(s) \/ DeleteService(s)
           \/ Verify \/ Delete
    PROVE  Sound
<1> USE DEF IInv
<1>0. requests < MaxRequests => requests + 1 \in Ids
  BY BoundsAssumption DEF Tasks, Ids
<1>1. ASSUME NEW s \in Service, Register(s) PROVE Sound
  <2> DEFINE h == [Idle EXCEPT !.op = "register", !.svc = s,
                           !.at = IF own THEN "record" ELSE "origin",
                           !.exists = row # NoRow,
                           !.row = IF row = NoRow THEN requests + 1 ELSE row.id]
  <2>1. requests < MaxRequests /\ row.id \in Ids
    BY <1>1 DEF Register, Starts, Plain
  <2>2. SoundTask([h EXCEPT !.reply = "sent"]) /\ [h EXCEPT !.reply = "sent"].at # "ingress"
    BY <1>0, <2>1, IdsAre DEF SoundTask, Handler, Idle, Places, Replies
  <2>3. Starts(h) /\ UNCHANGED <<mutex, row>>
    BY <1>1 DEF Register, db
  <2> HIDE DEF h
  <2>4. Tasks' /\ Queue' /\ Latest'
    BY <2>2, <2>3, Begins
  <2> QED BY <1>1, <2>4 DEF Sound, Plain, Register, db
<1>2. ASSUME NEW s \in Service, DeleteService(s) PROVE Sound
  <2> DEFINE h == [Idle EXCEPT !.op = "deleteService", !.at = "stop", !.svc = s]
  <2>1. SoundTask([h EXCEPT !.reply = "sent"]) /\ [h EXCEPT !.reply = "sent"].at # "ingress"
    BY IdsAre DEF SoundTask, Handler, Idle, Places, Replies
  <2>2. Starts(h) /\ UNCHANGED <<mutex, row>>
    BY <1>2 DEF DeleteService, db
  <2> HIDE DEF h
  <2>3. Tasks' /\ Queue' /\ Latest'
    BY <2>1, <2>2, Begins
  <2> QED BY <1>2, <2>3 DEF Sound, Plain, DeleteService, db
<1>3. CASE Delete
  <2> DEFINE h == [Idle EXCEPT !.op = "delete", !.at = "drop", !.row = row.id, !.ch = row.ch]
  <2>1. SoundTask([h EXCEPT !.reply = "sent"]) /\ [h EXCEPT !.reply = "sent"].at # "ingress"
    BY IdsAre DEF SoundTask, Handler, Idle, Places, Replies, Plain
  <2>2. Starts(h) /\ UNCHANGED <<mutex, row>>
    BY <1>3 DEF Delete, db
  <2> HIDE DEF h
  <2>3. Tasks' /\ Queue' /\ Latest'
    BY <2>1, <2>2, Begins
  <2> QED BY <1>3, <2>3 DEF Sound, Plain, Delete, db
<1>4. CASE Verify /\ ~own
  <2> DEFINE h == [Idle EXCEPT !.op = "verify", !.at = "get", !.row = row.id, !.ch = row.ch]
  <2>1. SoundTask([h EXCEPT !.reply = "sent"]) /\ [h EXCEPT !.reply = "sent"].at # "ingress"
    BY IdsAre DEF SoundTask, Handler, Idle, Places, Replies, Plain
  <2>2. Starts(h) /\ UNCHANGED <<mutex, row>>
    BY <1>4 DEF Verify
  <2> HIDE DEF h
  <2>3. Tasks' /\ Queue' /\ Latest'
    BY <2>1, <2>2, Begins
  <2> QED BY <1>4, <2>3 DEF Sound, Plain, Verify
<1>5. CASE Verify /\ own
  <2>1. /\ requests' = requests + 1 /\ requests < MaxRequests /\ UNCHANGED <<task, mutex>>
        /\ row' = [row EXCEPT !.status = "active"]
    BY <1>5 DEF Verify
  <2>2. /\ row' \in [id : Ids, svc : Service \cup {NoService}, ch : Ids, status : Status]
        /\ row'.svc = row.svc
    BY <2>1 DEF Plain, Status
  <2>3. Tasks'
    <3>1. requests' \in 0..MaxRequests /\ \A n \in Task : n > requests' => n > requests
      BY <2>1, BoundsAssumption DEF Tasks, Task
    <3> QED BY <2>1, <3>1 DEF Tasks
  <2>4. Queue' /\ Latest'
    BY <2>1, <2>2 DEF Queue, Latest
  <2> QED BY <1>5, <2>2, <2>3, <2>4 DEF Sound, Plain, Verify
<1> QED BY <1>1, <1>2, <1>3, <1>4, <1>5

(* Steps that leave the row, and the queue. *)
LEMMA CallsSound ==
    ASSUME IInv, NEW n \in Task,
           Origin(n) \/ Create(n) \/ Created(n) \/ List(n) \/ Listed(n) \/ Get(n) \/ Drop(n)
    PROVE  Sound
<1> USE DEF IInv
<1>1. task[n].at \in {"origin", "record", "list", "get", "drop"} /\ UNCHANGED <<own, services, row, rule, mutex, requests>>
  BY DEF Origin, Create, Created, List, Listed, Get, Drop, Sent, Answered, db
<1>2. SoundTask(task[n]) /\ n \in Ids
  BY <1>1, InProgress, IdsAre
<1>3. faults' \in 0..MaxFaults
  <2>1. NoFault \/ Fault \/ UNCHANGED faults => faults' \in 0..MaxFaults
    BY BoundsAssumption DEF NoFault, Fault, Plain
  <2> QED BY <2>1 DEF Origin, Create, Created, List, Listed, Get, Drop
<1>4. record' \in [id : Ids, state : Validation]
  <2>1. /\ [id |-> n, state |-> IF own THEN "active" ELSE "pending"] \in [id : Ids, state : Validation]
        /\ NoRecord \in [id : Ids, state : Validation]
    BY <1>2, IdsAre DEF Validation, NoRecord
  <2> QED BY <2>1 DEF Origin, Create, Created, List, Listed, Get, Drop, Plain
<1>8. astray' \subseteq Ids
  BY DEF Origin, Create, Created, List, Listed, Get, Drop, Plain
<1>5. /\ {"ok", "duplicate", "failed", "sent"} \subseteq Replies /\ Validation \subseteq Replies
      /\ {"record", "list"} \subseteq Places
  BY DEF Replies, Places
<1>6. \/ \E reply \in Replies : Answer(n, reply)
      \/ \E reply \in Replies, ch \in Ids : task' = [task EXCEPT ![n].reply = reply, ![n].ch = ch]
      \/ \E place \in Places : /\ Goes(n, place)
                              /\ place \in {"record", "list"} /\ task[n].op = "register"
      \/ Ends(n)
  <2>1. CASE Origin(n)
    BY <1>2, <1>5, <2>1 DEF Origin, Sent, SoundTask
  <2>2. CASE Create(n)
    BY <1>2, <1>5, <2>2, IdsAre DEF Create
  <2>3. CASE Created(n)
    BY <1>2, <1>5, <2>3 DEF Created, Answered, SoundTask
  <2>4. CASE List(n)
    BY <1>5, <2>4 DEF List, Plain
  <2>5. CASE Listed(n)
    BY <2>5 DEF Listed
  <2>6. CASE Get(n)
    BY <1>5, <2>6 DEF Get, Plain
  <2>7. CASE Drop(n)
    BY <1>5, <2>7 DEF Drop
  <2> QED BY <2>1, <2>2, <2>3, <2>4, <2>5, <2>6, <2>7
<1>7. Tasks' /\ Queue' /\ Latest'
  BY <1>1, <1>6, Answers
<1> QED BY <1>1, <1>3, <1>4, <1>7, <1>8 DEF Sound, Plain

LEMMA VerdictIs == \A state \in Replies, pointing \in BOOLEAN :
                      /\ Verdict(state, pointing) \in Status \ {"none"}
                      /\ Verdict(state, pointing) = "active" => state = "active"
BY DEF Verdict, Status

LEMMA NoRowIs == NoRow \in [id : Ids, svc : Service \cup {NoService}, ch : Ids, status : Status]
BY IdsAre DEF NoRow, Status

(* Steps that write a row, and those that take a turn. *)
LEMMA TurnsSound ==
    ASSUME Tasks, Queue, NEW n \in Task, task[n].at \notin {"idle", "ingress"}, NEW hit \in BOOLEAN,
           ToIngress(n, hit), hit => row'.svc = Target(task[n]), UNCHANGED requests
    PROVE  Tasks' /\ Queue' /\ Latest'
<1> DEFINE h == [task[n] EXCEPT !.at = "ingress", !.reply = "sent", !.hit = hit]
<1>1. task[n] \in Handler
  BY InProgress
<1>2. h \in Handler /\ h.at = "ingress" /\ h.hit = hit /\ h.op = task[n].op /\ h.svc = task[n].svc
  BY <1>1 DEF Handler, Places, Replies
<1>3. task' = [task EXCEPT ![n] = h] /\ mutex' = Append(mutex, n)
  BY DEF ToIngress, Turns
<1> HIDE DEF h
<1>4. SoundTask(h) /\ Target(h) = Target(task[n])
  BY <1>2 DEF SoundTask, Target
<1> QED BY <1>2, <1>3, <1>4, TakesTurn

LEMMA WritesSound ==
    ASSUME IInv, NEW n \in Task, Writes(n)
    PROVE  Sound
<1> USE DEF IInv
<1>1. /\ task[n].at \in {"record", "list"} /\ UNCHANGED <<own, services, record, rule, requests, faults, astray>>
  BY DEF Writes, Answered
<1>2. SoundTask(task[n]) /\ task[n].op = "register" /\ task[n] \in Handler
  BY <1>1, InProgress DEF SoundTask
<1>3. CASE row' = Written(n) /\ ToIngress(n, TRUE)
  <2>1. /\ row' \in [id : Ids, svc : Service \cup {NoService}, ch : Ids, status : Status]
        /\ row'.svc = Target(task[n])
    BY <1>2, <1>3 DEF Written, Target, Handler, Status
  <2>2. Tasks' /\ Queue' /\ Latest'
    BY <1>1, <1>3, <2>1, TurnsSound
  <2> QED BY <1>1, <2>1, <2>2 DEF Sound, Plain
<1>4. CASE UNCHANGED row /\ ToIngress(n, FALSE)
  <2>1. Tasks' /\ Queue' /\ Latest'
    BY <1>1, <1>4, TurnsSound
  <2> QED BY <1>1, <1>4, <2>1 DEF Sound, Plain
<1>5. CASE UNCHANGED <<row, mutex>> /\ Ends(n)
  <2>1. Tasks' /\ Queue' /\ Latest'
    BY <1>1, <1>5, Answers
  <2> QED BY <1>1, <1>5, <2>1 DEF Sound, Plain
<1> QED BY <1>3, <1>4, <1>5 DEF Writes

LEMMA GotSound ==
    ASSUME IInv, NEW n \in Task, Got(n)
    PROVE  Sound
<1> USE DEF IInv
<1>1. /\ task[n].at = "get" /\ UNCHANGED <<own, services, record, rule, mutex, requests, faults, astray>>
      /\ Ends(n)
  BY DEF Got, Answered
<1>2. /\ row' \in [id : Ids, svc : Service \cup {NoService}, ch : Ids, status : Status]
      /\ row'.svc = row.svc
  <2>1. task[n].reply \in Replies
    BY <1>1, InProgress DEF Handler
  <2>2. CASE UNCHANGED row
    BY <2>2 DEF Plain
  <2>3. ASSUME NEW pointing \in BOOLEAN,
               row' = [row EXCEPT !.status = Verdict(task[n].reply, pointing)]
        PROVE  /\ row' \in [id : Ids, svc : Service \cup {NoService}, ch : Ids, status : Status]
               /\ row'.svc = row.svc
    <3>1. Verdict(task[n].reply, pointing) \in Status
      BY <2>1, VerdictIs
    <3> QED BY <2>3, <3>1 DEF Plain
  <2> QED BY <2>2, <2>3 DEF Got
<1>3. Tasks' /\ Queue' /\ Latest'
  BY <1>1, <1>2, Answers
<1> QED BY <1>1, <1>2, <1>3 DEF Sound, Plain

LEMMA StoppedSound ==
    ASSUME IInv, NEW n \in Task, Stopped(n)
    PROVE  Sound
<1> USE DEF IInv
<1>1. /\ task[n].at = "stop" /\ UNCHANGED <<own, row, record, rule, mutex, requests, faults, astray>>
  BY DEF Stopped, Sent
<1>2. /\ SoundTask(task[n]) /\ task[n] \in Handler /\ task[n].op = "deleteService"
      /\ n <= requests /\ requests \in 0..MaxRequests /\ requests <= requests'
  BY <1>1, InProgress, BoundsAssumption DEF SoundTask
<1>3. CASE row.svc = task[n].svc
  <2> DEFINE h == [task[n] EXCEPT !.at = "drop", !.row = row.id, !.ch = row.ch]
  <2>1. SoundTask(h) /\ h.at # "ingress"
    BY <1>2 DEF SoundTask, Handler, Places, Plain
  <2>2. task' = [task EXCEPT ![n] = h] /\ UNCHANGED services
    BY <1>3 DEF Stopped
  <2> HIDE DEF h
  <2>3. Tasks' /\ Queue' /\ Latest'
    BY <1>1, <1>2, <2>1, <2>2, GoesOn
  <2> QED BY <1>1, <2>2, <2>3 DEF Sound, Plain
<1>4. CASE row.svc # task[n].svc
  <2>1. Ends(n) /\ services' = services \ {task[n].svc}
    BY <1>4 DEF Stopped
  <2>2. Tasks' /\ Queue' /\ Latest'
    BY <1>1, <2>1, Answers
  <2> QED BY <1>1, <2>1, <2>2 DEF Sound, Plain
<1> QED BY <1>3, <1>4

LEMMA DroppedSound ==
    ASSUME IInv, NEW n \in Task, Dropped(n)
    PROVE  Sound
<1> USE DEF IInv
<1>1. /\ task[n].at = "drop" /\ UNCHANGED <<own, services, record, rule, requests, faults, astray>>
      /\ row' = IF row.id = task[n].row THEN NoRow ELSE row
      /\ ToIngress(n, row.id = task[n].row)
  BY DEF Dropped, Answered
<1>2. task[n].op \in {"delete", "deleteService"}
  BY <1>1, InProgress DEF SoundTask
<1>3. (row.id = task[n].row) => row'.svc = Target(task[n])
  BY <1>1, <1>2 DEF NoRow, Target
<1>4. Tasks' /\ Queue' /\ Latest'
  BY <1>1, <1>3, TurnsSound
<1> QED BY <1>1, <1>4, NoRowIs DEF Sound, Plain

LEMMA IngressSound ==
    ASSUME IInv, NEW n \in Task, Ingress(n)
    PROVE  Sound
<1> USE DEF IInv
<1>1. /\ mutex # <<>> /\ Head(mutex) = n /\ mutex' = Tail(mutex)
      /\ task' = [task EXCEPT ![n] = Idle] /\ UNCHANGED <<own, row, record, requests, astray>>
  BY DEF Ingress, TurnOver, Ends
<1>2. Tasks' /\ Queue' /\ Latest'
  BY <1>1, EndsTurn
<1>3. rule' \in Service \cup {NoService} /\ faults' \in 0..MaxFaults
  <2>1. task[n].svc \in Service \cup {NoService}
    BY DEF Tasks, Handler
  <2> QED BY <2>1, BoundsAssumption DEF Ingress, NoFault, Fault, Plain
<1>4. services' \subseteq Service
  BY DEF Ingress, Plain
<1> QED BY <1>1, <1>2, <1>3, <1>4 DEF Sound, Plain

LEMMA OutsideSound ==
    ASSUME IInv, Validates \/ Kill \/ UNCHANGED vars
    PROVE  Sound
<1> USE DEF IInv
<1>1. CASE Validates
  <2>1. record' \in [id : Ids, state : Validation]
    <3>1. PICK state \in Validation : record' = [record EXCEPT !.state = state]
      BY <1>1 DEF Validates, Validation
    <3> QED BY <3>1 DEF Plain
  <2> QED BY <1>1, <2>1 DEF Validates, Sound, Plain, Tasks, Queue, Latest, db, Target
<1>2. CASE Kill
  <2>1. /\ task' = [n \in Task |-> Idle] /\ mutex' = <<>> /\ UNCHANGED <<db, record, rule, requests, astray>>
        /\ faults' \in 0..MaxFaults
    BY <1>2, BoundsAssumption DEF Kill, Fault, Plain
  <2>2. Tasks'
    <3>1. SoundTask(Idle) /\ Idle \in Handler /\ Idle.at = "idle"
      BY IdleSound DEF SoundTask, Idle
    <3> QED BY <2>1, <3>1 DEF Tasks
  <2>3. Queue'
    BY <2>1, EmptySeq DEF Queue, Idle
  <2> QED BY <2>1, <2>2, <2>3 DEF Sound, Plain, Latest, db
<1>3. CASE UNCHANGED vars
  BY <1>3 DEF vars, Sound, Plain, Tasks, Queue, Latest
<1> QED BY <1>1, <1>2, <1>3

LEMMA StepSound == IInv /\ [Next]_vars => IInv'
<1> SUFFICES ASSUME IInv, [Next]_vars PROVE Sound
  BY DEF Sound, IInv
<1> QED BY BeginsSound, CallsSound, WritesSound, GotSound, StoppedSound, DroppedSound,
           IngressSound, OutsideSound DEF Next

LEMMA InitSound == Init => IInv
<1> SUFFICES ASSUME Init PROVE IInv
  OBVIOUS
<1>1. Plain
  <2>1. 0 \in 0..MaxFaults
    BY BoundsAssumption
  <2>2. CASE row = NoRow /\ record = NoRecord /\ rule = NoService
    BY <2>1, <2>2, NoRowIs, IdsAre DEF Init, Plain, NoRecord, Validation
  <2>3. CASE /\ MaxRequests > 0
             /\ record = [id |-> 1, state |-> "active"]
             /\ \E s \in Service : /\ rule = s
                                   /\ row = [id |-> 1, svc |-> s, ch |-> IF own THEN 0 ELSE 1,
                                             status |-> "active"]
    <3>1. 1 \in Ids
      BY <2>3, BoundsAssumption DEF Ids
    <3> QED BY <2>1, <2>3, <3>1, IdsAre DEF Init, Plain, Validation, Status
  <2> QED BY <2>2, <2>3 DEF Init
<1>2. Tasks
  <2>1. SoundTask(Idle) /\ Idle \in Handler /\ Idle.at = "idle"
    BY IdleSound DEF SoundTask, Idle
  <2>2. requests \in 0..MaxRequests
    BY BoundsAssumption DEF Init
  <2> QED BY <2>1, <2>2 DEF Init, Tasks
<1>3. Queue /\ Latest
  BY EmptySeq DEF Init, Queue, Latest, Idle
<1> QED BY <1>1, <1>2, <1>3 DEF IInv

LEMMA AlwaysSound == Spec => []IInv
BY InitSound, StepSound, PTL DEF Spec

------------------------------------------------------------------------------
(* The theorems. *)

(* Every variable keeps its type; the mutex of the tunnel is a queue of the *)
(* requests at the tunnel, each of them once.                               *)
THEOREM SaasTypes == Spec => []TypeOK
BY AlwaysSound, IInvTypes, PTL

(* A turn that finds no other behind it. *)
LEMMA LastTurn ==
    ASSUME IInv, NEW n \in Task, mutex # <<>>, Head(mutex) = n, Tail(mutex) = <<>>
    PROVE  mutex = <<n>> /\ mutex[Len(mutex)] = n
<1>0. Len(mutex) \in Nat
  BY LenProperties DEF IInv, Queue
<1>1. mutex \in Seq(Task) /\ mutex \in [1..Len(mutex) -> Task]
  BY LenProperties DEF IInv, Queue
<1>2. Len(mutex) = 1 /\ mutex[1] = n
  <2>1. Len(Tail(mutex)) = Len(mutex) - 1
    BY <1>1, HeadTailProperties
  <2>2. Len(Tail(mutex)) = 0
    BY EmptySeq
  <2>3. Head(mutex) = mutex[1]
    BY <1>1
  <2>4. Len(mutex) - 1 = 0
    BY <2>1, <2>2, Zenon
  <2> QED BY <1>0, <2>3, <2>4
<1>3. <<n>> \in Seq(Task) /\ Len(<<n>>) = 1 /\ <<n>>[1] = n
  OBVIOUS
<1>4. mutex = <<n>>
  BY <1>1, <1>2, <1>3, SeqEqual
<1> QED BY <1>2, <1>4

(* The tunnel ends where the row does, unless a call is lost or the row of  *)
(* the last turn had gone.                                                  *)
THEOREM MisroutesAreKnown == Spec => OnlyKnownMisroutes
<1> DEFINE Known == (Misrouted' /\ ~Misrouted) =>
                      \/ Faulty
                      \/ \E n \in Task : mutex = <<n>> /\ ~task[n].hit
<1>1. IInv /\ [Next]_vars => [Known]_vars
  <2> SUFFICES ASSUME IInv, Next, Misrouted', ~Misrouted, ~Faulty
               PROVE  \E n \in Task : mutex = <<n>> /\ ~task[n].hit
    OBVIOUS
  <2>1. mutex' = <<>> /\ rule' # row'.svc
    BY DEF Misrouted
  <2>2. ASSUME UNCHANGED <<mutex, rule>>, row'.svc = row.svc PROVE FALSE
    BY <2>1, <2>2 DEF Misrouted
  <2>3. \A n \in Task : Append(mutex, n) # <<>>
    BY AppendProperties, LenProperties, EmptySeq DEF IInv, Queue
  <2>4. ASSUME NEW s \in Service, Register(s) \/ DeleteService(s) PROVE FALSE
    BY <2>2, <2>4 DEF Register, DeleteService, db
  <2>5. CASE Verify
    <3>1. row'.svc = row.svc
      BY <2>5 DEF Verify, IInv, Plain
    <3> QED BY <2>2, <2>5, <3>1 DEF Verify
  <2>6. CASE Delete \/ Validates
    BY <2>2, <2>6 DEF Delete, Validates, db
  <2>7. CASE Kill
    BY <2>7, BoundsAssumption DEF Kill, Fault, Faulty, IInv, Plain
  <2>8. ASSUME NEW n \in Task, Origin(n) \/ Create(n) \/ Created(n) \/ List(n) \/ Listed(n)
                                 \/ Get(n) \/ Drop(n) \/ Stopped(n)
        PROVE  FALSE
    BY <2>2, <2>8 DEF Origin, Create, Created, List, Listed, Get, Drop, Stopped, db
  <2>9. ASSUME NEW n \in Task, Got(n) PROVE FALSE
    <3>1. row'.svc = row.svc
      BY <2>9 DEF Got, IInv, Plain
    <3> QED BY <2>2, <2>9, <3>1 DEF Got
  <2>10. ASSUME NEW n \in Task, Writes(n) \/ Dropped(n) PROVE FALSE
    BY <2>1, <2>2, <2>3, <2>10 DEF Writes, Dropped, ToIngress, Turns
  <2>11. ASSUME NEW n \in Task, Ingress(n)
         PROVE  mutex = <<n>> /\ ~task[n].hit
    <3>1. mutex # <<>> /\ Head(mutex) = n /\ mutex' = Tail(mutex) /\ row' = row
      BY <2>11 DEF Ingress, TurnOver
    <3>2. mutex = <<n>> /\ mutex[Len(mutex)] = n
      BY <2>1, <3>1, LastTurn
    <3>3. rule' = Target(task[n])
      BY <2>11, BoundsAssumption DEF Ingress, Fault, Faulty, Target, IInv, Plain
    <3> QED BY <2>1, <3>1, <3>2, <3>3 DEF IInv, Latest
  <2> QED BY <2>4, <2>5, <2>6, <2>7, <2>8, <2>9, <2>10, <2>11 DEF Next
<1> QED BY AlwaysSound, <1>1, PTL DEF Spec, OnlyKnownMisroutes

------------------------------------------------------------------------------
(* What the numbers of rows and records stand for. *)

(* The request n has no record, or no row, of its number yet. *)
Unborn(n) == n > requests \/ task[n].at = "origin" \/ Sent(n, "record")
Unwritten(n) == n > requests \/ (task[n].op = "register" /\ ~task[n].exists /\ task[n].at # "ingress")

(* Zero is the number of nothing; the operator's zone has no validation.    *)
Real ==
    /\ row.id = 0 <=> row = NoRow
    /\ record.id = 0 <=> record = NoRecord
    /\ own => record.state \in {"none", "active"}
    /\ ~own /\ row # NoRow => row.ch # 0
    /\ row # NoRow => row.status # "none"
    /\ record # NoRecord => record.state # "none"

(* What a handler has at each of its calls. *)
Shaped(h) ==
    /\ h.at = "get" => h.op = "verify" /\ ~own /\ h.ch # 0
    /\ h.reply = "ok" => h.at \in {"record", "list", "drop"}
    /\ h.at \in {"ingress", "stop", "origin"} => h.reply = "sent"
    /\ h.at \in {"get", "drop", "origin", "record", "list"} => h.row # 0
    /\ h.at \in {"record", "list"} /\ h.reply = "ok" /\ ~own => h.ch # 0
    /\ h.at = "drop" /\ ~own => h.ch # 0 /\ (h.reply = "ok" => record.id # h.ch)
    /\ h.at = "drop" => h.reply \in {"sent", "ok", "failed"}
    /\ h.at = "stop" => h.svc # NoService

Shapes ==
    \A n \in Task :
        /\ Shaped(task[n])
        /\ task[n].at \in {"origin", "record", "list"} /\ ~task[n].exists => task[n].row = n

(* A number is that of one record and of one row, and nobody knows it before. *)
Births ==
    /\ \A n \in Task : Unborn(n) =>
        record.id # n /\ row.ch # n /\ \A m \in Task : task[m].ch # n
    /\ \A n \in Task : Unwritten(n) =>
        row.id # n /\ \A m \in Task \ {n} : task[m].row # n

Names == Real /\ Shapes /\ Births

(* A step of a request uses numbers that are known, and its own.            *)
LEMMA BirthsKept ==
    ASSUME Tasks, Births, NEW n \in Task, \A m \in Task \ {n} : task'[m] = task[m],
           requests' \in Nat, requests <= requests',
           Unborn(n)' => Unborn(n), Unwritten(n)' => Unwritten(n),
           record'.id \in {0, record.id} \cup (IF Unborn(n)' THEN {} ELSE {n}),
           task'[n].ch \in {0, task[n].ch, row.ch, record.id}
                            \cup (IF Unborn(n)' THEN {} ELSE {n}),
           row'.ch \in {0, row.ch, task[n].ch},
           row'.id \in {0, row.id} \cup (IF Unwritten(n)' THEN {} ELSE {task[n].row}),
           task'[n].row \in {0, n, task[n].row, row.id}
    PROVE  Births'
<1>1. Task \subseteq Nat \ {0} /\ requests \in Nat
  BY BoundsAssumption DEF Task, Tasks
<1>2. ASSUME NEW m \in Task
      PROVE  (Unborn(m)' => Unborn(m)) /\ (Unwritten(m)' => Unwritten(m))
  <2>1. m > requests' => m > requests
    BY <1>1
  <2> QED BY <2>1 DEF Unborn, Unwritten, Sent
<1>3. ASSUME NEW m \in Task, Unborn(m)'
      PROVE  record'.id # m /\ row'.ch # m /\ \A k \in Task : task'[k].ch # m
  <2>1. Unborn(m) /\ m # 0
    BY <1>1, <1>2, <1>3
  <2>2. record.id # m /\ row.ch # m /\ \A k \in Task : task[k].ch # m
    BY <2>1 DEF Births
  <2>3. m = n => Unborn(n)'
    BY <1>3
  <2> QED BY <2>1, <2>2, <2>3
<1>4. ASSUME NEW m \in Task, Unwritten(m)'
      PROVE  row'.id # m /\ \A k \in Task \ {m} : task'[k].row # m
  <2>1. Unwritten(m) /\ m # 0
    BY <1>1, <1>2, <1>4
  <2>2. row.id # m /\ \A k \in Task \ {m} : task[k].row # m
    BY <2>1 DEF Births
  <2>3. m = n => Unwritten(n)'
    BY <1>4
  <2> QED BY <2>1, <2>2, <2>3
<1> QED BY <1>3, <1>4 DEF Births

(* A step of a request leaves the others as they are. *)
LEMMA ShapesKept ==
    ASSUME Shapes, Births, NEW n \in Task, \A m \in Task \ {n} : task'[m] = task[m], UNCHANGED own,
           record'.id \in {0, record.id} \cup (IF Unborn(n) THEN {n} ELSE {}),
           Shaped(task[n])',
           task'[n].at \in {"origin", "record", "list"} /\ ~task'[n].exists => task'[n].row = n
    PROVE  Shapes'
<1>1. ASSUME NEW m \in Task, m # n PROVE Shaped(task[m])'
  <2>1. task'[m] = task[m] /\ Shaped(task[m])
    BY <1>1 DEF Shapes
  <2>2. task[m].at = "drop" /\ ~own /\ task[m].reply = "ok" => record'.id # task[m].ch
    BY <2>1 DEF Shaped, Births
  <2> QED BY <2>1, <2>2 DEF Shaped
<1> QED BY <1>1 DEF Shapes

LEMMA CreateNames ==
    ASSUME IInv, Names, NEW n \in Task, Create(n)
    PROVE  Names'
<1>1. n <= requests /\ n # 0 /\ {n, requests} \subseteq Nat /\ task[n] \in Handler
  <2>1. task[n].at # "idle"
    BY DEF Create, Sent
  <2> QED BY <2>1, InProgress, BoundsAssumption DEF IInv, Task
<1>2. /\ task'[n].ch \in {task[n].ch, 0, n}
      /\ task'[n].op = task[n].op /\ task'[n].at = "record" /\ task[n].at = "record"
      /\ task'[n].row = task[n].row /\ task'[n].exists = task[n].exists
      /\ task'[n].reply \in {"ok", "duplicate", "failed"}
      /\ task'[n].reply = "ok" /\ ~own => task'[n].ch = n
      /\ \A m \in Task \ {n} : task'[m] = task[m]
      /\ task[n].reply = "sent" /\ UNCHANGED <<own, requests, row>>
  BY <1>1 DEF Create, Answer, Sent, db, IInv, Tasks, Handler
<1>3. record'.id \in {record.id, n}
  BY DEF Create
<1>4. Unborn(n) /\ ~Unborn(n)' /\ (Unwritten(n)' => Unwritten(n))
  BY <1>1, <1>2 DEF Unborn, Unwritten, Sent
<1>5. Real'
  BY <1>1, <1>2 DEF Create, Names, Real, NoRecord, NoRow
<1>6. Births'
  BY <1>1, <1>2, <1>3, <1>4, BirthsKept DEF IInv, Names
<1>7. Shaped(task[n])' /\ (~task'[n].exists => task'[n].row = n)
  BY <1>1, <1>2 DEF Names, Shapes, Shaped
<1>8. Shapes'
  BY <1>1, <1>2, <1>3, <1>4, <1>7, ShapesKept DEF Names
<1> QED BY <1>5, <1>6, <1>8 DEF Names

LEMMA RegisterNames ==
    ASSUME IInv, Names, NEW s \in Service, Register(s)
    PROVE  Names'
<1>0. PICK n \in Task : n = requests + 1
  BY BoundsAssumption DEF Register, Starts, IInv, Tasks, Task
<1>1. /\ n # 0 /\ requests' = n /\ n \in Nat /\ requests \in Nat /\ requests <= n
      /\ UNCHANGED <<own, row, record>>
  BY <1>0, BoundsAssumption DEF Register, Starts, db, IInv, Tasks, Task
<1>2. /\ task'[n].op = "register" /\ task'[n].at \in {"record", "origin"}
      /\ task'[n].reply = "sent" /\ task'[n].ch = 0 /\ (task'[n].exists <=> row # NoRow)
      /\ task'[n].row = IF row = NoRow THEN n ELSE row.id
      /\ \A m \in Task \ {n} : task'[m] = task[m]
  BY <1>0 DEF Register, Starts, Idle, IInv, Tasks
<1>3. Unborn(n) /\ Unwritten(n)
  BY <1>0, <1>1 DEF Unborn, Unwritten
<1>4. Unborn(n)' /\ (row # NoRow => ~Unwritten(n)')
  BY <1>1, <1>2 DEF Unborn, Unwritten, Sent
<1>5. Births'
  BY <1>1, <1>2, <1>3, <1>4, BirthsKept DEF IInv, Names
<1>6. Shaped(task[n])' /\ (~task'[n].exists => task'[n].row = n)
  BY <1>1, <1>2 DEF Shaped, Names, Real
<1>7. Shapes'
  BY <1>1, <1>2, <1>6, ShapesKept DEF Names
<1> QED BY <1>1, <1>5, <1>7 DEF Names, Real

LEMMA VerifyNames ==
    ASSUME IInv, Names, Verify
    PROVE  Names'
<1>0. PICK n \in Task : n = requests + 1
  BY BoundsAssumption DEF Verify, Starts, IInv, Tasks, Task
<1>1. /\ n # 0 /\ requests' = n /\ n \in Nat /\ requests \in Nat /\ requests <= n
      /\ task[n].at = "idle" /\ UNCHANGED <<own, record>>
  BY <1>0, BoundsAssumption DEF Verify, Starts, IInv, Tasks, Task
<1>2. /\ row'.id = row.id /\ row'.ch = row.ch
      /\ row'.status # "none" /\ (row = NoRow <=> row' = NoRow)
  BY DEF Verify, Names, Real, NoRow, IInv, Plain
<1>3. \A m \in Task \ {n} : task'[m] = task[m]
  BY <1>0 DEF Verify, Starts, IInv, Tasks
<1>4. Unborn(n) /\ Unwritten(n)
  BY <1>0, <1>1 DEF Unborn, Unwritten
<1>5. Real'
  BY <1>1, <1>2 DEF Names, Real, NoRow
<1>6. CASE UNCHANGED task
  <2>1. Births'
    BY <1>1, <1>2, <1>3, <1>4, <1>6, BirthsKept DEF IInv, Names
  <2>2. Shaped(task[n])' /\ task'[n].at \notin {"origin", "record", "list"}
    <3>1. Shaped(task[n])
      BY <1>1 DEF Names, Shapes
    <3> QED BY <1>1, <1>6, <3>1 DEF Shaped
  <2>3. Shapes'
    BY <1>1, <1>3, <2>2, ShapesKept DEF Names
  <2> QED BY <1>5, <2>1, <2>3 DEF Names
<1>7. CASE ~own
  <2>1. /\ row # NoRow /\ task'[n].op = "verify" /\ task'[n].at = "get"
        /\ task'[n].reply = "sent" /\ task'[n].ch = row.ch /\ task'[n].row = row.id
    BY <1>0, <1>7 DEF Verify, Starts, Idle, IInv, Tasks
  <2>2. Births'
    BY <1>1, <1>2, <1>3, <1>4, <2>1, BirthsKept DEF IInv, Names
  <2>3. Shaped(task[n])' /\ task'[n].at \notin {"origin", "record", "list"}
    BY <1>1, <1>7, <2>1 DEF Names, Real, Shaped
  <2>4. Shapes'
    BY <1>1, <1>3, <2>3, ShapesKept DEF Names
  <2> QED BY <1>5, <2>2, <2>4 DEF Names
<1> QED BY <1>6, <1>7 DEF Verify

LEMMA DeleteServiceNames ==
    ASSUME IInv, Names, NEW s \in Service, DeleteService(s)
    PROVE  Names'
<1>0. PICK n \in Task : n = requests + 1
  BY BoundsAssumption DEF DeleteService, Starts, IInv, Tasks, Task
<1>1. /\ n # 0 /\ requests' = n /\ n \in Nat /\ requests \in Nat /\ requests <= n
      /\ UNCHANGED <<own, row, record>> /\ s # NoService
  BY <1>0, BoundsAssumption, ServiceAssumption
     DEF DeleteService, Starts, db, IInv, Tasks, Task
<1>2. /\ task'[n].op = "deleteService" /\ task'[n].at = "stop" /\ task'[n].reply = "sent"
      /\ task'[n].ch = 0 /\ task'[n].row = 0 /\ task'[n].svc = s
      /\ \A m \in Task \ {n} : task'[m] = task[m]
  BY <1>0 DEF DeleteService, Starts, Idle, IInv, Tasks
<1>3. Unborn(n) /\ Unwritten(n)
  BY <1>0, <1>1 DEF Unborn, Unwritten
<1>4. Births'
  BY <1>1, <1>2, <1>3, BirthsKept DEF IInv, Names
<1>5. Shapes'
  BY <1>1, <1>2, ShapesKept DEF Names, Shaped
<1> QED BY <1>1, <1>4, <1>5 DEF Names, Real

LEMMA NamesStay == IInv /\ Names /\ [Next]_vars => Names'
<1> SUFFICES ASSUME IInv, Names, [Next]_vars PROVE Names'
  OBVIOUS
<1>0. /\ task \in [Task -> Handler] /\ requests \in Nat /\ Task \subseteq Nat \ {0}
      /\ \A n \in Task : SoundTask(task[n])
      /\ row \in [id : Ids, svc : Service \cup {NoService}, ch : Ids, status : Status]
      /\ record \in [id : Ids, state : Validation]
  BY BoundsAssumption DEF IInv, Tasks, Plain, Task
<1> USE <1>0 DEF Names, Real, Shapes, Shaped, Births, Unborn, Unwritten, Sent, Answered,
                 Handler, SoundTask, NoRow, NoRecord, Idle
<1>1. ASSUME NEW n \in Task, Origin(n) PROVE Names'
  BY <1>1 DEF Origin, Goes, Ends, db
<1>2. ASSUME NEW n \in Task, Create(n) PROVE Names'
  BY <1>2, CreateNames
<1>3. ASSUME NEW n \in Task, Created(n) \/ Listed(n) PROVE Names'
  BY <1>3 DEF Created, Listed, Goes, Ends, db
<1>4. ASSUME NEW n \in Task, List(n) PROVE Names'
  BY <1>4 DEF List, Answer, db
<1>5. ASSUME NEW n \in Task, Writes(n) PROVE Names'
  BY <1>5 DEF Writes, Written, ToIngress, Ends
<1>6. ASSUME NEW n \in Task, Get(n) PROVE Names'
  BY <1>6 DEF Get, Answer, db, Validation
<1>7. ASSUME NEW n \in Task, Got(n) PROVE Names'
  <2>1. Real'
    BY <1>7, VerdictIs DEF Got, Ends
  <2>2. Shapes'
    BY <1>7, VerdictIs DEF Got, Ends
  <2>3. Births'
    BY <1>7, VerdictIs DEF Got, Ends
  <2> QED BY <2>1, <2>2, <2>3
<1>8. ASSUME NEW n \in Task, Stopped(n) PROVE Names'
  <2>1. Real'
    BY <1>8, ServiceAssumption DEF Stopped, Ends
  <2>2. Shapes'
    BY <1>8, ServiceAssumption DEF Stopped, Ends
  <2>3. Births'
    BY <1>8, ServiceAssumption DEF Stopped, Ends
  <2> QED BY <2>1, <2>2, <2>3
<1>9. ASSUME NEW n \in Task, Drop(n) PROVE Names'
  <2>1. Real'
    BY <1>9 DEF Drop, Answer, db
  <2>2. Shapes'
    BY <1>9 DEF Drop, Answer, db
  <2>3. Births'
    BY <1>9 DEF Drop, Answer, db
  <2> QED BY <2>1, <2>2, <2>3
<1>10. ASSUME NEW n \in Task, Dropped(n) PROVE Names'
  BY <1>10 DEF Dropped, ToIngress
<1>11. ASSUME NEW n \in Task, Ingress(n) PROVE Names'
  BY <1>11 DEF Ingress, Ends
<1>12. ASSUME NEW s \in Service, Register(s) PROVE Names'
  BY <1>12, RegisterNames
<1>13. CASE Verify
  BY <1>13, VerifyNames
<1>14. CASE Delete
  BY <1>14 DEF Delete, Starts, db
<1>15. ASSUME NEW s \in Service, DeleteService(s) PROVE Names'
  BY <1>15, DeleteServiceNames
<1>16. CASE Validates
  BY <1>16 DEF Validates, db
<1>17. CASE Kill
  BY <1>17 DEF Kill, db
<1>18. CASE UNCHANGED vars
  BY <1>18 DEF vars
<1> QED BY <1>1, <1>2, <1>3, <1>4, <1>5, <1>6, <1>7, <1>8, <1>9, <1>10, <1>11, <1>12, <1>13,
           <1>14, <1>15, <1>16, <1>17, <1>18 DEF Next

LEMMA NamesInit == Init => Names
<1> SUFFICES ASSUME Init PROVE Names
  OBVIOUS
<1>1. Task \subseteq Nat \ {0} /\ \A n \in Task : task[n] = Idle
  BY BoundsAssumption DEF Init, Task
<1>2. Real
  BY DEF Init, Real, NoRow, NoRecord
<1>3. Shapes
  <2>1. Shaped(Idle) /\ Idle.at = "idle"
    BY DEF Shaped, Idle
  <2> QED BY <1>1, <2>1 DEF Shapes
<1>4. Births
  BY <1>1 DEF Init, Births, Unborn, Unwritten, Sent, Idle, NoRow, NoRecord
<1> QED BY <1>2, <1>3, <1>4 DEF Names

------------------------------------------------------------------------------
(* What a request knows of the record. *)

(* It was told that the record is there, or that it is active.              *)
Knows(n) ==
    \/ task[n].op = "register" /\ task[n].reply = "ok"
    \/ task[n].at = "get" /\ task[n].reply = "active"

(* As long as its row is there, what a request was told is so and the row   *)
(* has the record it asks for, but for a deletion of the row in progress or *)
(* one of an earlier row that took the record.                              *)
Informed(n) ==
    /\ ~own /\ Knows(n) /\ row.id = task[n].row =>
        \/ record.id = task[n].ch /\ (task[n].at = "get" => record.state = "active")
        \/ task[n].ch \in astray
        \/ Deleting
    /\ task[n].at = "get" /\ row.id = task[n].row /\ record.id = task[n].ch =>
        \/ row.ch = task[n].ch
        \/ row.ch \in astray
        \/ Deleting

Current == \A n \in Task : Informed(n)

(* A step of a request that leaves the numbers of the row and the record.   *)
LEMMA CurrentKept ==
    ASSUME Current, NEW n \in Task, \A m \in Task \ {n} : task'[m] = task[m],
           UNCHANGED own, row'.id = row.id, row'.ch = row.ch,
           record'.id = record.id, record.state = "active" => record'.state = "active",
           astray \subseteq astray',
           \/ task[n].at # "drop"
           \/ task[n].row # row.id
           \/ task'[n].at = "drop" /\ task'[n].row = task[n].row,
           Informed(n)'
    PROVE  Current'
<1>1. Deleting => Deleting'
  BY DEF Deleting
<1>2. ASSUME NEW m \in Task, m # n PROVE Informed(m)'
  <2>1. Informed(m) /\ task'[m] = task[m]
    BY <1>2 DEF Current
  <2> QED BY <1>1, <2>1 DEF Informed, Knows
<1> QED BY <1>2 DEF Current

(* A request that was told nothing. *)
LEMMA CurrentUntold ==
    ASSUME Current, NEW n \in Task, \A m \in Task \ {n} : task'[m] = task[m],
           UNCHANGED own, row'.id = row.id, row'.ch = row.ch,
           record'.id = record.id, record.state = "active" => record'.state = "active",
           astray \subseteq astray',
           \/ task[n].at # "drop"
           \/ task[n].row # row.id
           \/ task'[n].at = "drop" /\ task'[n].row = task[n].row,
           task'[n].op = "register" => task'[n].reply # "ok", task'[n].at # "get"
    PROVE  Current'
BY CurrentKept DEF Informed, Knows

(* A request that begins was told nothing yet. *)
LEMMA CurrentStarts ==
    ASSUME Tasks, Current, NEW h \in Handler, Starts(h), UNCHANGED <<own, row, record, astray>>,
           h.at \in {"record", "origin", "drop", "stop"} \/ (h.at = "get" /\ h.ch = row.ch)
    PROVE  Current'
<1>0. PICK n \in Task : n = requests + 1
  BY BoundsAssumption DEF Starts, Tasks, Task
<1>1. /\ task' = [task EXCEPT ![n] = [h EXCEPT !.reply = "sent"]]
      /\ task[n].at = "idle"
  BY <1>0, BoundsAssumption DEF Starts, Tasks, Task
<1>2. /\ \A m \in Task \ {n} : task'[m] = task[m]
      /\ task'[n].at = h.at /\ task'[n].reply = "sent" /\ task'[n].ch = h.ch
  BY <1>1 DEF Tasks, Handler
<1>3. Informed(n)'
  BY <1>2 DEF Informed, Knows
<1> QED BY <1>1, <1>2, <1>3, CurrentKept

LEMMA CurrentBegins ==
    ASSUME IInv, Names, Current,
           \/ \E s \in Service : Register(s) \/ DeleteService(s)
           \/ Verify \/ Delete
    PROVE  Current'
<1>0. row.id \in Ids /\ row.ch \in Ids /\ Tasks
  BY DEF IInv, Plain
<1>1. CASE Verify /\ own
  <2>1. UNCHANGED <<own, task, record, astray>> /\ row'.id = row.id /\ row'.ch = row.ch
    BY <1>1 DEF Verify, IInv, Plain
  <2> QED BY <2>1 DEF Current, Informed, Knows, Deleting
<1>2. CASE Verify /\ ~own
  <2> DEFINE h == [Idle EXCEPT !.op = "verify", !.at = "get", !.row = row.id, !.ch = row.ch]
  <2>1. h \in Handler /\ h.at = "get" /\ h.ch = row.ch
    BY <1>0, IdsAre DEF Handler, Idle, Places, Replies
  <2>2. Starts(h) /\ UNCHANGED <<own, row, record, astray>>
    BY <1>2 DEF Verify
  <2> HIDE DEF h
  <2> QED BY <1>0, <2>1, <2>2, CurrentStarts
<1>3. CASE Delete
  <2> DEFINE h == [Idle EXCEPT !.op = "delete", !.at = "drop", !.row = row.id, !.ch = row.ch]
  <2>1. h \in Handler /\ h.at = "drop"
    BY <1>0, IdsAre DEF Handler, Idle, Places, Replies
  <2>2. Starts(h) /\ UNCHANGED <<own, row, record, astray>>
    BY <1>3 DEF Delete, db
  <2> HIDE DEF h
  <2> QED BY <1>0, <2>1, <2>2, CurrentStarts
<1>4. ASSUME NEW s \in Service, DeleteService(s) PROVE Current'
  <2> DEFINE h == [Idle EXCEPT !.op = "deleteService", !.at = "stop", !.svc = s]
  <2>1. h \in Handler /\ h.at = "stop"
    BY IdsAre DEF Handler, Idle, Places, Replies
  <2>2. Starts(h) /\ UNCHANGED <<own, row, record, astray>>
    BY <1>4 DEF DeleteService, db
  <2> HIDE DEF h
  <2> QED BY <1>0, <2>1, <2>2, CurrentStarts
<1>5. ASSUME NEW s \in Service, Register(s) PROVE Current'
  <2> DEFINE h == [Idle EXCEPT !.op = "register", !.svc = s,
                           !.at = IF own THEN "record" ELSE "origin",
                           !.exists = row # NoRow,
                           !.row = IF row = NoRow THEN requests + 1 ELSE row.id]
  <2>0. requests < MaxRequests
    BY <1>5 DEF Register, Starts
  <2>1. requests + 1 \in Ids
    BY <1>0, <2>0, BoundsAssumption DEF Tasks, Ids
  <2>2. h \in Handler /\ h.at \in {"record", "origin"}
    BY <1>0, <2>1, IdsAre DEF Handler, Idle, Places, Replies
  <2>3. Starts(h) /\ UNCHANGED <<own, row, record, astray>>
    BY <1>5 DEF Register, db
  <2> HIDE DEF h
  <2> QED BY <1>0, <2>2, <2>3, CurrentStarts
<1> QED BY <1>1, <1>2, <1>3, <1>4, <1>5

LEMMA CurrentCalls ==
    ASSUME IInv, Names, Current, NEW n \in Task,
           Origin(n) \/ Created(n) \/ List(n) \/ Listed(n) \/ Get(n) \/ Stopped(n)
    PROVE  Current'
<1>1. /\ task[n].at \in {"origin", "record", "list", "get", "stop"}
      /\ UNCHANGED <<own, row, record, astray>>
      /\ \A m \in Task \ {n} : task'[m] = task[m]
  BY DEF Origin, Created, List, Listed, Get, Stopped, Sent, Answered, Goes, Answer, Ends, db,
         IInv, Tasks
<1>2. SoundTask(task[n]) /\ task[n] \in Handler
  BY DEF IInv, Tasks, SoundTask
<1>3. CASE Origin(n) \/ Created(n) \/ Listed(n)
  <2>1. task'[n].reply \in {"sent", "none"} /\ task'[n].at # "get"
    BY <1>2, <1>3 DEF Origin, Created, Listed, Goes, Ends, Idle, IInv, Tasks, Handler
  <2> QED BY <1>1, <2>1, CurrentUntold
<1>4. CASE List(n)
  <2>1. /\ task'[n].at = "list"
        /\ \/ task'[n].reply = "failed"
           \/ task'[n].reply = "ok" /\ task'[n].ch = record.id
    <3>0. task[n].at = "list" /\ task \in [Task -> Handler]
      BY <1>4 DEF List, Sent, IInv, Tasks
    <3>1. CASE Answer(n, "failed")
      BY <1>2, <3>0, <3>1 DEF Answer, Handler
    <3>2. CASE task' = [task EXCEPT ![n].reply = "ok", ![n].ch = record.id]
      BY <1>2, <3>0, <3>2 DEF Handler
    <3> QED BY <1>4, <3>1, <3>2 DEF List
  <2>2. Informed(n)'
    BY <1>1, <2>1 DEF Informed, Knows
  <2> QED BY <1>1, <2>2, CurrentKept
<1>5. CASE Get(n)
  <2>1. /\ task[n].at = "get" /\ task'[n].at = "get" /\ task'[n].row = task[n].row
        /\ task'[n].ch = task[n].ch
        /\ \/ task'[n].reply = record.state /\ record.id = task[n].ch
           \/ task'[n].reply = "failed"
    BY <1>2, <1>5 DEF Get, Answer, Sent, IInv, Tasks, Handler
  <2>2. record.state # "ok"
    BY DEF IInv, Plain, Validation
  <2>3. Informed(n)
    BY DEF Current
  <2>4. Deleting => Deleting'
    BY <1>1, <2>1 DEF Deleting
  <2>5. Informed(n)'
    BY <1>1, <2>1, <2>2, <2>3, <2>4 DEF Informed, Knows
  <2> QED BY <1>1, <2>1, <2>5, CurrentKept
<1>6. CASE Stopped(n)
  <2>1. task'[n].reply \in {"sent", "none"} /\ task'[n].at # "get"
    BY <1>2, <1>6 DEF Stopped, Sent, Ends, Idle, IInv, Tasks, Handler
  <2> QED BY <1>1, <2>1, CurrentUntold
<1> QED BY <1>3, <1>4, <1>5, <1>6

LEMMA CurrentCreate ==
    ASSUME IInv, Names, Current, NEW n \in Task, Create(n)
    PROVE  Current'
<1>0. task[n] \in Handler
  BY DEF IInv, Tasks
<1>1. /\ task[n].at = "record" /\ UNCHANGED <<own, row, astray>>
      /\ \A m \in Task \ {n} : task'[m] = task[m]
      /\ task[n].reply = "sent"
  BY DEF Create, Sent, Answer, db, IInv, Tasks
<1>7. /\ task'[n].at = "record"
      /\ task'[n].reply = "ok" /\ ~own => record'.id = n /\ task'[n].ch = n
  BY <1>0, <1>1 DEF Create, Answer, IInv, Tasks, Handler
<1>8. record' = record \/ (record = NoRecord /\ record'.id = n)
  BY DEF Create
<1>2. Informed(n)'
  BY <1>1, <1>7 DEF Informed, Knows
<1>3. CASE record' = record
  BY <1>1, <1>2, <1>3, CurrentKept
<1>4. CASE record = NoRecord /\ record'.id = n
  <2>1. Unborn(n)
    BY <1>1 DEF Unborn, Sent
  <2>2. Deleting => Deleting'
    BY <1>1 DEF Deleting
  <2>3. ASSUME NEW m \in Task, m # n PROVE Informed(m)'
    <3>1. task'[m] = task[m] /\ Informed(m) /\ task[m].ch # n
      BY <1>1, <2>1, <2>3 DEF Current, Names, Births
    <3>2. ~own /\ Knows(m) => task[m].ch # 0 /\ task[m].at \in {"record", "list", "get"}
      <4>1. SoundTask(task[m]) /\ Shaped(task[m])
        BY DEF IInv, Tasks, Names, Shapes
      <4> QED BY <4>1 DEF SoundTask, Shaped, Knows
    <3> QED BY <1>1, <1>4, <2>2, <3>1, <3>2 DEF Informed, Knows, NoRecord
  <2> QED BY <1>2, <2>3 DEF Current
<1> QED BY <1>3, <1>4, <1>8

LEMMA CurrentWrites ==
    ASSUME IInv, Names, Current, NEW n \in Task, Writes(n)
    PROVE  Current'
<1>1. /\ task[n].at \in {"record", "list"} /\ UNCHANGED <<own, record, astray>>
      /\ \A m \in Task \ {n} : task'[m] = task[m]
      /\ task[n].op = "register" /\ task[n].reply = "ok"
  BY DEF Writes, Answered, ToIngress, Ends, IInv, Tasks, SoundTask
<1>2. /\ task'[n].reply \in {"sent", "none"} /\ task'[n].at \in {"ingress", "idle"}
      /\ Knows(n) /\ n \in Nat /\ n # 0
  BY <1>1, BoundsAssumption
     DEF Writes, ToIngress, Ends, Idle, IInv, Tasks, Handler, Knows, Task
<1>3. CASE UNCHANGED row
  BY <1>1, <1>2, <1>3, CurrentUntold
<1>4. CASE task[n].exists /\ row.id = task[n].row /\ row' = Written(n)
  <2>1. row'.id = row.id /\ row'.ch = task[n].ch
    BY <1>4 DEF Written
  <2>2. Deleting => Deleting'
    BY <1>1, <2>1 DEF Deleting
  <2>3. ASSUME NEW m \in Task, m # n PROVE Informed(m)'
    <3>1. Informed(m) /\ Informed(n) /\ task'[m] = task[m]
      BY <1>1, <2>3 DEF Current
    <3>2. task[m].at = "get" => ~own
      BY DEF Names, Shapes, Shaped
    <3> QED BY <1>1, <1>2, <1>4, <2>1, <2>2, <3>1, <3>2 DEF Informed, Knows
  <2>4. Informed(n)'
    BY <1>2 DEF Informed, Knows
  <2> QED BY <2>3, <2>4 DEF Current
<1>5. CASE ~task[n].exists /\ row' = Written(n)
  <2>1. row'.id = n /\ Unwritten(n)
    BY <1>1, <1>5 DEF Written, Unwritten, Names, Shapes
  <2>2. ASSUME NEW m \in Task, m # n PROVE Informed(m)'
    <3>1. task'[m] = task[m] /\ task[m].row # n
      BY <1>1, <2>1, <2>2 DEF Names, Births
    <3> QED BY <2>1, <3>1 DEF Informed, Knows
  <2>3. Informed(n)'
    BY <1>2 DEF Informed, Knows
  <2> QED BY <2>2, <2>3 DEF Current
<1> QED BY <1>3, <1>4, <1>5 DEF Writes

LEMMA CurrentDrops ==
    ASSUME IInv, Names, Current, NEW n \in Task, Drop(n) \/ Dropped(n)
    PROVE  Current'
<1>1. /\ task[n].at = "drop" /\ UNCHANGED own /\ astray \subseteq astray'
      /\ \A m \in Task \ {n} : task'[m] = task[m]
      /\ task[n] \in Handler /\ task[n].op # "register"
  BY DEF Drop, Dropped, Sent, Answered, Answer, ToIngress, db, IInv, Tasks, SoundTask
<1>2. CASE Drop(n)
  <2>1. /\ task'[n].at = "drop" /\ task'[n].row = task[n].row /\ task'[n].op # "register"
        /\ UNCHANGED row
    BY <1>1, <1>2 DEF Drop, Answer, db, IInv, Tasks, Handler
  <2>2. CASE record' = record
    BY <1>1, <2>1, <2>2, CurrentUntold
  <2>3. CASE /\ record' = NoRecord
             /\ own \/ record.id = task[n].ch
             /\ ~own => row.id = task[n].row \/ record.id \in astray'
    <3>1. Deleting => Deleting'
      BY <1>1, <2>1 DEF Deleting
    <3>2. ~own => Deleting' \/ record.id \in astray'
      BY <2>1, <2>3 DEF Deleting
    <3>3. ASSUME NEW m \in Task, m # n PROVE Informed(m)'
      <4>1. /\ task'[m] = task[m] /\ Informed(m)
            /\ task[m].at = "get" => task[m].ch # 0 /\ ~own
        BY <1>1, <3>3 DEF Current, Names, Shapes, Shaped
      <4> QED BY <1>1, <2>1, <2>3, <3>1, <3>2, <4>1 DEF Informed, Knows, NoRecord
    <3>4. Informed(n)'
      BY <2>1 DEF Informed, Knows
    <3> QED BY <3>3, <3>4 DEF Current
  <2> QED BY <1>2, <2>2, <2>3 DEF Drop
<1>3. CASE Dropped(n)
  <2>1. /\ task'[n].at = "ingress" /\ task'[n].reply = "sent" /\ UNCHANGED record
        /\ row' = IF row.id = task[n].row THEN NoRow ELSE row
    BY <1>1, <1>3 DEF Dropped, ToIngress, IInv, Tasks, Handler
  <2>2. CASE row.id # task[n].row
    BY <1>1, <2>1, <2>2, CurrentUntold
  <2>3. CASE row.id = task[n].row
    <3>1. row'.id = 0
      BY <2>1, <2>3 DEF NoRow
    <3>2. ASSUME NEW m \in Task, m # n PROVE Informed(m)'
      <4>1. SoundTask(task[m]) /\ Shaped(task[m]) /\ task'[m] = task[m]
        BY <1>1, <3>2 DEF IInv, Tasks, Names, Shapes
      <4>2. Knows(m) \/ task[m].at = "get" => task[m].row # 0
        BY <4>1 DEF SoundTask, Shaped, Knows
      <4> QED BY <3>1, <4>1, <4>2 DEF Informed, Knows
    <3>3. Informed(n)'
      BY <2>1 DEF Informed, Knows
    <3> QED BY <3>2, <3>3 DEF Current
  <2> QED BY <2>2, <2>3
<1> QED BY <1>2, <1>3

LEMMA CurrentRest ==
    ASSUME IInv, Names, Current,
           \/ \E n \in Task : Got(n) \/ Ingress(n)
           \/ Validates \/ Kill \/ UNCHANGED vars
    PROVE  Current'
<1>1. ASSUME NEW n \in Task, Got(n) \/ Ingress(n) PROVE Current'
  <2>1. /\ task[n].at \in {"get", "ingress"} /\ task' = [task EXCEPT ![n] = Idle]
        /\ UNCHANGED <<own, record, astray>> /\ row'.id = row.id /\ row'.ch = row.ch
    <3>1. CASE Got(n)
      BY <3>1 DEF Got, Answered, Ends, IInv, Plain
    <3>2. CASE Ingress(n)
      <4>1. task[n].at = "ingress"
        BY <3>2, QueueFacts, EmptySeq DEF Ingress, IInv, Queue
      <4> QED BY <3>2, <4>1 DEF Ingress, Ends
    <3> QED BY <1>1, <3>1, <3>2
  <2>2. /\ task'[n].op # "register" /\ task'[n].at # "get"
        /\ \A m \in Task \ {n} : task'[m] = task[m]
    BY <2>1 DEF Idle, IInv, Tasks
  <2> QED BY <2>1, <2>2, CurrentUntold
<1>2. CASE Validates
  <2>1. /\ UNCHANGED <<own, row, task, astray>> /\ record'.id = record.id
        /\ record.state = "active" => record'.state = "active"
    BY <1>2 DEF Validates, db, IInv, Plain
  <2> QED BY <2>1 DEF Current, Informed, Knows, Deleting
<1>3. CASE Kill
  BY <1>3 DEF Kill, Current, Informed, Knows, Idle
<1>4. CASE UNCHANGED vars
  BY <1>4 DEF vars, Current, Informed, Knows, Deleting
<1> QED BY <1>1, <1>2, <1>3, <1>4

Known == IInv /\ Names /\ Current

LEMMA AlwaysKnown == Spec => []Known
<1>1. Init => Known
  <2>1. Init => Current
    BY DEF Init, Current, Informed, Knows, Idle
  <2> QED BY <2>1, InitSound, NamesInit DEF Known
<1>2. Known /\ [Next]_vars => Known'
  <2> SUFFICES ASSUME Known, [Next]_vars PROVE Known'
    OBVIOUS
  <2>1. Current'
    BY CurrentBegins, CurrentCalls, CurrentCreate, CurrentWrites, CurrentDrops, CurrentRest
       DEF Known, Next
  <2> QED BY <2>1, StepSound, NamesStay DEF Known
<1> QED BY <1>1, <1>2, PTL DEF Spec

------------------------------------------------------------------------------
(* Who leaves a record behind, and who marks a hostname that is not active. *)

(* The request n is about to write the record down, or to drop it.          *)
Covers(n) ==
    \/ task[n].op = "register" /\ task[n].reply = "ok" /\ (own \/ task[n].ch = record.id)
    \/ Sent(n, "drop") /\ (own \/ task[n].ch = record.id)

LEMMA OrphanedIs ==
    Orphaned <=> /\ record # NoRecord
                 /\ IF own THEN row = NoRow ELSE row.ch # record.id
                 /\ \A n \in Task : ~Covers(n)
BY DEF Orphaned, Covers

(* A request that begins, and a call that is not about the record.          *)
LEMMA BeginsAre ==
    ASSUME IInv,
           \/ \E s \in Service : Register(s) \/ DeleteService(s)
           \/ Verify /\ ~own
           \/ Delete
    PROVE  \E n \in Task : /\ task[n].at = "idle" /\ \A m \in Task \ {n} : task'[m] = task[m]
                           /\ UNCHANGED <<own, row, record>>
<1>1. PICK h : Starts(h) /\ UNCHANGED <<own, row, record>>
  BY DEF Register, DeleteService, Verify, Delete, db
<1>2. PICK n \in Task : n = requests + 1
  BY <1>1, BoundsAssumption DEF Starts, IInv, Tasks, Task
<1>3. task[n].at = "idle" /\ \A m \in Task \ {n} : task'[m] = task[m]
  BY <1>1, <1>2, BoundsAssumption DEF Starts, IInv, Tasks, Task
<1> QED BY <1>1, <1>3

LEMMA CallsAre ==
    ASSUME IInv, NEW n \in Task,
           \/ Origin(n) \/ Created(n) \/ List(n) \/ Listed(n) \/ Get(n) \/ Stopped(n)
           \/ Ingress(n)
    PROVE  /\ task[n].at \in {"origin", "record", "list", "get", "stop", "ingress"}
           /\ task[n].at \in {"record", "list"} => task[n].reply # "ok"
           /\ \A m \in Task \ {n} : task'[m] = task[m]
           /\ UNCHANGED <<own, row, record>>
<1>1. CASE Ingress(n)
  <2>1. task[n].at = "ingress"
    BY <1>1, QueueFacts, EmptySeq DEF Ingress, IInv, Queue
  <2> QED BY <1>1, <2>1 DEF Ingress, Ends, IInv, Tasks
<1>2. CASE Origin(n) \/ Created(n) \/ List(n) \/ Listed(n) \/ Get(n) \/ Stopped(n)
  BY <1>2 DEF Origin, Created, List, Listed, Get, Stopped, Sent, Answered, Goes, Answer, Ends,
              db, IInv, Tasks
<1> QED BY <1>1, <1>2

(* A request that does not cover the record takes its step. *)
LEMMA OrphanedKept ==
    ASSUME Names, Names', NEW n \in Task, \A m \in Task \ {n} : task'[m] = task[m],
           UNCHANGED own, row'.id = row.id, row'.ch = row.ch, record'.id = record.id,
           ~Covers(n) \/ Covers(n)', Orphaned'
    PROVE  Orphaned
<1>1. (record = NoRecord <=> record' = NoRecord) /\ (row = NoRow <=> row' = NoRow)
  BY DEF Names, Real
<1>2. \A m \in Task : Covers(m) => Covers(m)'
  BY DEF Covers, Sent
<1> QED BY <1>1, <1>2, OrphanedIs DEF Orphaned, Covers

LEMMA CreateCovers ==
    ASSUME Known, Names', NEW n \in Task, Create(n), ~Faulty, Orphaned'
    PROVE  Orphaned
<1>0. task[n] \in Handler /\ faults \in Nat
  BY BoundsAssumption DEF Known, IInv, Tasks, Plain
<1>1. /\ task[n].at = "record" /\ task[n].reply = "sent" /\ task[n].op = "register"
      /\ \A m \in Task \ {n} : task'[m] = task[m]
      /\ UNCHANGED <<own, row>> /\ NoFault
  BY <1>0 DEF Create, Sent, Answer, Fault, Faulty, db, Known, IInv, Tasks, SoundTask
<1>2. /\ record' = record \/ record'.id = n
      /\ task'[n].op = "register"
      /\ task'[n].reply = "duplicate" \/ task'[n].reply = "ok"
      /\ task'[n].reply = "ok" /\ ~own => record = NoRecord /\ task'[n].ch = n /\ record'.id = n
      /\ task'[n].reply = "duplicate" => record' = record
  <2>1. CASE record # NoRecord /\ ~own
    BY <1>0, <1>1, <2>1 DEF Create, Fault, NoFault, Known, IInv, Tasks, Handler
  <2>2. CASE record = NoRecord \/ own
    BY <1>0, <1>1, <2>2 DEF Create, Fault, NoFault, Known, IInv, Tasks, Handler
  <2> QED BY <2>1, <2>2
<1>3. task'[n].reply # "ok"
  BY <1>1, <1>2 DEF Orphaned
<1>4. ~Covers(n)
  BY <1>1 DEF Covers, Sent
<1> QED BY <1>1, <1>2, <1>3, <1>4, OrphanedKept DEF Known

LEMMA WritesOrphans ==
    ASSUME Known, Names', NEW n \in Task, Writes(n), Orphaned', ~Orphaned
    PROVE  row' = row \/ task[n].ch \in astray \/ Deleting
<1> SUFFICES ASSUME row' # row, task[n].ch \notin astray, ~Deleting PROVE FALSE
  OBVIOUS
<1>1. /\ task[n].at \in {"record", "list"} /\ UNCHANGED <<own, record>>
      /\ \A m \in Task \ {n} : task'[m] = task[m]
      /\ task[n].op = "register" /\ task[n].reply = "ok"
      /\ row' = Written(n)
  BY DEF Writes, Answered, ToIngress, Ends, Known, IInv, Tasks, SoundTask
<1>2. row'.id # 0 /\ row'.ch = task[n].ch
  BY <1>1 DEF Written, Known, Names, Shapes, Shaped
<1>3. ~own
  BY <1>1, <1>2 DEF Orphaned, Names, Real
<1>4. CASE task[n].exists
  <2>1. row.id = task[n].row
    BY <1>1, <1>4 DEF Writes
  <2>2. record.id = task[n].ch
    BY <1>1, <1>3, <2>1 DEF Known, Current, Informed, Knows
  <2> QED BY <1>1, <1>2, <1>3, <2>2 DEF Orphaned
<1>5. CASE ~task[n].exists
  <2>1. row = NoRow
    BY <1>1, <1>5 DEF Writes
  <2>2. record # NoRecord /\ record.id # 0 /\ row.ch # record.id /\ record.id # task[n].ch
    BY <1>1, <1>2, <1>3, <2>1 DEF Orphaned, Known, Names, Real, NoRow
  <2>3. PICK m \in Task : Covers(m)
    BY <1>3, <2>2, OrphanedIs
  <2>4. m # n
    BY <1>1, <1>3, <2>2, <2>3 DEF Covers, Sent
  <2> QED BY <1>1, <2>3, <2>4 DEF Orphaned, Covers, Sent
<1> QED BY <1>4, <1>5

LEMMA DropsOrphans ==
    ASSUME Known, Names', NEW n \in Task, Drop(n) \/ Dropped(n), Orphaned', ~Orphaned, ~Faulty
    PROVE  Dropped(n) /\ (task[n].reply = "failed" \/ row.ch # task[n].ch \/ own)
<1>0. task[n] \in Handler /\ faults \in Nat
  BY BoundsAssumption DEF Known, IInv, Tasks, Plain
<1>1. /\ task[n].at = "drop" /\ UNCHANGED own /\ task[n].op # "register"
      /\ \A m \in Task \ {n} : task'[m] = task[m]
  BY DEF Drop, Dropped, Sent, Answered, Answer, ToIngress, db, Known, IInv, Tasks, SoundTask
<1>2. ASSUME Drop(n) PROVE FALSE
  <2>1. /\ UNCHANGED row
        /\ record' = record \/ record' = NoRecord
        /\ record' = record => (~own /\ record.id # task[n].ch) \/ record = NoRecord
    BY <1>0, <1>2 DEF Drop, Fault, Faulty, db
  <2>2. record' # NoRecord
    BY DEF Orphaned
  <2>3. ~Covers(n)
    BY <1>1, <2>1, <2>2 DEF Covers
  <2> QED BY <1>1, <2>1, <2>2, <2>3, OrphanedKept DEF Known
<1>3. ASSUME Dropped(n), task[n].reply # "failed", row.ch = task[n].ch, ~own PROVE FALSE
  <2>1. /\ task[n].reply = "ok" /\ record.id # task[n].ch
        /\ UNCHANGED record
    BY <1>1, <1>3 DEF Dropped, Answered, Known, Names, Shapes, Shaped
  <2>2. record # NoRecord
    BY <2>1 DEF Orphaned
  <2>3. PICK m \in Task : Covers(m)
    BY <1>3, <2>1, <2>2, OrphanedIs
  <2>4. m # n
    BY <1>1, <2>1, <2>3 DEF Covers, Sent
  <2> QED BY <1>1, <2>1, <2>3, <2>4 DEF Orphaned, Covers, Sent
<1> QED BY <1>2, <1>3

(* A record is left behind by a lost call or a kill, a removal that failed  *)
(* or was for a row that is registered again, and a registration that found *)
(* no row to update or to insert or had a custom hostname that is removed.  *)
THEOREM OrphansAreKnown == Spec => OnlyKnownOrphans
<1> DEFINE Excused ==
        \/ Faulty
        \/ \E n \in Task : /\ Writes(n)
                            /\ (row' = row \/ task[n].ch \in astray \/ Deleting)
        \/ \E n \in Task : /\ Dropped(n)
                            /\ (task[n].reply = "failed" \/ row.ch # task[n].ch \/ own)
<1>1. Known /\ Known' /\ [Next]_vars => [(Orphaned' /\ ~Orphaned) => Excused]_vars
  <2> SUFFICES ASSUME Known, Known', Next, Orphaned', ~Orphaned, ~Faulty PROVE Excused
    OBVIOUS
  <2>0. Names /\ Names' /\ IInv /\ \A n \in Task : task[n].reply = "ok" => task[n].at # "idle"
    BY DEF Known, Names, Shapes, Shaped
  <2>1. ASSUME NEW n \in Task, task[n].at = "idle", \A m \in Task \ {n} : task'[m] = task[m],
               UNCHANGED <<own, row, record>>
        PROVE  FALSE
    <3>1. ~Covers(n)
      BY <2>0, <2>1 DEF Covers, Sent
    <3> QED BY <2>0, <2>1, <3>1, OrphanedKept
  <2>2. ASSUME \/ \E s \in Service : Register(s) \/ DeleteService(s)
               \/ Verify /\ ~own
               \/ Delete
        PROVE  FALSE
    BY <2>0, <2>1, <2>2, BeginsAre
  <2>3. ASSUME Verify, own PROVE FALSE
    <3>1. /\ UNCHANGED <<own, task, record>> /\ row'.id = row.id
      BY <2>3, <2>0 DEF Verify, IInv, Plain
    <3> QED BY <2>0, <2>3, <3>1 DEF Orphaned, Sent, Names, Real
  <2>4. ASSUME NEW n \in Task,
               \/ Origin(n) \/ Created(n) \/ List(n) \/ Listed(n) \/ Get(n) \/ Stopped(n)
               \/ Ingress(n)
        PROVE  FALSE
    <3>1. ~Covers(n)
      BY <2>0, <2>4, CallsAre DEF Covers, Sent, Names, Shapes, Shaped
    <3> QED BY <2>0, <2>4, <3>1, CallsAre, OrphanedKept
  <2>5. ASSUME NEW n \in Task, Got(n) PROVE FALSE
    <3>1. /\ task[n].at = "get" /\ \A m \in Task \ {n} : task'[m] = task[m]
          /\ UNCHANGED <<own, record>> /\ row'.id = row.id /\ row'.ch = row.ch
      BY <2>0, <2>5 DEF Got, Answered, Ends, IInv, Plain, Tasks
    <3>2. ~Covers(n)
      BY <2>0, <3>1 DEF Covers, Sent, Names, Shapes, Shaped
    <3> QED BY <2>0, <3>1, <3>2, OrphanedKept
  <2>6. CASE Validates
    <3>1. UNCHANGED <<own, row, task>> /\ record'.id = record.id
      BY <2>0, <2>6 DEF Validates, db, IInv, Plain
    <3> QED BY <2>0, <3>1 DEF Orphaned, Sent, Names, Real
  <2>7. CASE Kill
    BY <2>0, <2>7, BoundsAssumption DEF Kill, Fault, Faulty, IInv, Plain
  <2> QED BY <2>0, <2>2, <2>3, <2>4, <2>5, <2>6, <2>7, CreateCovers, WritesOrphans, DropsOrphans
          DEF Next
<1> QED BY AlwaysKnown, <1>1, PTL DEF Spec, OnlyKnownOrphans

(* A request that leaves the row, and the deletion of the row, takes a step.*)
LEMMA FalselyActiveKept ==
    ASSUME NEW n \in Task, \A m \in Task \ {n} : task'[m] = task[m], UNCHANGED <<own, row>>,
           record'.id = record.id, record.state = "active" => record'.state = "active",
           \/ task[n].at # "drop"
           \/ task[n].row # row.id
           \/ task'[n].at = "drop" /\ task'[n].row = task[n].row,
           FalselyActive'
    PROVE  FalselyActive
<1>1. Deleting => Deleting'
  BY DEF Deleting
<1> QED BY <1>1 DEF FalselyActive

(* A hostname is shown as active when it is, but for a deletion killed      *)
(* halfway, deletions of an earlier row, and the records of the operator.   *)
THEOREM FalseActivesAreKnown == Spec => OnlyKnownFalseActives
<1> DEFINE Excused ==
        \/ Kill
        \/ \E n \in Task : Drop(n) /\ task[n].row # row.id
        \/ \E n \in Task : Got(n) /\ {row.ch, task[n].ch} \cap astray # {}
        \/ own /\ row' # row /\ record = NoRecord
<1>1. Known /\ Known' /\ [Next]_vars => [(FalselyActive' /\ ~FalselyActive) => Excused]_vars
  <2> SUFFICES ASSUME Known, Known', Next, FalselyActive', ~FalselyActive, ~Excused PROVE FALSE
    OBVIOUS
  <2> HIDE DEF Excused
  <2>0. /\ Names /\ IInv /\ task \in [Task -> Handler]
        /\ own /\ record # NoRecord => record.state = "active"
    BY DEF Known, Names, Real, IInv, Tasks
  <2>1. ASSUME NEW n \in Task, task[n].at # "drop", \A m \in Task \ {n} : task'[m] = task[m],
               UNCHANGED <<own, row, record>>
        PROVE  FALSE
    BY <2>1, FalselyActiveKept
  <2>2. ASSUME \/ \E s \in Service : Register(s) \/ DeleteService(s)
               \/ Verify /\ ~own
               \/ Delete
        PROVE  FALSE
    BY <2>0, <2>1, <2>2, BeginsAre
  <2>3. ASSUME Verify, own PROVE FALSE
    <3>1. UNCHANGED <<own, task, record>>
      BY <2>3 DEF Verify
    <3>2. row' # row
      BY <3>1 DEF FalselyActive, Deleting
    <3>3. record.state = "active"
      BY <2>0, <2>3, <3>2 DEF Excused
    <3> QED BY <2>3, <3>1, <3>3 DEF FalselyActive
  <2>4. ASSUME NEW n \in Task,
               \/ Origin(n) \/ Created(n) \/ List(n) \/ Listed(n) \/ Get(n) \/ Stopped(n)
               \/ Ingress(n)
        PROVE  FALSE
    BY <2>0, <2>1, <2>4, CallsAre
  <2>5. ASSUME NEW n \in Task, Create(n) PROVE FALSE
    <3>1. /\ task[n].at = "record" /\ UNCHANGED <<own, row>>
          /\ \A m \in Task \ {n} : task'[m] = task[m]
          /\ record' = record \/ record = NoRecord
      BY <2>0, <2>5 DEF Create, Sent, Answer, db
    <3>2. Deleting => Deleting'
      BY <3>1 DEF Deleting
    <3> QED BY <2>1, <3>1, <3>2 DEF FalselyActive, NoRecord
  <2>6. ASSUME NEW n \in Task, Writes(n) PROVE FALSE
    <3>1. /\ task[n].at \in {"record", "list"} /\ UNCHANGED <<own, record>>
          /\ \A m \in Task \ {n} : task'[m] = task[m]
          /\ row' = row \/ row' = Written(n)
      BY <2>0, <2>6 DEF Writes, Answered, ToIngress, Ends
    <3>2. row' # row /\ row' = Written(n)
      BY <2>1, <3>1
    <3>3. own
      BY <3>1, <3>2 DEF FalselyActive, Written
    <3>4. record.state = "active"
      BY <2>0, <3>2, <3>3 DEF Excused
    <3> QED BY <3>1, <3>3, <3>4 DEF FalselyActive
  <2>7. ASSUME NEW n \in Task, Got(n) PROVE FALSE
    <3>1. /\ task[n].at = "get" /\ UNCHANGED <<own, record, astray>>
          /\ \A m \in Task \ {n} : task'[m] = task[m]
          /\ row'.id = row.id /\ row'.ch = row.ch
      BY <2>0, <2>7 DEF Got, Answered, Ends, IInv, Plain
    <3>2. row' # row
      BY <2>1, <3>1
    <3>3. PICK pointing \in BOOLEAN :
             row.id = task[n].row /\ row' = [row EXCEPT !.status = Verdict(task[n].reply, pointing)]
      BY <2>7, <3>2 DEF Got
    <3>4. ~own /\ task[n].reply \in Replies
      BY <2>0, <3>1 DEF Names, Shapes, Shaped, Handler
    <3>5. task[n].reply = "active"
      <4>1. row'.status = Verdict(task[n].reply, pointing)
        BY <2>0, <3>3 DEF IInv, Plain
      <4> QED BY <3>4, <4>1, VerdictIs DEF FalselyActive
    <3>6. ~Deleting
      BY <3>1 DEF Deleting, FalselyActive
    <3>7. row.ch \notin astray /\ task[n].ch \notin astray
      BY <2>7 DEF Excused
    <3>8. record.id = task[n].ch /\ record.state = "active" /\ row.ch = task[n].ch
      BY <3>1, <3>3, <3>4, <3>5, <3>6, <3>7 DEF Known, Current, Informed, Knows
    <3> QED BY <3>1, <3>8 DEF FalselyActive
  <2>8. ASSUME NEW n \in Task, Drop(n) PROVE FALSE
    <3>1. /\ task[n].row = row.id /\ UNCHANGED <<own, row>>
          /\ task'[n].at = "drop" /\ task'[n].row = task[n].row
      BY <2>0, <2>8 DEF Excused, Drop, Sent, Answer, db, Handler
    <3> QED BY <3>1 DEF FalselyActive, Deleting
  <2>9. ASSUME NEW n \in Task, Dropped(n) PROVE FALSE
    <3>1. /\ UNCHANGED <<own, record>> /\ \A m \in Task \ {n} : task'[m] = task[m]
          /\ row' = IF row.id = task[n].row THEN NoRow ELSE row
      BY <2>0, <2>9 DEF Dropped, ToIngress
    <3> QED BY <3>1, FalselyActiveKept DEF FalselyActive, NoRow
  <2>10. CASE Validates
    <3>1. /\ UNCHANGED <<own, row, task>> /\ record'.id = record.id
          /\ record.state = "active" => record'.state = "active"
      BY <2>0, <2>10 DEF Validates, db, IInv, Plain
    <3> QED BY <3>1 DEF FalselyActive, Deleting
  <2> QED BY <2>2, <2>3, <2>4, <2>5, <2>6, <2>7, <2>8, <2>9, <2>10 DEF Next, Excused
<1> QED BY AlwaysKnown, <1>1, PTL DEF Spec, OnlyKnownFalseActives
=============================================================================
