---------------------------- MODULE GitOpsProofs ----------------------------
(***************************************************************************)
(* Theorems about GitOps, for any tasks, commits and bounds: type          *)
(* correctness, that the rows of deployments implement the transition      *)
(* table of DeployStates, that the poller asks for one deploy per push at  *)
(* most, and who leaves a deployment in flight.                            *)
(***************************************************************************)
EXTENDS GitOps, SequenceTheorems, TLAPS

Row == [status : RowStatus, commit : OrNone, trigger : Trigger]

TaskType(rs) == [at : Stage, kind : Trigger, row : 0..Len(rs), source : 0..Len(rs), failed : BOOLEAN]

InLock(h) == h.at \notin {"idle", "created", "list"}

(* The status of its row while a task is at a stage. *)
StatusesAt(at) ==
    {s \in RowStatus :
        /\ at \in {"inserted", "back", "rebuild"} => s = "running"
        /\ at \in {"branch", "fetch", "checkout"} => s = "cloning"
        /\ at = "build" => s = "building"
        /\ at = "started" => s = "starting"
        /\ at = "healthy" => s = "healthy"
        /\ at = "rolled" => s \in {"rolled_back", "failed"}}

(* A task knows the row it works on, and the one it rolls back to.          *)
SoundTask(h, rs) ==
    /\ h \in TaskType(rs)
    /\ h.at \in {"idle", "created", "list", "stop"} => h.row = 0
    /\ h.at \notin {"idle", "created", "list", "stop", "start"} =>
         /\ h.row \in 1..Len(rs)
         /\ rs[h.row].status \in StatusesAt(h.at)
    /\ h.at \in {"stop", "back", "rebuild", "rolled"} => h.source \in 1..Len(rs) /\ h.source # h.row

Plain ==
    /\ remote \in Commit
    /\ delivery \in BOOLEAN
    /\ tree \in OrNone
    /\ lastAttempted \in OrNone
    /\ building \in BOOLEAN
    /\ serving \in OrNone
    /\ activeDeploy \in BOOLEAN
    /\ cpu \in Task \cup {NoTask}
    /\ tried \subseteq Commit
    /\ pushes \in 0..MaxPushes
    /\ requests \in 0..MaxRequests
    /\ crashes \in 0..MaxCrashes

Rows == rows \in Seq(Row) /\ Len(rows) <= MaxRows

(* One task at most works under the lock, so nobody else touches its row.   *)
Tasks ==
    /\ task \in [Task -> TaskType(rows)]
    /\ \A t \in Task : SoundTask(task[t], rows)
    /\ lock \in BOOLEAN
    /\ \A t \in Task : InLock(task[t]) => lock
    /\ \A t, u \in Task : InLock(task[t]) /\ InLock(task[u]) => t = u

(* The poller has asked for a deploy of a head only if it has noted one.    *)
Polls == polls \in Nat /\ polls <= pushes + (IF lastAttempted = remote THEN 1 ELSE 0)

IInv == Plain /\ Rows /\ Tasks /\ Polls

LEMMA IInvTypes == IInv => TypeOK
BY DEF IInv, Plain, Rows, Row, Tasks, TaskType, Polls, TypeOK

LEMMA IInvPolls == IInv => RetriesBounded
<1> SUFFICES ASSUME IInv PROVE RetriesBounded
  OBVIOUS
<1>1. pushes \in Nat /\ polls \in Nat /\ polls <= pushes + (IF lastAttempted = remote THEN 1 ELSE 0)
  BY BoundsAssumption DEF IInv, Plain, Polls
<1> QED BY <1>1 DEF RetriesBounded

------------------------------------------------------------------------------
(* Rows. *)

LEMMA RowIn ==
    ASSUME NEW rs \in Seq(Row), NEW d \in 1..Len(rs)
    PROVE  rs[d] \in Row /\ Len(rs) \in Nat
BY ElementOfSeq, LenProperties

LEMMA RowSet ==
    ASSUME NEW rs \in Seq(Row), NEW d \in 1..Len(rs), NEW r \in Row
    PROVE  /\ [rs EXCEPT ![d] = r] \in Seq(Row)
           /\ Len([rs EXCEPT ![d] = r]) = Len(rs)
           /\ [rs EXCEPT ![d] = r][d] = r
           /\ \A e \in 1..Len(rs) : e # d => [rs EXCEPT ![d] = r][e] = rs[e]
BY ExceptSeq

LEMMA StatusSet ==
    ASSUME NEW rs \in Seq(Row), NEW d \in 1..Len(rs), NEW to \in RowStatus
    PROVE  /\ [rs EXCEPT ![d].status = to] \in Seq(Row)
           /\ Len([rs EXCEPT ![d].status = to]) = Len(rs)
           /\ [rs EXCEPT ![d].status = to][d].status = to
           /\ \A e \in 1..Len(rs) : e # d => [rs EXCEPT ![d].status = to][e] = rs[e]
<1>1. [rs[d] EXCEPT !.status = to] \in Row /\ [rs[d] EXCEPT !.status = to].status = to
  BY RowIn DEF Row
<1>2. [rs EXCEPT ![d].status = to] = [rs EXCEPT ![d] = [rs[d] EXCEPT !.status = to]]
  OBVIOUS
<1> QED BY <1>1, <1>2, RowSet

(* The final update writes the status and the commit. *)
Ended(rs, d, to, c) == [rs EXCEPT ![d].status = to, ![d].commit = c]

LEMMA StatusCommitSet ==
    ASSUME NEW rs \in Seq(Row), NEW d \in 1..Len(rs), NEW to \in RowStatus, NEW c \in OrNone
    PROVE  /\ Ended(rs, d, to, c) \in Seq(Row)
           /\ Len(Ended(rs, d, to, c)) = Len(rs)
           /\ Ended(rs, d, to, c)[d].status = to
           /\ \A e \in 1..Len(rs) : e # d => Ended(rs, d, to, c)[e] = rs[e]
<1>0. /\ [rs[d] EXCEPT !.status = to, !.commit = c] \in Row
      /\ [rs[d] EXCEPT !.status = to, !.commit = c].status = to
  BY RowIn DEF Row
<1>1. PICK r \in Row : r = [rs[d] EXCEPT !.status = to, !.commit = c] /\ r.status = to
  BY <1>0
<1>2. Ended(rs, d, to, c) = [rs EXCEPT ![d] = r]
  BY <1>1, LenProperties DEF Ended
<1>3. /\ [rs EXCEPT ![d] = r] \in Seq(Row)
      /\ Len([rs EXCEPT ![d] = r]) = Len(rs)
      /\ [rs EXCEPT ![d] = r][d] = r
      /\ \A e \in 1..Len(rs) : e # d => [rs EXCEPT ![d] = r][e] = rs[e]
  BY RowSet
<1> QED BY <1>1, <1>2, <1>3

LEMMA RowAdded ==
    ASSUME NEW rs \in Seq(Row), NEW r \in Row
    PROVE  /\ Append(rs, r) \in Seq(Row)
           /\ Len(Append(rs, r)) = Len(rs) + 1
           /\ Append(rs, r)[Len(rs) + 1] = r
           /\ \A e \in 1..Len(rs) : Append(rs, r)[e] = rs[e]
BY LenProperties

------------------------------------------------------------------------------
(* Tasks. *)

LEMMA IdleSound ==
    ASSUME NEW rs \in Seq(Row)
    PROVE  SoundTask(Idle, rs) /\ ~InLock(Idle) /\ Idle \in TaskType(rs) /\ Idle.row = 0
BY LenProperties DEF SoundTask, TaskType, Idle, InLock, Stage, Trigger

LEMMA OutsideSound ==
    ASSUME NEW rs \in Seq(Row), NEW ss \in Seq(Row), Len(rs) <= Len(ss),
           NEW h, SoundTask(h, rs), ~InLock(h)
    PROVE  SoundTask(h, ss) /\ h \in TaskType(ss)
<1>1. Len(rs) \in Nat /\ Len(ss) \in Nat
  BY LenProperties
<1>2. h \in TaskType(ss) /\ h.row = 0
  BY <1>1 DEF SoundTask, TaskType, InLock
<1> QED BY <1>2 DEF SoundTask, InLock

(* A task moves under the lock, into it or out of it, while nobody else is. *)
LEMMA LockedMoves ==
    ASSUME Rows, Tasks, NEW t \in Task, InLock(task[t]) \/ ~lock,
           rows' \in Seq(Row), Len(rows) <= Len(rows'),
           NEW h, SoundTask(h, rows'), task' = [task EXCEPT ![t] = h],
           lock' \in BOOLEAN, InLock(h) => lock'
    PROVE  Tasks'
<1>1. \A u \in Task \ {t} : ~InLock(task[u])
  BY DEF Tasks
<1>2. \A u \in Task \ {t} : SoundTask(task[u], rows') /\ task[u] \in TaskType(rows')
  BY <1>1, OutsideSound DEF Rows, Tasks
<1>3. h \in TaskType(rows')
  BY DEF SoundTask
<1>4. /\ task' \in [Task -> TaskType(rows')]
      /\ task'[t] = h
      /\ \A u \in Task \ {t} : task'[u] = task[u]
  BY <1>2, <1>3 DEF Tasks
<1> QED BY <1>1, <1>2, <1>4 DEF Tasks

(* A task moves outside the lock. *)
LEMMA OutsideMoves ==
    ASSUME Rows, Tasks, NEW t \in Task, ~InLock(task[t]), UNCHANGED <<rows, lock>>,
           NEW h, SoundTask(h, rows), ~InLock(h), task' = [task EXCEPT ![t] = h]
    PROVE  Tasks'
<1>1. /\ task' \in [Task -> TaskType(rows)]
      /\ task'[t] = h
      /\ \A u \in Task \ {t} : task'[u] = task[u]
  BY DEF Tasks, SoundTask
<1> QED BY <1>1 DEF Tasks

LEMMA NobodyMoves ==
    ASSUME Tasks, UNCHANGED <<rows, task, lock>>
    PROVE  Tasks'
BY DEF Tasks

------------------------------------------------------------------------------
(* What a step does to the rows, and to a row that a task works on. *)

Allowed(from, to) ==
    \/ Canonical(to) = Canonical(from)
    \/ Canonical(to) \in Machine!Transitions(Canonical(from))

Follows(rs, ss) ==
    \/ ss = rs
    \/ /\ Len(rs) < MaxRows
       /\ \E r \in Row : r.status = "running" /\ ss = Append(rs, r)
    \/ \E d \in 1..Len(rs) :
         /\ Len(ss) = Len(rs)
         /\ Allowed(rs[d].status, ss[d].status)
         /\ \A e \in 1..Len(rs) : e # d => ss[e] = rs[e]

(* A row that nobody works on any more is over. *)
Kept == \A d \in DOMAIN rows : Handled(d) /\ ~Handled(d)' => ~InFlight(d)'

Good == Rows' /\ Tasks' /\ Follows(rows, rows') /\ Kept

LEMMA CanonicalIs ==
    /\ Canonical("running") = "queued" /\ Canonical("cloning") = "cloning"
    /\ Canonical("building") = "building" /\ Canonical("starting") = "starting"
    /\ Canonical("healthy") = "healthy" /\ Canonical("success") = "healthy"
    /\ Canonical("failed") = "failed" /\ Canonical("rolled_back") = "rolled_back"
BY DEF Canonical

LEMMA TransitionsAre ==
    /\ Machine!Transitions("queued") = {"cloning", "failed", "rolled_back"}
    /\ Machine!Transitions("cloning") = {"building", "failed", "rolled_back"}
    /\ Machine!Transitions("building") = {"starting", "failed", "rolled_back"}
    /\ Machine!Transitions("starting") = {"healthy", "failed", "rolled_back"}
    /\ Machine!Transitions("healthy") = {"rolled_back"}
    /\ Machine!Transitions("failed") = {"rolled_back"}
BY DEF Machine!Transitions

LEMMA AllowedAre ==
    /\ Allowed("running", "cloning") /\ Allowed("cloning", "building")
    /\ Allowed("building", "starting") /\ Allowed("starting", "healthy")
    /\ Allowed("healthy", "success")
    /\ Allowed("running", "failed") /\ Allowed("cloning", "failed") /\ Allowed("building", "failed")
    /\ \A from \in RowStatus : Allowed(from, "rolled_back")
BY CanonicalIs, TransitionsAre DEF Allowed, RowStatus

(* The task in the lock is the only one that works on a row. *)
LEMMA HandledByLocked ==
    ASSUME Rows, Tasks, NEW t \in Task, InLock(task[t]), NEW d \in DOMAIN rows, Handled(d)
    PROVE  task[t].row = d /\ task[t].at # "start"
<1>1. PICK u \in Task : task[u].row = d /\ task[u].at # "start"
  BY DEF Handled
<1>2. d # 0
  BY LenProperties DEF Rows
<1>3. InLock(task[u])
  BY <1>1, <1>2 DEF Tasks, SoundTask, InLock
<1> QED BY <1>1, <1>3 DEF Tasks

LEMMA NobodyHandles ==
    ASSUME Rows, Tasks, ~lock, NEW d \in DOMAIN rows
    PROVE  ~Handled(d)
<1>1. d # 0
  BY LenProperties DEF Rows
<1> QED BY <1>1 DEF Handled, Tasks, SoundTask, InLock

LEMMA StagesAre ==
    {"idle", "created", "list", "stop", "start", "inserted", "branch", "fetch", "checkout",
     "build", "started", "healthy", "back", "rebuild", "rolled"} = Stage
BY DEF Stage

(* A task goes on to another stage of the same row. *)
LEMMA PlaceSound ==
    ASSUME NEW rs \in Seq(Row), NEW ss \in Seq(Row), Len(ss) = Len(rs),
           NEW h, SoundTask(h, rs), h.at \notin {"idle", "created", "list", "stop", "start"},
           NEW place \in Stage, place \notin {"idle", "created", "list", "stop", "start"},
           place \in {"back", "rebuild", "rolled"} => h.at \in {"back", "rebuild"},
           ss[h.row].status \in StatusesAt(place)
    PROVE  /\ SoundTask([h EXCEPT !.at = place], ss)
           /\ [h EXCEPT !.at = place].row = h.row
           /\ [h EXCEPT !.at = place].at = place
<1>1. h \in TaskType(rs)
  BY DEF SoundTask
<1>2. /\ [h EXCEPT !.at = place] \in TaskType(ss)
      /\ [h EXCEPT !.at = place].row = h.row
      /\ [h EXCEPT !.at = place].source = h.source
      /\ [h EXCEPT !.at = place].at = place
  BY <1>1 DEF TaskType
<1> QED BY <1>2 DEF SoundTask

LEMMA Advances ==
    ASSUME Rows, Tasks, NEW t \in Task, task[t].at \notin {"idle", "created", "list", "stop", "start"},
           NEW to \in RowStatus, SetStatus(task[t].row, to), Allowed(rows[task[t].row].status, to),
           NEW place \in Stage, place \notin {"idle", "created", "list", "stop", "start"},
           place \in {"back", "rebuild", "rolled"} => task[t].at \in {"back", "rebuild"},
           to \in StatusesAt(place), Stays(t, place), UNCHANGED lock
    PROVE  Good
<1> DEFINE d == task[t].row
<1>1. SoundTask(task[t], rows) /\ d \in 1..Len(rows) /\ InLock(task[t])
  BY DEF Tasks, SoundTask, InLock
<1>2. /\ rows' \in Seq(Row) /\ Len(rows') = Len(rows) /\ rows'[d].status = to
      /\ \A e \in 1..Len(rows) : e # d => rows'[e] = rows[e]
  BY <1>1, StatusSet DEF Rows, SetStatus
<1>3. /\ SoundTask([task[t] EXCEPT !.at = place], rows')
      /\ [task[t] EXCEPT !.at = place].row = d
      /\ [task[t] EXCEPT !.at = place].at = place
  BY <1>1, <1>2, PlaceSound DEF Rows
<1>4. task' = [task EXCEPT ![t] = [task[t] EXCEPT !.at = place]]
  BY DEF Stays, Tasks
<1>5. Len(rows) \in Nat
  BY LenProperties DEF Rows
<1>6. Tasks'
  <2>1. lock' \in BOOLEAN /\ lock'
    BY <1>1 DEF Tasks
  <2>2. Len(rows) <= Len(rows') /\ (InLock(task[t]) \/ ~lock)
    BY <1>1, <1>2, <1>5
  <2> HIDE DEF d
  <2> QED BY <1>2, <1>3, <1>4, <2>1, <2>2, LockedMoves
<1>7. Follows(rows, rows')
  BY <1>1, <1>2 DEF Follows
<1>8. Kept
  BY <1>1, <1>3, <1>4, HandledByLocked DEF Kept, Handled, Tasks
<1> QED BY <1>2, <1>6, <1>7, <1>8 DEF Good, Rows

LEMMA GoesOn ==
    ASSUME Rows, Tasks, NEW t \in Task, task[t].at \notin {"idle", "created", "list", "stop", "start"},
           NEW place \in Stage, place \notin {"idle", "created", "list", "stop", "start"},
           place \in {"back", "rebuild", "rolled"} => task[t].at \in {"back", "rebuild"},
           rows[task[t].row].status \in StatusesAt(place), Stays(t, place), UNCHANGED <<rows, lock>>
    PROVE  Good
<1>1. SoundTask(task[t], rows) /\ InLock(task[t])
  BY DEF Tasks, SoundTask, InLock
<1>2. /\ SoundTask([task[t] EXCEPT !.at = place], rows')
      /\ [task[t] EXCEPT !.at = place].row = task[t].row
      /\ [task[t] EXCEPT !.at = place].at = place
  BY <1>1, PlaceSound DEF Rows
<1>3. task' = [task EXCEPT ![t] = [task[t] EXCEPT !.at = place]]
  BY DEF Stays, Tasks
<1>4. Len(rows) \in Nat
  BY LenProperties DEF Rows
<1>5. Tasks'
  <2>1. lock' \in BOOLEAN /\ lock'
    BY <1>1 DEF Tasks
  <2>2. Len(rows) <= Len(rows') /\ (InLock(task[t]) \/ ~lock) /\ rows' \in Seq(Row)
    BY <1>1, <1>4 DEF Rows
  <2> QED BY <1>2, <1>3, <2>1, <2>2, LockedMoves
<1>6. Kept
  BY <1>1, <1>2, <1>3, HandledByLocked DEF Kept, Handled, Tasks
<1> QED BY <1>5, <1>6 DEF Good, Rows, Follows

(* A task leaves its row, which is over, or has left it before. *)
LEMMA LeavesRow ==
    ASSUME Rows, Tasks, NEW t \in Task, InLock(task[t]),
           rows' \in Seq(Row), Len(rows') = Len(rows), Follows(rows, rows'),
           task[t].row \in 1..Len(rows) /\ task[t].at # "start" =>
             rows'[task[t].row].status \notin {"running", "cloning", "building", "starting"},
           NEW h, SoundTask(h, rows'), task' = [task EXCEPT ![t] = h],
           lock' \in BOOLEAN, InLock(h) => lock'
    PROVE  Good
<1>1. Len(rows) \in Nat /\ DOMAIN rows = 1..Len(rows)
  BY LenProperties DEF Rows
<1>2. Len(rows) <= Len(rows') /\ (InLock(task[t]) \/ ~lock)
  BY <1>1
<1>3. Tasks'
  BY <1>2, LockedMoves
<1>4. Kept
  <2> SUFFICES ASSUME NEW d \in DOMAIN rows, Handled(d) PROVE ~InFlight(d)'
    BY DEF Kept
  <2>1. task[t].row = d /\ task[t].at # "start"
    BY HandledByLocked
  <2> QED BY <1>1, <2>1 DEF InFlight
<1> QED BY <1>3, <1>4 DEF Good, Rows

LEMMA InsertGood ==
    ASSUME Rows, Tasks, NEW t \in Task, InLock(task[t]) \/ ~lock, task[t].row = 0,
           NEW trigger \in Trigger, NEW commit \in OrNone, NEW source \in 0..Len(rows),
           NEW stage \in {"inserted", "back"}, stage = "back" => source # 0,
           Insert(t, trigger, commit, source, stage), lock' = TRUE
    PROVE  Good
<1> DEFINE r == [status |-> "running", commit |-> commit, trigger |-> trigger]
           h == [at |-> stage, kind |-> trigger, row |-> Len(rows) + 1, source |-> source, failed |-> FALSE]
<1>1. r \in Row /\ r.status = "running"
  BY DEF Row, RowStatus
<1>2. rows' = Append(rows, r) /\ task' = [task EXCEPT ![t] = h] /\ Len(rows) < MaxRows
  BY DEF Insert
<1> HIDE DEF r
<1>3. /\ rows' \in Seq(Row) /\ Len(rows') = Len(rows) + 1 /\ rows'[Len(rows) + 1] = r
  BY <1>1, <1>2, RowAdded DEF Rows
<1>4. Len(rows) \in Nat /\ MaxRows \in Nat /\ DOMAIN rows = 1..Len(rows)
  BY LenProperties, BoundsAssumption DEF Rows
<1>5. SoundTask(h, rows') /\ InLock(h)
  BY <1>1, <1>3, <1>4 DEF SoundTask, TaskType, InLock, Stage, StatusesAt, RowStatus
<1> HIDE DEF h
<1>6. Tasks'
  <2>1. lock' \in BOOLEAN /\ (InLock(h) => lock')
    OBVIOUS
  <2>2. Len(rows) <= Len(rows')
    BY <1>3, <1>4
  <2> QED BY <1>2, <1>3, <1>5, <2>1, <2>2, LockedMoves
<1>7. Follows(rows, rows')
  BY <1>1, <1>2 DEF Follows
<1>8. Kept
  BY <1>4, HandledByLocked, NobodyHandles DEF Kept
<1> QED BY <1>2, <1>3, <1>4, <1>6, <1>7, <1>8 DEF Good, Rows

------------------------------------------------------------------------------
(* Each action, for the rows and the tasks. *)

(* A row under work, and what its task may make of it. *)
LEMMA WorkedOn ==
    ASSUME Rows, Tasks, NEW t \in Task, task[t].at \notin {"idle", "created", "list", "stop", "start"}
    PROVE  /\ InLock(task[t]) /\ SoundTask(task[t], rows)
           /\ task[t].row \in 1..Len(rows)
           /\ rows[task[t].row].status \in StatusesAt(task[t].at)
           /\ rows[task[t].row] \in Row
BY RowIn DEF Rows, Tasks, SoundTask, InLock

LEMMA Unmoved ==
    ASSUME Rows, Tasks, UNCHANGED <<rows, task, lock>>
    PROVE  Good
BY NobodyMoves DEF Good, Rows, Follows, Kept, Handled

LEMMA DeployBeginsGood ==
    ASSUME Rows, Tasks, NEW t \in Task, task[t].at \in {"idle", "created", "list"},
           NEW trigger \in {"manual", "webhook", "gitops-poller"}, DeployBegins(t, trigger)
    PROVE  Good
<1>1. task[t].row = 0 /\ ~lock /\ lock' = TRUE
  BY DEF Tasks, SoundTask, DeployBegins, Refused
<1>2. Insert(t, trigger, NoCommit, 0, "inserted") /\ trigger \in Trigger /\ NoCommit \in OrNone
  BY DEF DeployBegins, Trigger, OrNone
<1>3. 0 \in 0..Len(rows)
  BY LenProperties DEF Rows
<1> QED BY <1>1, <1>2, <1>3, InsertGood

LEMMA OutsideGood ==
    ASSUME Rows, Tasks, NEW t \in Task, ~InLock(task[t]), UNCHANGED <<rows, lock>>,
           NEW h, SoundTask(h, rows), ~InLock(h), task' = [task EXCEPT ![t] = h]
    PROVE  Good
<1>1. Tasks'
  BY OutsideMoves
<1>2. DOMAIN rows = 1..Len(rows) /\ Len(rows) \in Nat
  BY LenProperties DEF Rows
<1>3. Kept
  <2> SUFFICES ASSUME NEW d \in DOMAIN rows, Handled(d) PROVE Handled(d)'
    BY DEF Kept
  <2>1. PICK u \in Task : task[u].row = d /\ task[u].at # "start"
    BY DEF Handled
  <2>2. u # t
    BY <1>2, <2>1 DEF Tasks, SoundTask, InLock
  <2>3. task'[u] = task[u]
    BY <2>2 DEF Tasks
  <2> QED BY <2>1, <2>3 DEF Handled
<1> QED BY <1>1, <1>3 DEF Good, Rows, Follows

LEMMA PollGood == ASSUME Rows, Tasks, NEW t \in Task, Poll(t) PROVE Good
<1>i. SoundTask(Idle, rows) /\ ~InLock(Idle)
  BY IdleSound DEF Rows
<1>1. CASE PollTick(t)
  <2> DEFINE h == [Idle EXCEPT !.at = "list", !.kind = "gitops-poller"]
  <2>1. SoundTask(h, rows) /\ ~InLock(h)
    BY <1>i DEF SoundTask, TaskType, InLock, Idle, Stage, Trigger
  <2>2. task' = [task EXCEPT ![t] = h] /\ ~InLock(task[t]) /\ UNCHANGED <<rows, lock>>
    BY <1>1 DEF PollTick, Resumes, InLock
  <2> HIDE DEF h
  <2> QED BY <2>1, <2>2, OutsideGood
<1>2. CASE PollEnds(t)
  <2>1. task' = [task EXCEPT ![t] = Idle] /\ ~InLock(task[t]) /\ UNCHANGED <<rows, lock>>
    BY <1>2 DEF PollEnds, Resumes, InLock
  <2> QED BY <1>i, <2>1, OutsideGood
<1>2a. CASE PollFails(t)
  <2>1. task' = [task EXCEPT ![t] = Idle] /\ ~InLock(task[t]) /\ UNCHANGED <<rows, lock>>
    BY <1>2a DEF PollFails, Resumes, InLock
  <2> QED BY <1>i, <2>1, OutsideGood
<1>3. CASE PollDeploys(t)
  <2>1. task[t].at \in {"idle", "created", "list"} /\ ~InLock(task[t])
    BY <1>3 DEF PollDeploys, Resumes, InLock
  <2>2. CASE DeployBegins(t, "gitops-poller")
    BY <2>1, <2>2, DeployBeginsGood
  <2>3. CASE task' = [task EXCEPT ![t] = Idle] /\ UNCHANGED <<rows, lock>>
    BY <1>i, <2>1, <2>3, OutsideGood
  <2> QED BY <1>3, <2>2, <2>3 DEF PollDeploys
<1> QED BY <1>1, <1>2, <1>2a, <1>3 DEF Poll, Answered

LEMMA AskedGood ==
    ASSUME Rows, Tasks, NEW t \in Task,
           Webhook(t) \/ FirstDeploy(t) \/ Redeploy(t) \/ Rollback(t) \/ StartService(t)
             \/ StopService(t)
    PROVE  Good
<1>1. CASE Webhook(t)
  BY <1>1, DeployBeginsGood, Unmoved DEF Webhook, Resumes
<1>2. CASE FirstDeploy(t) \/ Redeploy(t)
  BY <1>2, DeployBeginsGood DEF FirstDeploy, Redeploy, Asked, Resumes, Continues
<1>e. ASSUME ~lock, lock' = TRUE, UNCHANGED rows, NEW h, SoundTask(h, rows),
             task' = [task EXCEPT ![t] = h]
      PROVE  Good
  <2>1. Len(rows) <= Len(rows') /\ rows' \in Seq(Row) /\ SoundTask(h, rows')
    BY <1>e, LenProperties DEF Rows
  <2>2. Tasks'
    BY <1>e, <2>1, LockedMoves
  <2> QED BY <1>e, <2>2, NobodyHandles DEF Good, Rows, Follows, Kept
<1>3. CASE Rollback(t)
  <2>1. PICK d \in DOMAIN rows :
          task' = [task EXCEPT ![t] = [at |-> "stop", kind |-> "rollback", row |-> 0,
                                       source |-> d, failed |-> FALSE]]
    BY <1>3 DEF Rollback
  <2> DEFINE h == [at |-> "stop", kind |-> "rollback", row |-> 0, source |-> d, failed |-> FALSE]
  <2>2. SoundTask(h, rows)
    BY LenProperties DEF Rows, SoundTask, TaskType, Stage, Trigger
  <2>3. task' = [task EXCEPT ![t] = h] /\ ~lock /\ lock' = TRUE /\ UNCHANGED rows
    BY <1>3, <2>1 DEF Rollback
  <2> HIDE DEF h
  <2> QED BY <1>e, <2>2, <2>3
<1>4. CASE StartService(t)
  <2> DEFINE h == [Idle EXCEPT !.at = "start"]
  <2>1. SoundTask(h, rows)
    <3>1. SoundTask(Idle, rows)
      BY IdleSound DEF Rows
    <3> QED BY <3>1 DEF SoundTask, TaskType, InLock, Idle, Stage, Trigger
  <2>2. task' = [task EXCEPT ![t] = h] /\ ~lock /\ lock' = TRUE /\ UNCHANGED rows
    BY <1>4 DEF StartService
  <2> HIDE DEF h
  <2> QED BY <1>e, <2>1, <2>2
<1>5. CASE StopService(t)
  BY <1>5, Unmoved DEF StopService
<1> QED BY <1>1, <1>2, <1>3, <1>4, <1>5

LEMMA DeployGood ==
    ASSUME Rows, Tasks, NEW t \in Task,
           MarksCloning(t) \/ Stops(t) \/ Fetches(t) \/ MarksBuilding(t)
             \/ BuildSucceeds(t) \/ MarksHealthy(t)
    PROVE  Good
<1> USE StagesAre, AllowedAre DEF StatusesAt
<1>1. CASE MarksCloning(t)
  <2>1. task[t].at = "inserted" /\ rows[task[t].row].status = "running"
    BY <1>1, WorkedOn DEF MarksCloning, Continues
  <2>2. "cloning" \in RowStatus
    BY DEF RowStatus
  <2> QED BY <1>1, <2>1, <2>2, Advances DEF MarksCloning
<1>2. CASE Stops(t)
  <2>1. task[t].at = "branch" /\ rows[task[t].row].status \in StatusesAt("fetch")
    BY <1>2, WorkedOn DEF Stops, Resumes
  <2> QED BY <1>2, <2>1, GoesOn DEF Stops
<1>3. CASE Fetches(t)
  <2>1. task[t].at = "fetch" /\ rows[task[t].row].status \in StatusesAt("checkout")
    BY <1>3, WorkedOn DEF Fetches, Resumes
  <2> QED BY <1>3, <2>1, GoesOn DEF Fetches
<1>4. CASE MarksBuilding(t)
  <2>1. task[t].at = "checkout" /\ rows[task[t].row].status = "cloning"
    BY <1>4, WorkedOn DEF MarksBuilding, Resumes
  <2>2. "building" \in RowStatus
    BY DEF RowStatus
  <2> QED BY <1>4, <2>1, <2>2, Advances DEF MarksBuilding
<1>5. CASE BuildSucceeds(t)
  <2>1. task[t].at = "build" /\ rows[task[t].row].status = "building"
    BY <1>5, WorkedOn DEF BuildSucceeds, Resumes
  <2>2. "starting" \in RowStatus
    BY DEF RowStatus
  <2> QED BY <1>5, <2>1, <2>2, Advances DEF BuildSucceeds
<1>6. CASE MarksHealthy(t)
  <2>1. task[t].at = "started" /\ rows[task[t].row].status = "starting"
    BY <1>6, WorkedOn DEF MarksHealthy, Continues
  <2>2. "healthy" \in RowStatus
    BY DEF RowStatus
  <2> QED BY <1>6, <2>1, <2>2, Advances DEF MarksHealthy
<1> QED BY <1>1, <1>2, <1>3, <1>4, <1>5, <1>6

(* The end of a deployment, whose task may go on to start the service. *)
LEMMA EndsGood ==
    ASSUME Plain, Rows, Tasks, NEW t \in Task, Finishes(t) \/ Fails(t)
    PROVE  Good
<1> DEFINE d == task[t].row
<1>1. /\ task[t].at \in {"healthy", "branch", "fetch", "checkout", "build"}
      /\ InLock(task[t]) /\ SoundTask(task[t], rows) /\ d \in 1..Len(rows)
      /\ rows[d].status \in StatusesAt(task[t].at)
  <2>1. task[t].at \in {"healthy", "branch", "fetch", "checkout", "build"}
    BY DEF Finishes, Fails, Continues, Resumes
  <2> QED BY <2>1, WorkedOn
<1>2. PICK to \in {"success", "failed"}, c \in OrNone :
        /\ rows' = [rows EXCEPT ![d].status = to, ![d].commit = c]
        /\ Allowed(rows[d].status, to)
  <2>1. CASE Finishes(t)
    BY <1>1, <2>1, AllowedAre DEF Plain, Finishes, Continues, StatusesAt
  <2>2. CASE Fails(t)
    BY <1>1, <2>2, AllowedAre DEF Plain, Fails, FailedStatus, Resumes, StatusesAt, OrNone
  <2> QED BY <2>1, <2>2
<1> HIDE DEF d
<1>3. /\ rows' \in Seq(Row) /\ Len(rows') = Len(rows) /\ rows'[d].status = to
      /\ \A e \in 1..Len(rows) : e # d => rows'[e] = rows[e]
  <2>1. to \in RowStatus
    BY DEF RowStatus
  <2>2. rows \in Seq(Row) /\ d \in 1..Len(rows) /\ c \in OrNone
    BY <1>1 DEF Rows
  <2>3. rows' = Ended(rows, d, to, c)
    BY <1>2 DEF Ended
  <2> QED BY <2>1, <2>2, <2>3, StatusCommitSet
<1>4. Follows(rows, rows')
  BY <1>1, <1>2, <1>3 DEF Follows
<1>5. PICK h : SoundTask(h, rows') /\ task' = [task EXCEPT ![t] = h]
               /\ lock' \in BOOLEAN /\ (InLock(h) => lock')
  <2>1. /\ task[t] \in TaskType(rows') /\ lock /\ lock \in BOOLEAN
        /\ SoundTask(Idle, rows') /\ ~InLock(Idle)
    BY <1>1, <1>3, IdleSound DEF SoundTask, TaskType, Tasks
  <2>2. /\ SoundTask([task[t] EXCEPT !.at = "start"], rows')
        /\ SoundTask([task[t] EXCEPT !.at = "start", !.failed = TRUE], rows')
    BY <2>1 DEF SoundTask, TaskType, Stage
  <2>3. CASE Finishes(t)
    BY <2>1, <2>2, <2>3 DEF Finishes, Stays, Tasks
  <2>4. CASE Fails(t)
    <3>1. CASE serving = NoCommit
      BY <2>1, <2>2, <2>4, <3>1 DEF Fails, Tasks
    <3>2. CASE serving # NoCommit
      BY <2>1, <2>4, <3>2 DEF Fails
    <3> QED BY <3>1, <3>2
  <2> QED BY <2>3, <2>4
<1> QED BY <1>1, <1>3, <1>4, <1>5, LeavesRow DEF d

LEMMA StartGood ==
    ASSUME Rows, Tasks, NEW t \in Task, Starts(t) \/ StartFails(t)
    PROVE  Good
<1>1. /\ InLock(task[t]) /\ task[t].at = "start" /\ UNCHANGED rows
      /\ lock' = FALSE /\ task' = [task EXCEPT ![t] = Idle]
  BY DEF Starts, StartFails, Resumes, InLock
<1>2. rows' \in Seq(Row) /\ Len(rows') = Len(rows) /\ Follows(rows, rows')
      /\ SoundTask(Idle, rows') /\ ~InLock(Idle)
  BY <1>1, IdleSound DEF Rows, Follows
<1> QED BY <1>1, <1>2, LeavesRow

LEMMA RollbackGood ==
    ASSUME Rows, Tasks, NEW t \in Task,
           RollbackBegins(t) \/ RollbackChecksOut(t) \/ RollbackBuilt(t) \/ RollbackMarksSource(t)
    PROVE  Good
<1> USE StagesAre, AllowedAre
<1>1. CASE RollbackBegins(t)
  <2>1. /\ InLock(task[t]) /\ task[t].row = 0 /\ task[t].source \in 1..Len(rows)
        /\ lock
    BY <1>1 DEF RollbackBegins, Resumes, Tasks, SoundTask, InLock
  <2>2. /\ rows[task[t].source].commit \in OrNone /\ task[t].source \in 0..Len(rows)
        /\ task[t].source # 0
    <3>1. rows[task[t].source] \in Row /\ Len(rows) \in Nat
      BY <2>1, RowIn DEF Rows
    <3> QED BY <2>1, <3>1 DEF Row
  <2>3. lock' = TRUE
    BY <1>1, <2>1 DEF RollbackBegins, Tasks
  <2>4. Insert(t, "rollback", rows[task[t].source].commit, task[t].source, "back")
    BY <1>1 DEF RollbackBegins
  <2>5. "rollback" \in Trigger
    BY DEF Trigger
  <2> QED BY <2>1, <2>2, <2>3, <2>4, <2>5, InsertGood
<1>2. CASE RollbackChecksOut(t)
  <2>1. task[t].at = "back" /\ rows[task[t].row].status \in StatusesAt("rebuild")
    BY <1>2, WorkedOn DEF RollbackChecksOut, Resumes, StatusesAt
  <2> QED BY <1>2, <2>1, GoesOn DEF RollbackChecksOut
<1>3. CASE RollbackBuilt(t)
  <2>1. task[t].at = "rebuild" /\ rows[task[t].row].status = "running"
    BY <1>3, WorkedOn DEF RollbackBuilt, Resumes, StatusesAt
  <2>2. PICK to \in {"rolled_back", "failed"} : SetStatus(task[t].row, to)
    BY <1>3 DEF RollbackBuilt, RolledBack
  <2>3. to \in RowStatus /\ to \in StatusesAt("rolled") /\ Allowed("running", to)
    BY DEF RowStatus, StatusesAt
  <2> QED BY <1>3, <2>1, <2>2, <2>3, Advances DEF RollbackBuilt
<1>4. CASE RollbackMarksSource(t)
  <2> DEFINE d == task[t].source
  <2>1. /\ InLock(task[t]) /\ d \in 1..Len(rows) /\ d # task[t].row
        /\ task[t].row \in 1..Len(rows) /\ rows[task[t].row].status \in {"rolled_back", "failed"}
        /\ rows[d].status \in RowStatus
    BY <1>4, WorkedOn, RowIn DEF RollbackMarksSource, Continues, SoundTask, StatusesAt, Rows, Row
  <2>2. /\ rows' \in Seq(Row) /\ Len(rows') = Len(rows) /\ rows'[d].status = "rolled_back"
        /\ \A e \in 1..Len(rows) : e # d => rows'[e] = rows[e]
    <3>1. "rolled_back" \in RowStatus
      BY DEF RowStatus
    <3> QED BY <1>4, <2>1, <3>1, StatusSet DEF Rows, RollbackMarksSource, SetStatus
  <2>3. Follows(rows, rows')
    BY <2>1, <2>2 DEF Follows
  <2>4. /\ rows'[task[t].row].status \notin {"running", "cloning", "building", "starting"}
        /\ SoundTask(Idle, rows') /\ ~InLock(Idle)
    BY <2>1, <2>2, IdleSound
  <2>5. task' = [task EXCEPT ![t] = Idle] /\ lock' = FALSE
    BY <1>4 DEF RollbackMarksSource
  <2> QED BY <2>1, <2>2, <2>3, <2>4, <2>5, LeavesRow
<1> QED BY <1>1, <1>2, <1>3, <1>4

(* A rollback whose checkout throws leaves its row as it is. *)
LEMMA ThrowsGood ==
    ASSUME Rows, Tasks, NEW t \in Task, RollbackThrows(t)
    PROVE  Rows' /\ Tasks' /\ Follows(rows, rows')
<1>1. /\ InLock(task[t]) /\ UNCHANGED rows /\ lock' = FALSE
      /\ task' = [task EXCEPT ![t] = Idle]
  BY DEF RollbackThrows, Resumes, InLock
<1>2. /\ rows' \in Seq(Row) /\ Len(rows) <= Len(rows')
      /\ SoundTask(Idle, rows') /\ ~InLock(Idle)
  BY <1>1, IdleSound, LenProperties DEF Rows
<1> QED BY <1>1, <1>2, LockedMoves DEF Rows, Follows

(* A kill leaves every row as it is, and no task. *)
LEMMA CrashGood ==
    ASSUME Rows, Tasks, Crash
    PROVE  Rows' /\ Tasks' /\ Follows(rows, rows')
<1>1. SoundTask(Idle, rows') /\ ~InLock(Idle) /\ Idle \in TaskType(rows')
  BY IdleSound DEF Rows, Crash
<1> QED BY <1>1 DEF Crash, Rows, Tasks, Follows

LEMMA ProgressGood ==
    ASSUME Plain, Rows, Tasks, NEW t \in Task, Progress(t), ~RollbackThrows(t)
    PROVE  Good
BY DeployGood, EndsGood, StartGood, RollbackGood DEF Progress

(* What every step does to the rows and the tasks. *)
LEMMA StepGood ==
    ASSUME IInv, [Next]_vars
    PROVE  /\ Rows' /\ Tasks' /\ Follows(rows, rows')
           /\ Kept \/ Crash \/ \E t \in Task : RollbackThrows(t)
<1> USE DEF IInv
<1>1. ASSUME NEW c \in Commit, Push(c) PROVE Good
  BY <1>1, Unmoved DEF Push
<1>2. CASE DeliveryLost
  BY <1>2, Unmoved DEF DeliveryLost, Good
<1>3. ASSUME NEW t \in Task, Progress(t), ~RollbackThrows(t) PROVE Good
  BY <1>3, ProgressGood
<1>4. ASSUME NEW t \in Task, Poll(t) PROVE Good
  BY <1>4, PollGood
<1>5. ASSUME NEW t \in Task,
             Webhook(t) \/ FirstDeploy(t) \/ Redeploy(t) \/ Rollback(t) \/ StartService(t)
               \/ StopService(t)
      PROVE  Good
  BY <1>5, AskedGood
<1>6. CASE Crash
  BY <1>6, CrashGood
<1>7. ASSUME NEW t \in Task, RollbackThrows(t)
      PROVE  Rows' /\ Tasks' /\ Follows(rows, rows')
  BY <1>7, ThrowsGood
<1>8. CASE UNCHANGED vars
  BY <1>8, Unmoved DEF vars, Good
<1> QED BY <1>1, <1>2, <1>3, <1>4, <1>5, <1>6, <1>7, <1>8 DEF Next, Good

------------------------------------------------------------------------------
(* The rest of the state. *)

LEMMA RowCommit ==
    ASSUME Rows, NEW d \in 1..Len(rows)
    PROVE  rows[d].commit \in OrNone
BY RowIn DEF Rows, Row

LEMMA ProgressPlain ==
    ASSUME IInv, NEW t \in Task, Progress(t)
    PROVE  Plain' /\ UNCHANGED <<remote, lastAttempted, polls, pushes>>
<1> USE DEF IInv, Plain, OrNone
<1>1. CASE MarksCloning(t) \/ MarksBuilding(t) \/ BuildSucceeds(t) \/ MarksHealthy(t)
  BY <1>1 DEF MarksCloning, MarksBuilding, BuildSucceeds, MarksHealthy, counters
<1>2. CASE Stops(t) \/ Fetches(t)
  BY <1>2 DEF Stops, Fetches, counters
<1>3. CASE Finishes(t) \/ Fails(t)
  BY <1>3 DEF Finishes, Fails, counters
<1>4. CASE Starts(t) \/ StartFails(t)
  BY <1>4 DEF Starts, StartFails, counters
<1>5. CASE RollbackBegins(t) \/ RollbackThrows(t)
  BY <1>5 DEF RollbackBegins, RollbackThrows, counters
<1>6. CASE RollbackChecksOut(t)
  <2>1. rows[task[t].row].commit \in OrNone
    BY <1>6, WorkedOn, RowCommit DEF RollbackChecksOut, Resumes
  <2> QED BY <1>6, <2>1 DEF RollbackChecksOut, counters
<1>7. CASE RollbackBuilt(t) \/ RollbackMarksSource(t)
  BY <1>7 DEF RollbackBuilt, RollbackMarksSource, counters
<1> QED BY <1>1, <1>2, <1>3, <1>4, <1>5, <1>6, <1>7 DEF Progress

LEMMA AskedPlain ==
    ASSUME IInv, NEW t \in Task,
           Webhook(t) \/ FirstDeploy(t) \/ Redeploy(t) \/ Rollback(t) \/ StartService(t)
             \/ StopService(t) \/ PollTick(t) \/ PollEnds(t) \/ PollFails(t)
    PROVE  Plain' /\ UNCHANGED <<remote, lastAttempted, polls, pushes>>
<1> USE DEF IInv, Plain, OrNone
<1>1. Asked(t) => requests' \in 0..MaxRequests /\ UNCHANGED <<pushes, crashes>>
  BY BoundsAssumption DEF Asked
<1>2. CASE Webhook(t) \/ FirstDeploy(t) \/ PollTick(t) \/ PollEnds(t) \/ PollFails(t)
  BY <1>2 DEF Webhook, FirstDeploy, PollTick, PollEnds, PollFails, DeployBegins, counters
<1>3. CASE Redeploy(t)
  BY <1>1, <1>3 DEF Redeploy, DeployBegins
<1>4. CASE Rollback(t)
  BY <1>1, <1>4 DEF Rollback
<1>5. CASE StartService(t) \/ StopService(t)
  BY <1>1, <1>5 DEF StartService, StopService
<1> QED BY <1>2, <1>3, <1>4, <1>5

LEMMA StepPlain == ASSUME IInv, [Next]_vars PROVE Plain' /\ Polls'
<1>0. /\ pushes \in Nat /\ MaxPushes \in Nat /\ crashes \in Nat /\ MaxCrashes \in Nat
      /\ polls \in Nat /\ polls <= pushes + (IF lastAttempted = remote THEN 1 ELSE 0)
  BY BoundsAssumption DEF IInv, Plain, Polls
<1>1. ASSUME Plain', UNCHANGED <<remote, lastAttempted, polls, pushes>>
      PROVE  Plain' /\ Polls'
  BY <1>1 DEF IInv, Polls
<1>2. ASSUME NEW c \in Commit, Push(c) PROVE Plain' /\ Polls'
  <2>1. Plain'
    BY <1>0, <1>2 DEF Push, IInv, Plain
  <2>2. pushes' = pushes + 1 /\ polls' = polls
    BY <1>2 DEF Push
  <2> QED BY <1>0, <2>1, <2>2 DEF Polls
<1>3. CASE DeliveryLost
  BY <1>1, <1>3 DEF DeliveryLost, IInv, Plain, counters
<1>4. ASSUME NEW t \in Task, PollDeploys(t) PROVE Plain' /\ Polls'
  <2>1. Plain'
    BY <1>4 DEF PollDeploys, MarkAttempt, DeployBegins, IInv, Plain, OrNone, counters
  <2>2. /\ lastAttempted # remote /\ lastAttempted' = remote' /\ polls' = polls + 1
        /\ pushes' = pushes
    BY <1>4 DEF PollDeploys, MarkAttempt, UpToDate, counters
  <2> QED BY <1>0, <2>1, <2>2 DEF Polls
<1>5. CASE Crash
  <2>1. crashes' \in 0..MaxCrashes
    BY <1>0, <1>5 DEF Crash
  <2>2. Plain'
    BY <1>5, <2>1 DEF Crash, IInv, Plain
  <2> QED BY <1>1, <1>5, <2>2 DEF Crash
<1>6. CASE UNCHANGED vars
  BY <1>6 DEF vars, counters, IInv, Plain, Polls
<1> QED BY <1>1, <1>2, <1>3, <1>4, <1>5, <1>6, ProgressPlain, AskedPlain DEF Next, Poll, Answered

LEMMA InitSound == Init => IInv
<1> SUFFICES ASSUME Init PROVE IInv
  OBVIOUS
<1>1. <<>> \in Seq(Row) /\ Len(<<>>) = 0
  OBVIOUS
<1>2. Rows
  BY <1>1, BoundsAssumption DEF Init, Rows
<1>3. Tasks
  <2> DEFINE h == [Idle EXCEPT !.at = "created"]
  <2>1. SoundTask(Idle, rows) /\ ~InLock(Idle) /\ Idle \in TaskType(rows)
    BY <1>2, IdleSound DEF Rows
  <2>2. SoundTask(h, rows) /\ ~InLock(h) /\ h \in TaskType(rows)
    BY <2>1 DEF SoundTask, TaskType, InLock, Idle, Stage, Trigger
  <2>3. \A t \in Task : task[t] \in {Idle, h}
    BY DEF Init
  <2>4. lock = FALSE /\ task \in [Task -> TaskType(rows)]
    BY <2>1, <2>2 DEF Init
  <2> HIDE DEF h
  <2> QED BY <2>1, <2>2, <2>3, <2>4 DEF Tasks
<1>4. Plain
  <2>1. \A m \in {MaxPushes, MaxRequests, MaxCrashes} : 0 \in 0..m
    BY BoundsAssumption
  <2> QED BY <2>1 DEF Init, Plain, OrNone
<1>5. Polls
  BY DEF Init, Polls
<1> QED BY <1>2, <1>3, <1>4, <1>5 DEF IInv

LEMMA AlwaysSound == Spec => []IInv
<1>1. IInv /\ [Next]_vars => IInv'
  BY StepGood, StepPlain DEF IInv
<1> QED BY InitSound, <1>1, PTL DEF Spec

------------------------------------------------------------------------------
(* The theorems. *)

(* Every variable keeps its type: every task names rows that exist. *)
THEOREM GitOpsTypes == Spec => []TypeOK
BY AlwaysSound, IInvTypes, PTL

(* The poller asks for a deploy once per push, and once for the head the    *)
(* branch began with, at most: what fails to build is not tried every tick. *)
THEOREM RetriesStayBounded == Spec => []RetriesBounded
BY AlwaysSound, IInvPolls, PTL

(* Only a kill and a rollback whose checkout throws leave a deployment in   *)
(* flight with nobody working on it.                                        *)
THEOREM StrandingsAreKnown == Spec => OnlyKnownStrandings
<1>1. IInv /\ [Next]_vars
        => [(\E d \in DOMAIN rows : Handled(d) /\ ~Handled(d)' /\ InFlight(d)')
              => Crash \/ \E t \in Task : RollbackThrows(t)]_vars
  BY StepGood DEF Kept
<1> QED BY AlwaysSound, <1>1, PTL DEF Spec, OnlyKnownStrandings

(* The row of a deployment moves as the table of DeployStates says.         *)
Shown(rs) == [d \in 1..MaxRows |-> IF d \in DOMAIN rs THEN Canonical(rs[d].status) ELSE "absent"]

LEMMA FollowsMaps ==
    ASSUME NEW rs \in Seq(Row), NEW ss \in Seq(Row), Len(rs) <= MaxRows, Len(ss) <= MaxRows,
           Follows(rs, ss)
    PROVE  \/ Shown(ss) = Shown(rs)
           \/ \E d \in 1..MaxRows :
                \/ Shown(rs)[d] = "absent" /\ Shown(ss) = [Shown(rs) EXCEPT ![d] = "queued"]
                \/ \E to \in Machine!Transitions(Shown(rs)[d]) :
                     Shown(ss) = [Shown(rs) EXCEPT ![d] = to]
<1>0. /\ DOMAIN rs = 1..Len(rs) /\ DOMAIN ss = 1..Len(ss)
      /\ Len(rs) \in Nat /\ Len(ss) \in Nat /\ MaxRows \in Nat
  BY LenProperties, BoundsAssumption
<1>1. CASE ss = rs
  BY <1>1
<1>2. CASE /\ Len(rs) < MaxRows
           /\ \E r \in Row : r.status = "running" /\ ss = Append(rs, r)
  <2> DEFINE n == Len(rs) + 1
  <2>1. PICK r \in Row : r.status = "running" /\ ss = Append(rs, r)
    BY <1>2
  <2>2. /\ Len(ss) = n /\ ss[n] = r /\ \A e \in 1..Len(rs) : ss[e] = rs[e]
    BY <2>1, RowAdded
  <2>3. n \in 1..MaxRows /\ n \notin DOMAIN rs /\ DOMAIN ss = DOMAIN rs \cup {n}
    BY <1>0, <1>2, <2>2
  <2> HIDE DEF n
  <2>4. Shown(rs)[n] = "absent"
    BY <2>3 DEF Shown
  <2>5. Shown(ss) = [Shown(rs) EXCEPT ![n] = "queued"]
    BY <1>0, <2>1, <2>2, <2>3, CanonicalIs DEF Shown
  <2> QED BY <2>3, <2>4, <2>5
<1>3. ASSUME NEW d \in 1..Len(rs), Len(ss) = Len(rs), Allowed(rs[d].status, ss[d].status),
             \A e \in 1..Len(rs) : e # d => ss[e] = rs[e]
      PROVE  \/ Shown(ss) = Shown(rs)
             \/ \E to \in Machine!Transitions(Shown(rs)[d]) :
                  Shown(ss) = [Shown(rs) EXCEPT ![d] = to]
  <2>1. d \in 1..MaxRows /\ DOMAIN ss = DOMAIN rs /\ d \in DOMAIN rs
    BY <1>0, <1>3
  <2>2. Shown(rs)[d] = Canonical(rs[d].status)
    BY <2>1 DEF Shown
  <2>3. Shown(ss) = [Shown(rs) EXCEPT ![d] = Canonical(ss[d].status)]
    BY <1>0, <1>3, <2>1 DEF Shown
  <2>4. CASE Canonical(ss[d].status) = Canonical(rs[d].status)
    <3>1. [Shown(rs) EXCEPT ![d] = Shown(rs)[d]] = Shown(rs)
      BY DEF Shown
    <3> QED BY <2>2, <2>3, <2>4, <3>1
  <2>5. CASE Canonical(ss[d].status) \in Machine!Transitions(Canonical(rs[d].status))
    BY <2>2, <2>3, <2>5
  <2> QED BY <1>3, <2>4, <2>5 DEF Allowed
<1>4. \A d \in 1..Len(rs) : d \in 1..MaxRows
  BY <1>0
<1> QED BY <1>1, <1>2, <1>3, <1>4 DEF Follows

THEOREM RowsFollowTable == Spec => FollowsTable
<1>1. Init => Machine!Init
  BY DEF Init, Machine!Init
<1>2. IInv /\ [Next]_vars => [Machine!Next]_(Shown(rows))
  <2> SUFFICES ASSUME IInv, [Next]_vars PROVE [Machine!Next]_(Shown(rows))
    OBVIOUS
  <2>1. Follows(rows, rows') /\ Rows /\ Rows'
    BY StepGood DEF IInv
  <2>2. \/ Shown(rows') = Shown(rows)
        \/ \E d \in 1..MaxRows :
             \/ Shown(rows)[d] = "absent" /\ Shown(rows') = [Shown(rows) EXCEPT ![d] = "queued"]
             \/ \E to \in Machine!Transitions(Shown(rows)[d]) :
                  Shown(rows') = [Shown(rows) EXCEPT ![d] = to]
    BY <2>1, FollowsMaps DEF Rows
  <2>3. CASE Shown(rows') = Shown(rows)
    BY <2>3 DEF Shown
  <2>4. ASSUME NEW d \in 1..MaxRows, Shown(rows)[d] = "absent",
               Shown(rows') = [Shown(rows) EXCEPT ![d] = "queued"]
        PROVE  Machine!Next
    BY <2>4 DEF Shown, Machine!Next, Machine!Create
  <2>5. ASSUME NEW d \in 1..MaxRows, NEW to \in Machine!Transitions(Shown(rows)[d]),
               Shown(rows') = [Shown(rows) EXCEPT ![d] = to]
        PROVE  Machine!Next
    BY <2>5 DEF Shown, Machine!Next, Machine!Move
  <2> QED BY <2>2, <2>3, <2>4, <2>5
<1> QED BY AlwaysSound, <1>1, <1>2, PTL DEF Spec, FollowsTable, Machine!Spec, Shown
=============================================================================
