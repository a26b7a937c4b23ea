------------------------ MODULE DomainBindingProofs ------------------------
(***************************************************************************)
(* Theorems about DomainBinding, for any tasks, services and domains: type *)
(* correctness, that no two services share a domain, that a write of the   *)
(* rules changes one of them only, and that a served domain is taken down, *)
(* and a record or rule left behind, in the listed ways only.              *)
(***************************************************************************)
EXTENDS DomainBinding, TLAPS

(* A handler that is at a call has what the call is about. *)
SoundHandler ==
    {h \in Handler :
        /\ h.at \in {"dns", "ingress"} => h.dom \in Domain
        /\ h.at \in {"oldIngress", "oldDns"} => h.prev \in Domain
        /\ h.kind = "drain" => h.job \in Row}

TypeInv == TypeOK /\ task \in [Task -> SoundHandler]

(* The task of t changes, and no other in what it has read of the rules. *)
Advances(t) ==
    /\ task' \in [Task -> SoundHandler]
    /\ task'[t].reply # "read"
    /\ \A u \in Task \ {t} : task'[u].reply = task[u].reply /\ task'[u].config = task[u].config

(* The handlers the module puts into task are sound. *)
LEMMA IdleSound == Idle \in SoundHandler
  BY DEF Idle, SoundHandler, Handler, Stage, Reply, Rules, NoRules

(* The empty configuration has the type of one. *)
LEMMA NoRulesTyped == NoRules \in Rules
  BY DEF NoRules, Rules

(* Waiting for the next call. *)
LEMMA CallsAdvances ==
  ASSUME TypeInv, NEW t \in Task, NEW stage \in Stage, Calls(t, stage),
         stage \in {"dns", "ingress"} => task[t].dom \in Domain,
         stage \in {"oldIngress", "oldDns"} => task[t].prev \in Domain
  PROVE  Advances(t)
  <1> DEFINE h == [task[t] EXCEPT !.at = stage, !.reply = "sent"]
  <1>1. task' = [task EXCEPT ![t] = h]
    BY DEF Calls, TypeInv, SoundHandler, Handler
  <1>2. h \in SoundHandler
    BY DEF TypeInv, SoundHandler, Handler, Reply
  <1>3. h.reply # "read"
    BY DEF TypeInv, SoundHandler, Handler
  <1> HIDE DEF h
  <1> QED
    BY <1>1, <1>2, <1>3 DEF Advances, TypeInv

(* Nor is what has been read. *)
LEMMA ReplySound ==
  ASSUME NEW h \in SoundHandler, NEW r \in Reply, NEW c \in Rules
  PROVE  /\ [h EXCEPT !.reply = r, !.config = c] \in SoundHandler
         /\ [h EXCEPT !.reply = r, !.config = c].reply = r
  <1>1. h \in Handler
    BY DEF SoundHandler
  <1>2. [h EXCEPT !.reply = r, !.config = c] \in Handler
    BY <1>1 DEF Handler
  <1> QED
    BY <1>1, <1>2 DEF SoundHandler, Handler

(* An answer of Cloudflare. *)
LEMMA AnsweredAdvances ==
  ASSUME TypeInv, NEW t \in Task, NEW reply \in {"ok", "failed"}, Answered(t, reply)
  PROVE  Advances(t)
  <1> DEFINE h == [task[t] EXCEPT !.reply = reply, !.config = NoRules]
  <1>1. task' = [task EXCEPT ![t] = h]
    BY DEF Answered, TypeInv, SoundHandler, Handler
  <1>2. task[t] \in SoundHandler /\ reply \in Reply
    BY DEF TypeInv, Reply
  <1>3. h \in SoundHandler /\ h.reply = reply
    BY <1>2, NoRulesTyped, ReplySound
  <1> HIDE DEF h
  <1> QED
    BY <1>1, <1>3 DEF Advances, TypeInv

(* The end of a handler. *)
LEMMA EndsAdvances ==
  ASSUME TypeInv, NEW t \in Task, Ends(t)
  PROVE  Advances(t)
  <1>1. Idle.reply # "read"
    BY DEF Idle
  <1> QED
    BY <1>1, IdleSound DEF Ends, Advances, TypeInv

(* The history is no part of what makes a handler sound. *)
LEMMA AloneSound ==
  ASSUME NEW h \in SoundHandler, NEW b \in BOOLEAN
  PROVE  /\ [h EXCEPT !.alone = b] \in SoundHandler
         /\ [h EXCEPT !.alone = b].reply = h.reply
         /\ [h EXCEPT !.alone = b].config = h.config
  <1>1. h \in Handler
    BY DEF SoundHandler
  <1>2. [h EXCEPT !.alone = b] \in Handler
    BY <1>1 DEF Handler
  <1> QED
    BY <1>1, <1>2 DEF SoundHandler, Handler

(* A new handler; the history of the others changes. *)
LEMMA EntersAdvances ==
  ASSUME TypeInv, NEW t \in Task, NEW new \in SoundHandler, new.reply # "read",
         Enters(t, new)
  PROVE  Advances(t)
  <1> DEFINE own == [new EXCEPT !.alone = @ /\ \A v \in Task \ {t} : ~Meets(task[v], new)]
             other(u) == [task[u] EXCEPT !.alone = @ /\ ~Meets(task[u], new)]
  <1>1. task' = [u \in Task |-> IF u = t THEN own ELSE other(u)]
    BY DEF Enters
  <1>2. own \in SoundHandler /\ own.reply # "read"
    <2> DEFINE b == new.alone /\ \A v \in Task \ {t} : ~Meets(task[v], new)
    <2>1. b \in BOOLEAN
      OBVIOUS
    <2> HIDE DEF b
    <2>2. [new EXCEPT !.alone = b] \in SoundHandler /\ [new EXCEPT !.alone = b].reply = new.reply
      BY <2>1, AloneSound
    <2> QED
      BY <2>2 DEF b
  <1>3. ASSUME NEW u \in Task
        PROVE  /\ other(u) \in SoundHandler
               /\ other(u).reply = task[u].reply /\ other(u).config = task[u].config
    <2> DEFINE b == task[u].alone /\ ~Meets(task[u], new)
    <2>1. b \in BOOLEAN
      OBVIOUS
    <2> HIDE DEF b
    <2>2. task[u] \in SoundHandler
      BY DEF TypeInv
    <2>3. /\ [task[u] EXCEPT !.alone = b] \in SoundHandler
          /\ [task[u] EXCEPT !.alone = b].reply = task[u].reply
          /\ [task[u] EXCEPT !.alone = b].config = task[u].config
      BY <2>1, <2>2, AloneSound
    <2> QED
      BY <2>3 DEF b
  <1> HIDE DEF own, other
  <1> QED
    BY <1>1, <1>2, <1>3 DEF Advances

(* A request begins. *)
LEMMA BeginAdvances ==
  ASSUME TypeInv, NEW t \in Task, NEW k \in RequestKind, NEW stage \in Stage,
         NEW s \in Service \cup {NoService}, NEW d \in Domain \cup {NoDomain},
         NEW prev \in Domain \cup {NoDomain},
         stage \in {"dns", "ingress"} => d \in Domain,
         stage \in {"oldIngress", "oldDns"} => prev \in Domain,
         Begin(t, k, stage, s, d, prev)
  PROVE  Advances(t)
  <1> DEFINE new == [Idle EXCEPT !.kind = k, !.at = stage, !.svc = s, !.dom = d,
                                 !.prev = prev, !.reply = "sent", !.alone = task[t].alone]
  <1>1. task[t].alone \in BOOLEAN
    BY DEF TypeInv, SoundHandler, Handler
  <1>2. Idle \in Handler /\ "sent" \in Reply
    BY IdleSound DEF SoundHandler, Reply
  <1>3. new \in Handler
    BY <1>1, <1>2 DEF Handler
  <1>4. /\ new.kind = k /\ new.at = stage /\ new.dom = d /\ new.prev = prev
        /\ new.reply = "sent"
    BY <1>2 DEF Handler
  <1> HIDE DEF new
  <1>5. new \in SoundHandler /\ new.reply # "read"
    BY <1>3, <1>4 DEF SoundHandler, RequestKind
  <1>6. Enters(t, new)
    BY DEF Begin, new
  <1> QED
    BY <1>5, <1>6, EntersAdvances

(* The drain calls Cloudflare for a row. *)
LEMMA CleansAdvances ==
  ASSUME TypeInv, NEW t \in Task, NEW r \in Row, NEW rest \in SUBSET Row, Cleans(t, r, rest)
  PROVE  Advances(t)
  <1> DEFINE new == [Idle EXCEPT !.kind = "drain", !.at = CallOf(r.kind), !.prev = r.dom,
                                 !.reply = "sent", !.job = r, !.rest = rest]
  <1>1. CallOf(r.kind) \in {"oldDns", "oldIngress"} /\ r.dom \in Domain
    BY DEF CallOf, Row
  <1>2. Idle \in Handler /\ "sent" \in Reply
    BY IdleSound DEF SoundHandler, Reply
  <1>3. new \in Handler
    BY <1>1, <1>2 DEF Handler, Stage
  <1>4. /\ new.at = CallOf(r.kind) /\ new.prev = r.dom /\ new.job = r
        /\ new.reply = "sent"
    BY <1>2 DEF Handler
  <1> HIDE DEF new
  <1>5. new \in SoundHandler /\ new.reply # "read"
    BY <1>1, <1>3, <1>4 DEF SoundHandler
  <1>6. Enters(t, new)
    BY DEF Cleans, new
  <1> QED
    BY <1>5, <1>6, EntersAdvances

(* The drain goes on to its next row or ends. *)
LEMMA CleansNextAdvances ==
  ASSUME TypeInv, NEW t \in Task, CleansNext(t)
  PROVE  Advances(t)
  <1>1. task[t].rest \in SUBSET Row
    BY DEF TypeInv, SoundHandler, Handler
  <1>2. CASE task[t].rest = {}
    BY <1>2, EndsAdvances DEF CleansNext
  <1>3. CASE task[t].rest # {}
    <2>1. PICK r \in task[t].rest : Cleans(t, r, task[t].rest \ {r})
      BY <1>3 DEF CleansNext
    <2> QED
      BY <1>1, <2>1, CleansAdvances
  <1> QED
    BY <1>2, <1>3

(* What the handlers of one task do to the rest of the state. *)
LEMMA EnqueuedTyped ==
  ASSUME TypeInv, NEW kinds \in SUBSET CleanupKind, NEW d \in Domain
  PROVE  Enqueued(kinds, d) \in SUBSET Row
  <1>1. \A k \in kinds : NewRow(k, d) \in Row
    BY BoundsAssumption DEF NewRow, Row, BoundsAssumption
  <1> QED
    BY <1>1 DEF Enqueued, TypeInv, TypeOK

(* The locals of a handler. *)
LEMMA TaskFields ==
  ASSUME TypeInv, NEW t \in Task
  PROVE  /\ task[t].svc \in Service \cup {NoService}
         /\ task[t].dom \in Domain \cup {NoDomain}
         /\ task[t].prev \in Domain \cup {NoDomain}
         /\ task[t].config \in Rules
         /\ task[t].rest \in SUBSET Row
         /\ task[t].at \in {"dns", "ingress"} => task[t].dom \in Domain
         /\ task[t].at \in {"oldIngress", "oldDns"} => task[t].prev \in Domain
         /\ task[t].kind = "drain" => task[t].job \in Row
  BY DEF TypeInv, SoundHandler, Handler

Typed ==
    /\ services \subseteq Service
    /\ route \in [Service -> Domain \cup {NoDomain}]
    /\ queue \subseteq Row
    /\ dead \subseteq CleanupKind \X Domain
    /\ dns \subseteq Domain
    /\ ingress \in Rules
    /\ mutex \in Task \cup {NoTask}
    /\ requests \in 0..MaxRequests
    /\ crashes \in 0..MaxCrashes

(* TypeInv, with the part that is not about task named. *)
LEMMA TypeInvSplit == TypeInv <=> Typed /\ task \in [Task -> SoundHandler]
  BY DEF TypeInv, Typed, TypeOK, SoundHandler

(* One case per action of Step. *)
LEMMA StepTyped ==
  ASSUME TypeInv, NEW t \in Task, Step(t), ~IngressReads(t)
  PROVE  Advances(t) /\ Typed'
  <1> Typed
    BY TypeInvSplit
  <1> USE DEF db, cloudflare
  <1>1. CASE DnsCall(t)
    <2>1. Advances(t)
      BY <1>1, AnsweredAdvances DEF DnsCall, Sent
    <2>2. dns' \subseteq Domain
      BY <1>1, TaskFields DEF DnsCall, Sent, Typed
    <2> QED
      BY <1>1, <2>1, <2>2 DEF DnsCall, Typed
  <1>2. CASE IngressWrites(t)
    <2>1. Advances(t)
      BY <1>2, AnsweredAdvances DEF IngressWrites
    <2>2. ingress' \in Rules
      <3>1. \A d \in Domain \cup {NoDomain}, u \in Service \cup {NoService} :
              [task[t].config EXCEPT ![d] = u] \in Rules
        BY TaskFields DEF Rules
      <3> QED
        BY <1>2, <3>1, TaskFields DEF IngressWrites, Typed
    <2> QED
      BY <1>2, <2>1, <2>2 DEF IngressWrites, Typed
  <1>3. CASE ExposeDnsDone(t)
    <2>1. Advances(t)
      BY <1>3, CallsAdvances, TaskFields DEF ExposeDnsDone, Ok, Stage
    <2> QED
      BY <1>3, <2>1, TaskFields DEF ExposeDnsDone, Typed
  <1>4. CASE ExposeBinds(t)
    <2>1. Advances(t)
      BY <1>4, CallsAdvances, EndsAdvances, TaskFields DEF ExposeBinds, Ok, Stage
    <2> QED
      BY <1>4, <2>1, TaskFields DEF ExposeBinds, Typed, Ok, ReleasesMutex
  <1>5. CASE ExposeThrows(t)
    <2>1. Advances(t)
      BY <1>5, EndsAdvances DEF ExposeThrows
    <2> QED
      BY <1>5, <2>1, TaskFields DEF ExposeThrows, Typed, ReleasesMutex
  <1>6. CASE ExposeCleans(t)
    <2>1. Advances(t)
      BY <1>6, CallsAdvances, EndsAdvances, TaskFields DEF ExposeCleans, Ok, Stage
    <2> QED
      BY <1>6, <2>1, TaskFields DEF ExposeCleans, Typed, ReleasesMutex
  <1>7. CASE ExposeEnqueues(t)
    <2>1. Advances(t)
      BY <1>7, EndsAdvances DEF ExposeEnqueues
    <2>2. queue' \subseteq Row
      <3>1. Enqueued(CleanupKind, task[t].prev) \in SUBSET Row
        BY <1>7, TaskFields, EnqueuedTyped DEF ExposeEnqueues, Failed, CleanupKind
      <3> QED
        BY <1>7, <3>1 DEF ExposeEnqueues, QueuedIfFailed, Typed
    <2> QED
      BY <1>7, <2>1, <2>2 DEF ExposeEnqueues, Typed, ReleasesMutex
  <1>8. CASE IngressRemoved(t)
    <2>1. Advances(t)
      BY <1>8, CallsAdvances, TaskFields DEF IngressRemoved, Stage
    <2>2. queue' \subseteq Row
      <3>1. Enqueued({"remove_ingress"}, task[t].prev) \in SUBSET Row
        BY <1>8, TaskFields, EnqueuedTyped DEF IngressRemoved, Failed, CleanupKind
      <3> QED
        BY <1>8, <3>1 DEF IngressRemoved, QueuedIfFailed, Typed
    <2> QED
      BY <1>8, <2>1, <2>2 DEF IngressRemoved, Typed, ReleasesMutex
  <1>9. CASE DnsRemoved(t)
    <2>1. Advances(t)
      BY <1>9, CallsAdvances, EndsAdvances, TaskFields DEF DnsRemoved, Stage
    <2>2. queue' \subseteq Row
      <3>1. Enqueued({"delete_dns"}, task[t].prev) \in SUBSET Row
        BY <1>9, TaskFields, EnqueuedTyped DEF DnsRemoved, Failed, CleanupKind
      <3> QED
        BY <1>9, <3>1 DEF DnsRemoved, QueuedIfFailed, Typed
    <2> QED
      BY <1>9, <2>1, <2>2 DEF DnsRemoved, Typed, ReleasesMutex
  <1>10. CASE DeleteEnds(t)
    <2>1. Advances(t)
      BY <1>10, EndsAdvances DEF DeleteEnds
    <2> QED
      BY <1>10, <2>1, TaskFields DEF DeleteEnds, Typed
  <1>11. CASE UpdateReplaces(t)
    <2>1. Advances(t)
      <3>1. CASE Ends(t)
        BY <3>1, EndsAdvances
      <3>2. CASE /\ task[t].dom # NoDomain
                 /\ Begin(t, "update", "dns", task[t].svc, task[t].dom, NoDomain)
        BY <3>2, TaskFields, BeginAdvances DEF RequestKind, Stage
      <3> QED
        BY <1>11, <3>1, <3>2 DEF UpdateReplaces
    <2>2. route' \in [Service -> Domain \cup {NoDomain}]
      BY <1>11, TaskFields DEF UpdateReplaces, Typed
    <2> QED
      BY <1>11, <2>1, <2>2 DEF UpdateReplaces, Typed, ReleasesMutex
  <1>12. CASE UpdateRegisters(t)
    <2>1. Advances(t)
      BY <1>12, CallsAdvances, EndsAdvances, TaskFields DEF UpdateRegisters, Ok, Stage
    <2> QED
      BY <1>12, <2>1, TaskFields DEF UpdateRegisters, Typed, ReleasesMutex
  <1>13. CASE DrainCleaned(t)
    <2>1. Advances(t)
      BY <1>13, CleansNextAdvances DEF DrainCleaned
    <2> QED
      BY <1>13, <2>1, TaskFields DEF DrainCleaned, Typed, Others, ReleasesMutex
  <1>14. CASE DrainFailed(t)
    <2>1. Advances(t)
      BY <1>14, CleansNextAdvances DEF DrainFailed
    <2>2. queue' \subseteq Row /\ dead' \subseteq CleanupKind \X Domain
      <3> DEFINE r == task[t].job
      <3>1. r \in Row
        BY <1>14, TaskFields DEF DrainFailed
      <3>2. <<r.kind, r.dom>> \in CleanupKind \X Domain
        BY <3>1 DEF Row
      <3>3. CASE GivesUp(r.attempts)
        BY <1>14, <3>2, <3>3 DEF DrainFailed, Others, Typed
      <3>4. CASE ~GivesUp(r.attempts)
        <4>1. [r EXCEPT !.attempts = Bump(@)] \in Row
          BY <3>1, <3>4, BoundsAssumption DEF Row, Bump, GivesUp, BoundsAssumption
        <4> QED
          BY <1>14, <3>4, <4>1 DEF DrainFailed, Others, Typed
      <3> QED
        BY <3>3, <3>4
    <2> QED
      BY <1>14, <2>1, <2>2 DEF DrainFailed, Typed, ReleasesMutex
  <1> QED
    BY <1>1, <1>2, <1>3, <1>4, <1>5, <1>6, <1>7, <1>8, <1>9, <1>10, <1>11, <1>12, <1>13, <1>14 DEF Step

(* The steps that are not of Step: requests, the drain's start, the read of *)
(* the tunnel's configuration, the kill.                                    *)
LEMMA IngressReadsTyped ==
  ASSUME TypeInv, NEW t \in Task, IngressReads(t)
  PROVE  TypeInv'
  <1> Typed
    BY TypeInvSplit
  <1>1. task' \in [Task -> SoundHandler]
    <2>1. CASE Answered(t, "failed")
      BY <2>1, AnsweredAdvances DEF Advances
    <2>2. CASE task' = [task EXCEPT ![t].reply = "read", ![t].config = ingress]
      <3> DEFINE h == [task[t] EXCEPT !.reply = "read", !.config = ingress]
      <3>1. task' = [task EXCEPT ![t] = h]
        BY <2>2 DEF TypeInv, SoundHandler, Handler
      <3>2. h \in SoundHandler
        <4>1. task[t] \in SoundHandler /\ ingress \in Rules /\ "read" \in Reply
          BY DEF TypeInv, Typed, Reply
        <4> QED
          BY <4>1, ReplySound
      <3> HIDE DEF h
      <3> QED
        BY <3>1, <3>2 DEF TypeInv
    <2> QED
      BY <2>1, <2>2 DEF IngressReads
  <1>2. Typed'
    BY DEF IngressReads, Typed, db, cloudflare
  <1> QED
    BY <1>1, <1>2, TypeInvSplit DEF TypeInv, Typed, TypeOK, SoundHandler

(* Requests and the start of the drain touch neither routes nor rules. *)
LEMMA RequestTyped ==
  ASSUME TypeInv, NEW t \in Task, Request(t) \/ Drain(t)
  PROVE  Advances(t) /\ Typed' /\ UNCHANGED <<route, ingress, mutex>>
  <1> Typed
    BY TypeInvSplit
  <1> USE DEF db, cloudflare
  <1>0. \A s \in Service : route[s] \in Domain \cup {NoDomain}
    BY DEF Typed
  <1>1. ASSUME NEW s \in Service, Unexpose(t, s)
        PROVE  Advances(t) /\ Typed' /\ UNCHANGED <<route, ingress, mutex>>
    <2>1. Advances(t)
      BY <1>0, <1>1, BeginAdvances DEF Unexpose, RequestKind, Stage
    <2> QED
      BY <1>1, <2>1, BoundsAssumption DEF Unexpose, Arrives, Typed, BoundsAssumption
  <1>2. ASSUME NEW s \in Service, Delete(t, s)
        PROVE  Advances(t) /\ Typed' /\ UNCHANGED <<route, ingress, mutex>>
    <2>1. Advances(t)
      BY <1>0, <1>2, BeginAdvances DEF Delete, RequestKind, Stage
    <2> QED
      BY <1>2, <2>1, BoundsAssumption DEF Delete, Arrives, Typed, BoundsAssumption
  <1>3. ASSUME NEW s \in Service, NEW d \in Domain \cup {NoDomain}, Update(t, s, d)
        PROVE  Advances(t) /\ Typed' /\ UNCHANGED <<route, ingress, mutex>>
    <2>1. Advances(t)
      BY <1>0, <1>3, BeginAdvances DEF Update, RequestKind, Stage
    <2> QED
      BY <1>3, <2>1, BoundsAssumption DEF Update, Arrives, Typed, BoundsAssumption
  <1>4. ASSUME NEW s \in Service, NEW d \in Domain, Expose(t, s, d)
        PROVE  Advances(t) /\ Typed' /\ UNCHANGED <<route, ingress, mutex>>
    <2>1. Advances(t)
      BY <1>0, <1>4, BeginAdvances DEF Expose, RequestKind, Stage
    <2> QED
      BY <1>4, <2>1, BoundsAssumption DEF Expose, Arrives, Typed, BoundsAssumption
  <1>5. CASE Drain(t)
    <2>1. PICK r \in queue : Cleans(t, r, queue \ {r})
      BY <1>5 DEF Drain
    <2>2. r \in Row /\ queue \ {r} \in SUBSET Row
      BY DEF Typed
    <2>3. Advances(t)
      BY <2>1, <2>2, CleansAdvances
    <2> QED
      BY <1>5, <2>3 DEF Drain, Typed
  <1> QED
    BY <1>1, <1>2, <1>3, <1>4, <1>5 DEF Request

(* The kill. *)
LEMMA CrashTyped ==
  ASSUME TypeInv, Crash
  PROVE  TypeInv'
  <1>1. Typed'
    BY TypeInvSplit, BoundsAssumption DEF Crash, Typed, db, cloudflare, BoundsAssumption
  <1>2. task' \in [Task -> SoundHandler]
    BY IdleSound DEF Crash
  <1> QED
    BY <1>1, <1>2 DEF TypeInv, Typed, TypeOK, SoundHandler

(* TypeInv is inductive. *)
LEMMA NextTyped == TypeInv /\ [Next]_vars => TypeInv'
  <1> SUFFICES ASSUME TypeInv, [Next]_vars
               PROVE  TypeInv'
    OBVIOUS
  <1>1. ASSUME NEW t \in Task, Step(t)
        PROVE  TypeInv'
    <2>1. CASE IngressReads(t)
      BY <2>1, IngressReadsTyped
    <2>2. CASE ~IngressReads(t)
      BY <1>1, <2>2, StepTyped DEF Advances, TypeInv, Typed, TypeOK, SoundHandler
    <2> QED
      BY <2>1, <2>2
  <1>2. ASSUME NEW t \in Task, Request(t) \/ Drain(t)
        PROVE  TypeInv'
    BY <1>2, RequestTyped DEF Advances, TypeInv, Typed, TypeOK, SoundHandler
  <1>3. CASE UNCHANGED vars
    BY <1>3 DEF vars, TypeInv, TypeOK
  <1> QED
    BY <1>1, <1>2, <1>3, CrashTyped DEF Next

(* The control plane starts well typed, whatever is bound. *)
LEMMA InitTyped == Init => TypeInv
  <1> SUFFICES ASSUME Init
               PROVE  TypeInv
    OBVIOUS
  <1>1. ingress \in Rules
    <2>1. \A d \in Domain : Routed(d) => (CHOOSE s \in Service : route[s] = d) \in Service
      BY DEF Routed
    <2> QED
      BY <2>1 DEF Init, Rules
  <1>2. task \in [Task -> SoundHandler]
    BY IdleSound DEF Init
  <1>3. Typed
    BY <1>1, BoundsAssumption DEF Init, Typed, BoundsAssumption
  <1> QED
    BY <1>2, <1>3, TypeInvSplit

(* Type correctness: whatever handlers, failing calls, drains and kills     *)
(* interleave, the tables and handlers hold what the code stores in them,   *)
(* and a queued cleanup has attempts left (services/cleanupQueue.ts).       *)
THEOREM DomainTypes == Spec => []TypeOK
  <1>1. TypeInv => TypeOK
    BY DEF TypeInv
  <1> QED
    BY <1>1, InitTyped, NextTyped, PTL DEF Spec

------------------------------------------------------------------------------
(* Routes.                                                                  *)

(* The only writers of routes. *)
LEMMA RouteSteps ==
  ASSUME TypeInv, [Next]_vars, route' # route
  PROVE  \E t \in Task : \/ ExposeBinds(t) \/ DnsRemoved(t) \/ DeleteEnds(t)
                         \/ UpdateReplaces(t)
  <1> USE DEF db
  <1>1. ASSUME NEW t \in Task, Step(t)
        PROVE  ExposeBinds(t) \/ DnsRemoved(t) \/ DeleteEnds(t) \/ UpdateReplaces(t)
    BY <1>1 DEF Step, DnsCall, IngressReads, IngressWrites, ExposeDnsDone, ExposeThrows,
                ExposeCleans, ExposeEnqueues, IngressRemoved, UpdateRegisters, DrainCleaned,
                DrainFailed
  <1>2. ASSUME NEW t \in Task, Request(t) \/ Drain(t)
        PROVE  FALSE
    BY <1>2, RequestTyped
  <1> QED
    BY <1>1, <1>2 DEF Next, Crash, vars

(* Two handlers that both passed the guard of expose or of the edit never   *)
(* leave two services routed on one domain, whichever writes its row last   *)
(* (routes/cloudflare.ts:342, routes/services.ts:1203, the index at         *)
(* db.ts:510).                                                              *)
THEOREM RoutesStayUnique == Spec => []RoutesUnique
  <1>1. Init => RoutesUnique
    BY DEF Init
  <1>2. TypeInv /\ RoutesUnique /\ [Next]_vars => RoutesUnique'
    <2> SUFFICES ASSUME TypeInv, RoutesUnique, [Next]_vars, route' # route
                 PROVE  RoutesUnique'
      BY DEF RoutesUnique
    <2>1. PICK t \in Task : \/ ExposeBinds(t) \/ DnsRemoved(t) \/ DeleteEnds(t)
                            \/ UpdateReplaces(t)
      BY RouteSteps
    <2>2. route \in [Service -> Domain \cup {NoDomain}]
      BY TypeInvSplit DEF Typed
    <2>3. PICK d : /\ route' = [route EXCEPT ![task[t].svc] = d]
                   /\ d = NoDomain \/ ~Taken(task[t].svc, d)
      BY <2>1 DEF ExposeBinds, DnsRemoved, DeleteEnds, UpdateReplaces, IndexRefuses
    <2> QED
      BY <2>2, <2>3 DEF RoutesUnique, Taken
  <1> QED
    BY <1>1, <1>2, InitTyped, NextTyped, PTL DEF Spec

------------------------------------------------------------------------------
(* Rules.                                                                   *)

(* What a handler has read inside the lock is still the configuration. *)
ReadCurrent ==
    \A t \in Task : task[t].reply = "read" => mutex = t /\ task[t].config = ingress

(* A step that writes no rule, or writes it inside the lock. *)
LEMMA ReadCurrentKept ==
  ASSUME TypeInv, ReadCurrent, NEW t \in Task, Advances(t),
         ingress' = ingress \/ task[t].reply = "read",
         mutex' = mutex \/ mutex' = IF mutex = t THEN NoTask ELSE mutex
  PROVE  ReadCurrent'
  <1> SUFFICES ASSUME NEW u \in Task, task'[u].reply = "read"
               PROVE  mutex' = u /\ task'[u].config = ingress'
    BY DEF ReadCurrent
  <1>1. u # t /\ task[u].reply = "read" /\ task'[u].config = task[u].config
    BY DEF Advances
  <1>2. mutex = u /\ task[u].config = ingress
    BY <1>1 DEF ReadCurrent
  <1>3. task[t].reply # "read"
    BY <1>1, <1>2 DEF ReadCurrent
  <1> QED
    BY <1>1, <1>2, <1>3

(* ReadCurrent is inductive with TypeInv. *)
LEMMA NextReadCurrent == TypeInv /\ ReadCurrent /\ [Next]_vars => ReadCurrent'
  <1> SUFFICES ASSUME TypeInv, ReadCurrent, [Next]_vars
               PROVE  ReadCurrent'
    OBVIOUS
  <1> USE DEF db, cloudflare
  <1>1. ASSUME NEW t \in Task, Step(t), ~IngressReads(t)
        PROVE  ReadCurrent'
    <2>1. Advances(t)
      BY <1>1, StepTyped
    <2>2. ingress' = ingress \/ task[t].reply = "read"
      BY <1>1 DEF Step, DnsCall, IngressWrites, ExposeDnsDone, ExposeBinds, ExposeThrows,
                  ExposeCleans, ExposeEnqueues, IngressRemoved, DnsRemoved, DeleteEnds,
                  UpdateReplaces, UpdateRegisters, DrainCleaned, DrainFailed
    <2>3. mutex' = mutex \/ mutex' = IF mutex = t THEN NoTask ELSE mutex
      BY <1>1 DEF Step, DnsCall, IngressWrites, ExposeDnsDone, ExposeBinds, ExposeThrows,
                  ExposeCleans, ExposeEnqueues, IngressRemoved, DnsRemoved, DeleteEnds,
                  UpdateReplaces, UpdateRegisters, DrainCleaned, DrainFailed, ReleasesMutex
    <2> QED
      BY <2>1, <2>2, <2>3, ReadCurrentKept
  <1>2. ASSUME NEW t \in Task, IngressReads(t)
        PROVE  ReadCurrent'
    <2>1. CASE Answered(t, "failed") /\ mutex' = mutex
      BY <1>2, <2>1, AnsweredAdvances, ReadCurrentKept DEF IngressReads
    <2>2. CASE /\ mutex' = t
               /\ task' = [task EXCEPT ![t].reply = "read", ![t].config = ingress]
      <3>1. \A u \in Task : task[u].reply # "read"
        BY <1>2, NamesAssumption DEF IngressReads, Unlocked, ReadCurrent, NamesAssumption
      <3> QED
        BY <1>2, <2>2, <3>1 DEF IngressReads, ReadCurrent, TypeInv, SoundHandler, Handler
    <2> QED
      BY <1>2, <2>1, <2>2 DEF IngressReads
  <1>3. ASSUME NEW t \in Task, Request(t) \/ Drain(t)
        PROVE  ReadCurrent'
    BY <1>3, RequestTyped, ReadCurrentKept
  <1>4. CASE Crash
    BY <1>4 DEF Crash, ReadCurrent, Idle
  <1>5. CASE UNCHANGED vars
    BY <1>5 DEF vars, ReadCurrent
  <1> QED
    BY <1>1, <1>2, <1>3, <1>4, <1>5 DEF Next

(* The configuration of the tunnel is read, changed and written back over   *)
(* two calls of Cloudflare; whatever handlers and drains overlap, and       *)
(* whichever calls fail or lose their answers, a write changes the rule of  *)
(* its own domain only (withIngressLock, services/cloudflare.ts:678).       *)
THEOREM OtherRulesStay == Spec => OtherRulesKept
  <1>1. Init => ReadCurrent
    BY DEF Init, ReadCurrent, Idle
  <1>2. TypeInv /\ ReadCurrent /\ [Next]_vars =>
          [\A d \in Domain : ingress'[d] # ingress[d] =>
             \E t \in Task : IngressWrites(t) /\ d \in {task[t].dom, task[t].prev}]_vars
    <2> SUFFICES ASSUME TypeInv, ReadCurrent, [Next]_vars,
                        NEW d \in Domain, ingress'[d] # ingress[d]
                 PROVE  \E t \in Task : IngressWrites(t) /\ d \in {task[t].dom, task[t].prev}
      OBVIOUS
    <2> USE DEF db, cloudflare
    <2>1. PICK t \in Task : IngressWrites(t)
      <3>1. ASSUME NEW t \in Task, Step(t)
            PROVE  IngressWrites(t)
        BY <3>1 DEF Step, DnsCall, IngressReads, ExposeDnsDone, ExposeBinds, ExposeThrows,
                    ExposeCleans, ExposeEnqueues, IngressRemoved, DnsRemoved, DeleteEnds,
                    UpdateReplaces, UpdateRegisters, DrainCleaned, DrainFailed
      <3>2. ASSUME NEW t \in Task, Request(t) \/ Drain(t)
            PROVE  FALSE
        BY <3>2, RequestTyped
      <3> QED
        BY <3>1, <3>2 DEF Next, Crash, vars
    <2>2. task[t].config = ingress
      BY <2>1 DEF IngressWrites, ReadCurrent
    <2>3. ingress \in Rules
      BY TypeInvSplit DEF Typed
    <2> QED
      BY <2>1, <2>2, <2>3 DEF IngressWrites, Rules
  <1> QED
    BY <1>1, <1>2, InitTyped, NextTyped, NextReadCurrent, PTL DEF Spec, OtherRulesKept

------------------------------------------------------------------------------
(* Who overlaps whom.                                                       *)

(* Two records of a handler are at the same call. *)
SameCall(a, b) ==
    /\ a.kind = b.kind /\ a.at = b.at /\ a.reply = b.reply /\ a.job = b.job
    /\ a.svc = b.svc /\ a.dom = b.dom /\ a.prev = b.prev

(* The others stay where they are, and may be alone no more. *)
Watched(t) ==
    \A u \in Task \ {t} : SameCall(task'[u], task[u]) /\ (task'[u].alone => task[u].alone)

(* t goes on with what it works on. *)
Moves(t, stage, reply) ==
    /\ task'[t].at = stage /\ task'[t].reply = reply
    /\ task'[t].kind = task[t].kind /\ task'[t].job = task[t].job
    /\ task'[t].svc = task[t].svc /\ task'[t].dom = task[t].dom /\ task'[t].prev = task[t].prev
    /\ task'[t].alone = task[t].alone
    /\ Watched(t)

Rests(t) == task'[t] = Idle /\ Watched(t)

(* t begins to work on something; it and those it meets are not alone.      *)
Entered(t) ==
    /\ Watched(t)
    /\ \A u \in Task \ {t} :
        task'[t].alone \/ task'[u].alone => ~Meets(task[u], task'[t])

Cleaning(t) ==
    /\ task'[t].kind = "drain" /\ task'[t].reply = "sent"
    /\ task'[t].at = CallOf(task'[t].job.kind) /\ task'[t].prev = task'[t].job.dom
    /\ Entered(t)

LEMMA TasksAre == TypeInv => task \in [Task -> Handler]
  BY DEF TypeInv, SoundHandler

LEMMA CallsIs ==
  ASSUME TypeInv, NEW t \in Task, NEW stage, Calls(t, stage)
  PROVE  Moves(t, stage, "sent")
  BY TasksAre DEF Calls, Moves, Watched, SameCall, Handler

LEMMA AnsweredIs ==
  ASSUME TypeInv, NEW t \in Task, NEW reply, Answered(t, reply)
  PROVE  Moves(t, task[t].at, reply)
  BY TasksAre DEF Answered, Moves, Watched, SameCall, Handler

LEMMA EndsIs ==
  ASSUME TypeInv, NEW t \in Task, Ends(t)
  PROVE  Rests(t)
  BY TasksAre DEF Ends, Rests, Watched, SameCall

LEMMA EntersIs ==
  ASSUME TypeInv, NEW t \in Task, NEW new \in Handler, Enters(t, new)
  PROVE  /\ SameCall(task'[t], new) /\ (task'[t].alone => new.alone) /\ Entered(t)
  <1>1. task'[t] = [new EXCEPT !.alone = @ /\ \A v \in Task \ {t} : ~Meets(task[v], new)]
    BY DEF Enters
  <1>2. \A u \in Task \ {t} : task'[u] = [task[u] EXCEPT !.alone = @ /\ ~Meets(task[u], new)]
    BY DEF Enters
  <1>3. SameCall(task'[t], new) /\ (task'[t].alone => new.alone)
    BY <1>1 DEF SameCall, Handler
  <1>4. task'[t].alone => \A v \in Task \ {t} : ~Meets(task[v], new)
    BY <1>1 DEF Handler
  <1>5. ASSUME NEW u \in Task \ {t}
        PROVE  /\ SameCall(task'[u], task[u]) /\ (task'[u].alone => task[u].alone)
               /\ task'[u].alone => ~Meets(task[u], new)
    <2>1. task[u] \in Handler
      BY TasksAre
    <2> QED
      BY <1>2, <2>1 DEF SameCall, Handler
  <1>6. \A u \in Task : Meets(task[u], task'[t]) <=> Meets(task[u], new)
    BY <1>3 DEF SameCall, Meets
  <1> QED
    BY <1>3, <1>4, <1>5, <1>6 DEF Entered, Watched

LEMMA BeginIs ==
  ASSUME TypeInv, NEW t \in Task, NEW k \in RequestKind, NEW stage \in Stage,
         NEW s \in Service \cup {NoService}, NEW d \in Domain \cup {NoDomain},
         NEW prev \in Domain \cup {NoDomain}, Begin(t, k, stage, s, d, prev)
  PROVE  /\ task'[t].kind = k /\ task'[t].at = stage /\ task'[t].reply = "sent"
         /\ task'[t].svc = s /\ task'[t].dom = d /\ task'[t].prev = prev
         /\ task'[t].alone => task[t].alone
         /\ Entered(t)
  <1> DEFINE new == [Idle EXCEPT !.kind = k, !.at = stage, !.svc = s, !.dom = d,
                                 !.prev = prev, !.reply = "sent", !.alone = task[t].alone]
  <1>1. task[t].alone \in BOOLEAN
    BY TasksAre DEF Handler
  <1>2. Idle \in Handler /\ "sent" \in Reply
    BY IdleSound DEF SoundHandler, Reply
  <1>3. /\ new \in Handler
        /\ new.kind = k /\ new.at = stage /\ new.dom = d /\ new.prev = prev
        /\ new.svc = s /\ new.reply = "sent" /\ new.alone = task[t].alone
    BY <1>1, <1>2 DEF Handler
  <1> HIDE DEF new
  <1>4. Enters(t, new)
    BY DEF Begin, new
  <1> QED
    BY <1>3, <1>4, EntersIs DEF SameCall

LEMMA CleansIs ==
  ASSUME TypeInv, NEW t \in Task, NEW r \in Row, NEW rest \in SUBSET Row, Cleans(t, r, rest)
  PROVE  Cleaning(t)
  <1> DEFINE new == [Idle EXCEPT !.kind = "drain", !.at = CallOf(r.kind), !.prev = r.dom,
                                 !.reply = "sent", !.job = r, !.rest = rest]
  <1>1. CallOf(r.kind) \in {"oldDns", "oldIngress"} /\ r.dom \in Domain
    BY DEF CallOf, Row
  <1>2. Idle \in Handler /\ "sent" \in Reply
    BY IdleSound DEF SoundHandler, Reply
  <1>3. /\ new \in Handler
        /\ new.kind = "drain" /\ new.at = CallOf(r.kind) /\ new.prev = r.dom /\ new.job = r
        /\ new.reply = "sent"
    BY <1>1, <1>2 DEF Handler, Stage
  <1> HIDE DEF new
  <1>4. Enters(t, new)
    BY DEF Cleans, new
  <1> QED
    BY <1>3, <1>4, EntersIs DEF SameCall, Cleaning

LEMMA CleansNextIs ==
  ASSUME TypeInv, NEW t \in Task, CleansNext(t)
  PROVE  Rests(t) \/ Cleaning(t)
  <1>1. task[t].rest \in SUBSET Row
    BY TasksAre DEF Handler
  <1>2. CASE task[t].rest = {}
    BY <1>2, EndsIs DEF CleansNext
  <1>3. CASE task[t].rest # {}
    <2>1. PICK r \in task[t].rest : Cleans(t, r, task[t].rest \ {r})
      BY <1>3 DEF CleansNext
    <2> QED
      BY <1>1, <2>1, CleansIs
  <1> QED
    BY <1>2, <1>3

(* Where a handler can be, and what it has there. *)
Placed(h) ==
    /\ h.at = "idle" => h.kind = "none"
    /\ h.at \in {"dns", "ingress"} => h.kind \in {"expose", "update"}
    /\ h.at = "oldDns" => h.kind \in {"expose", "unexpose", "delete", "drain"}
    /\ h.at = "oldIngress" => h.kind \in RequestKind \cup {"drain"}
    /\ h.at = "stop" => h.kind = "delete"
    /\ h.at = "replace" => h.kind = "update"
    /\ h.kind \in RequestKind => h.svc \in Service
    /\ h.kind = "drain" => h.at = CallOf(h.job.kind) /\ h.prev = h.job.dom
    /\ h.reply = "read" => h.at \in {"ingress", "oldIngress"}

AllPlaced == \A t \in Task : Placed(task[t])

LEMMA PlacedOthers ==
  ASSUME AllPlaced, NEW t \in Task, Watched(t), Placed(task'[t])
  PROVE  AllPlaced'
  <1>1. \A u \in Task \ {t} : Placed(task'[u])
    BY DEF AllPlaced, Watched, SameCall, Placed
  <1> QED
    BY <1>1 DEF AllPlaced

LEMMA IdlePlaced == Placed(Idle)
  BY DEF Placed, Idle, RequestKind

(* An answer comes. *)
LEMMA CallsPlaced ==
  ASSUME TypeInv, AllPlaced, NEW t \in Task, DnsCall(t) \/ IngressReads(t) \/ IngressWrites(t)
  PROVE  /\ Placed(task'[t])
         /\ \E reply \in {"ok", "failed", "read"} : Moves(t, task[t].at, reply)
  <1>1. PICK reply \in {"ok", "failed", "read"} :
          /\ Moves(t, task[t].at, reply)
          /\ reply = "read" => task[t].at \in {"ingress", "oldIngress"}
    <2>1. CASE DnsCall(t)
      BY <2>1, AnsweredIs DEF DnsCall
    <2>2. CASE IngressWrites(t)
      BY <2>2, AnsweredIs DEF IngressWrites
    <2>3. CASE IngressReads(t) /\ Answered(t, "failed")
      BY <2>3, AnsweredIs
    <2>4. CASE /\ IngressReads(t)
               /\ task' = [task EXCEPT ![t].reply = "read", ![t].config = ingress]
      <3>1. Moves(t, task[t].at, "read")
        BY <2>4, TasksAre DEF Moves, Watched, SameCall, Handler
      <3> QED
        BY <2>4, <3>1 DEF IngressReads, Sent
    <2> QED
      BY <2>1, <2>2, <2>3, <2>4 DEF IngressReads
  <1>2. Placed(task'[t])
    BY <1>1 DEF Moves, AllPlaced, Placed
  <1> QED
    BY <1>1, <1>2

(* What a handler does with an answer.                                      *)
Goes(t, kinds, stage, then) ==
    /\ task[t].kind \in kinds /\ task[t].at = stage
    /\ Moves(t, then, "sent")

LEMMA HandlersGo ==
  ASSUME TypeInv, NEW t \in Task
  PROVE  /\ ExposeDnsDone(t) => Goes(t, {"expose"}, "dns", "ingress")
         /\ ExposeBinds(t) => \/ Goes(t, {"expose"}, "ingress", "oldIngress")
                              \/ Rests(t) /\ task[t].prev = NoDomain
         /\ ExposeThrows(t) \/ ExposeEnqueues(t) \/ DeleteEnds(t) => Rests(t)
         /\ ExposeCleans(t) => \/ Goes(t, {"expose"}, "oldIngress", "oldDns")
                               \/ task[t].at = "oldDns" /\ Rests(t)
         /\ IngressRemoved(t) => Goes(t, {"unexpose", "delete"}, "oldIngress", "oldDns")
         /\ DnsRemoved(t) => \/ Goes(t, {"delete"}, "oldDns", "stop")
                             \/ task[t].kind = "unexpose" /\ Rests(t)
         /\ UpdateRegisters(t) => Goes(t, {"update"}, "dns", "ingress") \/ Rests(t)
         /\ DrainCleaned(t) \/ DrainFailed(t) => Rests(t) \/ Cleaning(t)
  <1>1. ExposeDnsDone(t) => Goes(t, {"expose"}, "dns", "ingress")
    BY CallsIs DEF ExposeDnsDone, Ok, Goes
  <1>2. ExposeBinds(t) => \/ Goes(t, {"expose"}, "ingress", "oldIngress")
                          \/ Rests(t) /\ task[t].prev = NoDomain
    BY CallsIs, EndsIs DEF ExposeBinds, Ok, Goes
  <1>3. ExposeThrows(t) \/ ExposeEnqueues(t) \/ DeleteEnds(t) => Rests(t)
    BY EndsIs DEF ExposeThrows, ExposeEnqueues, DeleteEnds
  <1>4. ExposeCleans(t) => \/ Goes(t, {"expose"}, "oldIngress", "oldDns")
                           \/ task[t].at = "oldDns" /\ Rests(t)
    BY CallsIs, EndsIs DEF ExposeCleans, Ok, Goes
  <1>5. IngressRemoved(t) => Goes(t, {"unexpose", "delete"}, "oldIngress", "oldDns")
    BY CallsIs DEF IngressRemoved, Removing, Goes
  <1>6. DnsRemoved(t) => \/ Goes(t, {"delete"}, "oldDns", "stop")
                         \/ task[t].kind = "unexpose" /\ Rests(t)
    BY CallsIs, EndsIs DEF DnsRemoved, Removing, Goes
  <1>7. UpdateRegisters(t) => Goes(t, {"update"}, "dns", "ingress") \/ Rests(t)
    BY CallsIs, EndsIs DEF UpdateRegisters, Ok, Goes
  <1>8. DrainCleaned(t) \/ DrainFailed(t) => Rests(t) \/ Cleaning(t)
    BY CleansNextIs DEF DrainCleaned, DrainFailed
  <1> QED
    BY <1>1, <1>2, <1>3, <1>4, <1>5, <1>6, <1>7, <1>8

(* An edit goes on to its new domain. *)
LEMMA ReplacesIs ==
  ASSUME TypeInv, AllPlaced, NEW t \in Task, UpdateReplaces(t)
  PROVE  \/ Rests(t)
         \/ /\ task'[t].kind = "update" /\ task'[t].at = "dns" /\ task'[t].reply = "sent"
            /\ task'[t].svc = task[t].svc /\ task'[t].dom = task[t].dom
            /\ task'[t].prev = NoDomain
            /\ task'[t].alone => task[t].alone
            /\ ~IndexRefuses(task[t].svc, task[t].dom)
            /\ Entered(t)
  <1>1. CASE Ends(t)
    BY <1>1, EndsIs
  <1>2. CASE /\ ~IndexRefuses(task[t].svc, task[t].dom)
             /\ Begin(t, "update", "dns", task[t].svc, task[t].dom, NoDomain)
    BY <1>2, TaskFields, BeginIs DEF RequestKind, Stage
  <1> QED
    BY <1>1, <1>2 DEF UpdateReplaces

LEMMA StepPlaced ==
  ASSUME TypeInv, AllPlaced, NEW t \in Task, Step(t)
  PROVE  /\ Placed(task'[t])
         /\ \/ Rests(t) \/ Entered(t)
            \/ \E stage \in Stage, reply \in {"ok", "failed", "read", "sent"} : Moves(t, stage, reply)
  <1>0. task[t].at \in Stage /\ Placed(task[t])
    BY TasksAre DEF Handler, AllPlaced
  <1>1. CASE DnsCall(t) \/ IngressReads(t) \/ IngressWrites(t)
    BY <1>0, <1>1, CallsPlaced
  <1>2. ASSUME NEW kinds, NEW stage, NEW then \in Stage, Goes(t, kinds, stage, then),
               \/ kinds = {"expose"} /\ then \in {"ingress", "oldIngress", "oldDns"}
               \/ kinds = {"unexpose", "delete"} /\ then = "oldDns"
               \/ kinds = {"delete"} /\ then = "stop"
               \/ kinds = {"update"} /\ then = "ingress"
        PROVE  /\ Placed(task'[t])
               /\ \E place \in Stage, reply \in {"ok", "failed", "read", "sent"} :
                     Moves(t, place, reply)
    <2>1. Placed(task'[t])
      BY <1>0, <1>2 DEF Goes, Moves, Placed, RequestKind
    <2> QED
      BY <1>2, <2>1 DEF Goes
  <1>3. CASE Rests(t)
    BY <1>3, IdlePlaced DEF Rests
  <1>4. CASE Cleaning(t)
    BY <1>4 DEF Cleaning, Placed, CallOf, RequestKind
  <1>5. CASE UpdateReplaces(t)
    <2>1. task[t].svc \in Service
      BY <1>0, <1>5 DEF UpdateReplaces, Placed, RequestKind
    <2> QED
      BY <1>3, <1>5, <2>1, ReplacesIs DEF Placed
  <1>6. {"ingress", "oldIngress", "oldDns", "stop"} \subseteq Stage
    BY DEF Stage
  <1>7. CASE ExposeDnsDone(t)
    BY <1>2, <1>6, <1>7, HandlersGo
  <1>8. CASE ExposeBinds(t)
    BY <1>2, <1>3, <1>6, <1>8, HandlersGo
  <1>9. CASE ExposeCleans(t)
    BY <1>2, <1>3, <1>6, <1>9, HandlersGo
  <1>10. CASE IngressRemoved(t)
    BY <1>2, <1>6, <1>10, HandlersGo
  <1>11. CASE DnsRemoved(t)
    BY <1>2, <1>3, <1>6, <1>11, HandlersGo
  <1>12. CASE UpdateRegisters(t)
    BY <1>2, <1>3, <1>6, <1>12, HandlersGo
  <1>13. CASE ExposeThrows(t) \/ ExposeEnqueues(t) \/ DeleteEnds(t)
    BY <1>3, <1>13, HandlersGo
  <1>14. CASE DrainCleaned(t) \/ DrainFailed(t)
    BY <1>3, <1>4, <1>14, HandlersGo DEF Cleaning
  <1> QED
    BY <1>1, <1>5, <1>7, <1>8, <1>9, <1>10, <1>11, <1>12, <1>13, <1>14 DEF Step

(* What a request has when it begins. *)
Opens(t) ==
    /\ task[t] = Idle /\ Entered(t) /\ UNCHANGED <<route, queue, dead, dns, ingress>>
    /\ task'[t].reply = "sent" /\ Placed(task'[t])
    /\ task'[t].svc \in Service
    /\ \/ /\ task'[t].kind = "expose" /\ task'[t].at = "dns"
          /\ Free(task'[t].svc, task'[t].dom)
          /\ task'[t].prev = IF route[task'[t].svc] = task'[t].dom THEN NoDomain
                             ELSE route[task'[t].svc]
       \/ /\ task'[t].kind \in {"unexpose", "delete"} /\ task'[t].at \in {"oldIngress", "stop"}
          /\ task'[t].at = "stop" => route[task'[t].svc] = NoDomain
          /\ task'[t].dom = NoDomain /\ task'[t].prev = route[task'[t].svc]
       \/ /\ task'[t].kind = "update"
          /\ task'[t].dom # NoDomain => Free(task'[t].svc, task'[t].dom)
          /\ task'[t].prev = route[task'[t].svc]

LEMMA RequestOpens ==
  ASSUME TypeInv, NEW t \in Task, Request(t)
  PROVE  Opens(t)
  <1>0. \A s \in Service : route[s] \in Domain \cup {NoDomain}
    BY TypeInvSplit DEF Typed
  <1> USE DEF db, cloudflare, Arrives
  <1>1. ASSUME NEW s \in Service, Unexpose(t, s)
        PROVE  Opens(t)
    <2>1. /\ task'[t].kind = "unexpose" /\ task'[t].at = "oldIngress" /\ task'[t].reply = "sent"
          /\ task'[t].svc = s /\ task'[t].dom = NoDomain /\ task'[t].prev = route[s]
          /\ Entered(t)
      BY <1>0, <1>1, BeginIs DEF Unexpose, RequestKind, Stage
    <2> QED
      BY <1>1, <2>1 DEF Unexpose, Opens, Placed, RequestKind
  <1>2. ASSUME NEW s \in Service, Delete(t, s)
        PROVE  Opens(t)
    <2>1. /\ task'[t].kind = "delete" /\ task'[t].reply = "sent"
          /\ task'[t].at = (IF route[s] = NoDomain THEN "stop" ELSE "oldIngress")
          /\ task'[t].svc = s /\ task'[t].dom = NoDomain /\ task'[t].prev = route[s]
          /\ Entered(t)
      BY <1>0, <1>2, BeginIs DEF Delete, RequestKind, Stage
    <2> QED
      BY <1>2, <2>1 DEF Delete, Opens, Placed, RequestKind
  <1>3. ASSUME NEW s \in Service, NEW d \in Domain \cup {NoDomain}, Update(t, s, d)
        PROVE  Opens(t)
    <2>1. /\ task'[t].kind = "update" /\ task'[t].reply = "sent"
          /\ task'[t].at = (IF route[s] = NoDomain THEN "replace" ELSE "oldIngress")
          /\ task'[t].svc = s /\ task'[t].dom = d /\ task'[t].prev = route[s]
          /\ Entered(t)
      BY <1>0, <1>3, BeginIs DEF Update, RequestKind, Stage
    <2> QED
      BY <1>3, <2>1 DEF Update, Opens, Placed, RequestKind
  <1>4. ASSUME NEW s \in Service, NEW d \in Domain, Expose(t, s, d)
        PROVE  Opens(t)
    <2>1. /\ task'[t].kind = "expose" /\ task'[t].at = "dns" /\ task'[t].reply = "sent"
          /\ task'[t].svc = s /\ task'[t].dom = d
          /\ task'[t].prev = IF route[s] = d THEN NoDomain ELSE route[s]
          /\ Entered(t)
      BY <1>0, <1>4, BeginIs DEF Expose, RequestKind, Stage
    <2> QED
      BY <1>4, <2>1 DEF Expose, Opens, Placed, RequestKind
  <1> QED
    BY <1>1, <1>2, <1>3, <1>4 DEF Request

LEMMA DrainOpens ==
  ASSUME TypeInv, NEW t \in Task, Drain(t)
  PROVE  /\ Cleaning(t) /\ task[t] = Idle /\ UNCHANGED <<route, queue, dead, dns, ingress>>
         /\ Placed(task'[t])
  <1>1. PICK r \in queue : Cleans(t, r, queue \ {r})
    BY DEF Drain
  <1>2. queue \subseteq Row
    BY TypeInvSplit DEF Typed
  <1>3. Cleaning(t)
    BY <1>1, <1>2, CleansIs
  <1> QED
    BY <1>3 DEF Drain, db, cloudflare, Cleaning, Placed, CallOf, RequestKind

(* A task that is alone works on nothing that another works on.             *)
Alone == \A t, u \in Task : t # u /\ task[t].alone => ~Meets(task[t], task[u])

LEMMA AloneKept ==
  ASSUME Alone, NEW t \in Task,
         \/ Rests(t) \/ Entered(t)
         \/ \E stage \in Stage, reply \in {"ok", "failed", "read", "sent"} : Moves(t, stage, reply)
  PROVE  Alone'
  <1> SUFFICES ASSUME NEW u \in Task, NEW v \in Task, u # v, task'[u].alone
               PROVE  ~Meets(task'[u], task'[v])
    BY DEF Alone
  <1>1. \A w \in Task \ {t} : SameCall(task'[w], task[w]) /\ (task'[w].alone => task[w].alone)
    BY DEF Rests, Entered, Moves, Watched
  <1>2. CASE u # t /\ v # t
    BY <1>1, <1>2 DEF Alone, SameCall, Meets
  <1>3. CASE Rests(t) /\ (u = t \/ v = t)
    BY <1>3 DEF Rests, Idle, Meets
  <1>4. CASE Entered(t) /\ (u = t \/ v = t)
    BY <1>1, <1>4 DEF Entered, SameCall, Meets
  <1>5. ASSUME NEW stage, NEW reply, Moves(t, stage, reply), u = t \/ v = t
        PROVE  ~Meets(task'[u], task'[v])
    BY <1>1, <1>5 DEF Alone, Moves, SameCall, Meets
  <1> QED
    BY <1>2, <1>3, <1>4, <1>5

Placing == AllPlaced /\ Alone

LEMMA NextPlaced == TypeInv /\ Placing /\ [Next]_vars => Placing'
  <1> SUFFICES ASSUME TypeInv, AllPlaced, Alone, [Next]_vars
               PROVE  AllPlaced' /\ Alone'
    BY DEF Placing
  <1>1. ASSUME NEW t \in Task, Step(t) \/ Request(t) \/ Drain(t)
        PROVE  AllPlaced' /\ Alone'
    <2>1. /\ Placed(task'[t])
          /\ \/ Rests(t) \/ Entered(t)
             \/ \E stage \in Stage, reply \in {"ok", "failed", "read", "sent"} :
                   Moves(t, stage, reply)
      BY <1>1, StepPlaced, RequestOpens, DrainOpens DEF Opens, Cleaning
    <2>2. Watched(t)
      BY <2>1 DEF Rests, Entered, Moves
    <2> QED
      BY <2>1, <2>2, PlacedOthers, AloneKept
  <1>2. CASE Crash
    BY <1>2, IdlePlaced DEF Crash, AllPlaced, Alone, Meets, Idle
  <1>3. CASE UNCHANGED vars
    BY <1>3 DEF vars, AllPlaced, Alone
  <1> QED
    BY <1>1, <1>2, <1>3 DEF Next

------------------------------------------------------------------------------
(* What a handler that is alone can rely on.                                *)

(* Somebody will look at the cleanup, or it was not needed. *)
Waiting(k, d) == (\E r \in queue : r.kind = k /\ r.dom = d) \/ <<k, d>> \in dead
Handled(k, d) == ~Exists(k, d) \/ Waiting(k, d)

(* Its domains are not those of another service. *)
Owner(t) ==
    task[t].alone /\ task[t].kind \in RequestKind =>
        \A s \in Service \ {task[t].svc} :
            route[s] = NoDomain \/ route[s] \notin {task[t].dom, task[t].prev}

(* The service is routed as it was when the handler read its route. *)
Bound(t) ==
    task[t].alone =>
        /\ task[t].kind = "expose" /\ task[t].at \in {"dns", "ingress"} =>
            IF task[t].prev = NoDomain THEN route[task[t].svc] \in {task[t].dom, NoDomain}
            ELSE route[task[t].svc] = task[t].prev
        /\ task[t].kind \in {"unexpose", "delete"} => route[task[t].svc] = task[t].prev

(* What it removed is not there again. *)
Removed(t) ==
    task[t].alone =>
        /\ task[t].at = "oldIngress" /\ task[t].reply = "ok" => ingress[task[t].prev] = NoService
        /\ task[t].at = "oldDns" /\ task[t].reply = "ok" => task[t].prev \notin dns
        /\ /\ task[t].kind \in {"unexpose", "delete"} /\ task[t].at \in {"oldDns", "stop"}
           /\ task[t].prev # NoDomain
           => Handled("remove_ingress", task[t].prev)
        /\ task[t].at = "stop" /\ task[t].prev # NoDomain => Handled("delete_dns", task[t].prev)

Relied == \A t \in Task : Owner(t) /\ Bound(t) /\ Removed(t)

(* A handler changes what it works on. *)
Reach(t) ==
    /\ \A s \in Service :
        route'[s] = route[s] \/ (s = task[t].svc /\ route'[s] \in {NoDomain, task[t].dom})
    /\ \A d \in Domain \ {task[t].dom, task[t].prev} :
        ingress'[d] = ingress[d] /\ (d \in dns' <=> d \in dns)
    /\ \A k \in CleanupKind, d \in Domain :
        Waiting(k, d) => Waiting(k, d)' \/ (task[t].kind = "drain" /\ d = task[t].prev)

LEMMA EnqueuedWaits ==
  ASSUME NEW kinds, NEW d, queue' = Enqueued(kinds, d), UNCHANGED dead
  PROVE  /\ \A k \in kinds : Waiting(k, d)'
         /\ \A k, e : Waiting(k, e) => Waiting(k, e)'
  <1>1. queue \subseteq queue' /\ dead' = dead
    BY DEF Enqueued
  <1>2. ASSUME NEW k \in kinds
        PROVE  \E r \in queue' : r.kind = k /\ r.dom = d
    <2>1. NewRow(k, d).kind = k /\ NewRow(k, d).dom = d
      BY DEF NewRow
    <2>2. NewRow(k, d) \in queue' \/ \E q \in queue : SameRow(NewRow(k, d), q)
      BY DEF Enqueued
    <2> QED
      BY <1>1, <2>1, <2>2 DEF SameRow
  <1> QED
    BY <1>1, <1>2 DEF Waiting

LEMMA QueuedWaits ==
  ASSUME NEW t \in Task, NEW k, queue' = QueuedIfFailed(t, k), UNCHANGED dead
  PROVE  /\ \A d : task[t].reply = "failed" /\ d = task[t].prev => Waiting(k, d)'
         /\ \A j, e : Waiting(j, e) => Waiting(j, e)'
  <1>1. CASE task[t].reply = "failed"
    <2>1. PICK d : d = task[t].prev
      OBVIOUS
    <2>2. queue' = Enqueued({k}, d)
      BY <1>1, <2>1 DEF QueuedIfFailed
    <2> QED
      BY <2>1, <2>2, EnqueuedWaits
  <1>2. CASE task[t].reply # "failed"
    BY <1>2 DEF QueuedIfFailed, Waiting
  <1> QED
    BY <1>1, <1>2

(* A cleanup that failed goes on waiting. *)
LEMMA FailedWaits ==
  ASSUME TypeInv, AllPlaced, NEW t \in Task, DrainCleaned(t) \/ DrainFailed(t)
  PROVE  /\ task[t].kind = "drain" /\ task[t].job.kind \in CleanupKind
         /\ \A k \in CleanupKind, d \in Domain :
              Waiting(k, d) =>
                 \/ Waiting(k, d)'
                 \/ task[t].reply = "ok" /\ k = task[t].job.kind /\ d = task[t].prev
  <1>1. /\ task[t].kind = "drain" /\ task[t].job \in Row /\ task[t].prev = task[t].job.dom
        /\ task[t].job.kind \in CleanupKind
    BY TaskFields DEF DrainCleaned, DrainFailed, AllPlaced, Placed, Row
  <1>2. ASSUME NEW k \in CleanupKind, NEW d \in Domain, Waiting(k, d),
               k # task[t].job.kind \/ d # task[t].job.dom
        PROVE  Waiting(k, d)'
    BY <1>2 DEF Waiting, DrainCleaned, DrainFailed, Others, SameRow
  <1>3. ASSUME NEW k, NEW d, k = task[t].job.kind, d = task[t].job.dom, DrainFailed(t)
        PROVE  Waiting(k, d)'
    <2>1. PICK r : r = [task[t].job EXCEPT !.attempts = Bump(@)]
      OBVIOUS
    <2>2. r.kind = k /\ r.dom = d
      BY <1>1, <1>3, <2>1 DEF Row
    <2>3. <<k, d>> \in dead' \/ r \in queue'
      BY <1>3, <2>1 DEF DrainFailed
    <2> QED
      BY <2>2, <2>3 DEF Waiting
  <1> QED
    BY <1>1, <1>2, <1>3 DEF DrainCleaned

LEMMA StepReaches ==
  ASSUME TypeInv, ReadCurrent, AllPlaced, NEW t \in Task, Step(t)
  PROVE  Reach(t)
  <1>0. /\ route \in [Service -> Domain \cup {NoDomain}] /\ ingress \in Rules
        /\ task[t].config \in Rules
    BY TypeInvSplit, TaskFields DEF Typed
  <1> USE DEF db, cloudflare
  <1>1. \A s \in Service :
          route'[s] = route[s] \/ (s = task[t].svc /\ route'[s] \in {NoDomain, task[t].dom})
    <2>1. CASE UNCHANGED route
      BY <2>1
    <2>2. CASE ExposeBinds(t) \/ DnsRemoved(t) \/ DeleteEnds(t) \/ UpdateReplaces(t)
      BY <1>0, <2>2 DEF ExposeBinds, DnsRemoved, DeleteEnds, UpdateReplaces
    <2> QED
      BY <2>1, <2>2 DEF Step, DnsCall, IngressReads, IngressWrites, ExposeDnsDone, ExposeThrows,
                ExposeCleans, ExposeEnqueues, IngressRemoved, UpdateRegisters, DrainCleaned,
                DrainFailed
  <1>2. \A d \in Domain \ {task[t].dom, task[t].prev} :
          ingress'[d] = ingress[d] /\ (d \in dns' <=> d \in dns)
    <2>1. CASE UNCHANGED <<ingress, dns>>
      BY <2>1
    <2>2. CASE DnsCall(t)
      BY <2>2 DEF DnsCall
    <2>3. CASE IngressWrites(t)
      <3>1. task[t].config = ingress
        BY <2>3 DEF IngressWrites, ReadCurrent
      <3> QED
        BY <1>0, <2>3, <3>1 DEF IngressWrites, Rules
    <2> QED
      BY <2>1, <2>2, <2>3 DEF Step, IngressReads, ExposeDnsDone, ExposeBinds, ExposeThrows,
                ExposeCleans, ExposeEnqueues, IngressRemoved, DnsRemoved, DeleteEnds,
                UpdateReplaces, UpdateRegisters, DrainCleaned, DrainFailed
  <1>3. \A k \in CleanupKind, d \in Domain :
          Waiting(k, d) => Waiting(k, d)' \/ (task[t].kind = "drain" /\ d = task[t].prev)
    <2>1. CASE UNCHANGED <<queue, dead>>
      BY <2>1 DEF Waiting
    <2>2. CASE ExposeEnqueues(t)
      BY <2>2, EnqueuedWaits DEF ExposeEnqueues
    <2>3. CASE IngressRemoved(t) \/ DnsRemoved(t)
      BY <2>3, QueuedWaits DEF IngressRemoved, DnsRemoved
    <2>4. CASE DrainCleaned(t) \/ DrainFailed(t)
      BY <2>4, FailedWaits
    <2> QED
      BY <2>1, <2>2, <2>3, <2>4 DEF Step, DnsCall, IngressReads, IngressWrites, ExposeDnsDone,
                ExposeBinds, ExposeThrows, ExposeCleans, DeleteEnds, UpdateReplaces,
                UpdateRegisters
  <1> QED
    BY <1>1, <1>2, <1>3 DEF Reach

(* A handler that is alone relies on what no other handler changes.         *)
LEMMA OthersRely ==
  ASSUME TypeInv, Placing, Relied, NEW t \in Task, Watched(t), Reach(t), NEW u \in Task, u # t
  PROVE  Owner(u)' /\ Bound(u)' /\ Removed(u)'
  <1>0. SUFFICES ASSUME task'[u].alone
                 PROVE  Owner(u)' /\ Bound(u)' /\ Removed(u)'
    BY DEF Owner, Bound, Removed
  <1>1. /\ SameCall(task'[u], task[u]) /\ task[u].alone
        /\ Owner(u) /\ Bound(u) /\ Removed(u) /\ Placed(task[u])
    BY <1>0 DEF Watched, Relied, Placing, AllPlaced
  <1>2. /\ task[u].svc # NoService => task[u].svc # task[t].svc
        /\ \A d \in {task[u].dom, task[u].prev} \ {NoDomain} : d \notin {task[t].dom, task[t].prev}
    BY <1>1 DEF Placing, Alone, Meets
  <1>3. task[u].kind \in RequestKind => task[u].svc \in Service /\ task[u].svc # NoService
    BY <1>1, NamesAssumption DEF Placed
  <1>4. Owner(u)'
    BY <1>1, <1>2 DEF Owner, SameCall, Reach
  <1>5. Bound(u)'
    <2>1. task[u].kind \in RequestKind => route'[task[u].svc] = route[task[u].svc]
      BY <1>2, <1>3 DEF Reach
    <2> QED
      BY <1>1, <2>1 DEF Bound, SameCall, RequestKind
  <1>6. Removed(u)'
    <2>1. task[u].prev # NoDomain => task[u].prev \in Domain
      BY TaskFields
    <2>2. ASSUME NEW d, d = task[u].prev, d # NoDomain
          PROVE  /\ ingress'[d] = ingress[d] /\ (d \in dns' <=> d \in dns)
                 /\ \A k \in CleanupKind : Waiting(k, d) => Waiting(k, d)'
                 /\ \A k \in CleanupKind : Handled(k, d) => Handled(k, d)'
      <3>1. /\ d \in Domain \ {task[t].dom, task[t].prev}
        BY <1>2, <2>1, <2>2
      <3>2. /\ ingress'[d] = ingress[d] /\ (d \in dns' <=> d \in dns)
            /\ \A k \in CleanupKind : Waiting(k, d) => Waiting(k, d)'
        BY <3>1 DEF Reach
      <3> QED
        BY <3>2 DEF Handled, Exists
    <2>3. task[u].at \in {"oldIngress", "oldDns"} => task[u].prev # NoDomain
      BY TaskFields, NamesAssumption
    <2>4. PICK d : d = task[u].prev
      OBVIOUS
    <2>5. {"remove_ingress", "delete_dns"} \subseteq CleanupKind
      BY DEF CleanupKind
    <2> QED
      BY <1>1, <2>2, <2>3, <2>4, <2>5 DEF Removed, SameCall
  <1> QED
    BY <1>4, <1>5, <1>6

(* What t itself relies on after its step.                                  *)
LEMMA OwnRoutes ==
  ASSUME TypeInv, ReadCurrent, Placing, Relied, NEW t \in Task, Step(t)
  PROVE  Owner(t)' /\ Bound(t)'
  <1>0. Placed(task[t]) /\ Owner(t) /\ Bound(t) /\ Reach(t)
    BY StepReaches DEF Placing, AllPlaced, Relied
  <1>1. CASE Rests(t)
    BY <1>1 DEF Rests, Idle, Owner, Bound, RequestKind
  <1>2. CASE Cleaning(t)
    BY <1>2 DEF Cleaning, Owner, Bound, RequestKind
  <1>3. CASE UpdateReplaces(t) /\ ~Rests(t)
    <2>1. /\ task'[t].kind = "update" /\ task'[t].svc = task[t].svc
          /\ task'[t].dom = task[t].dom /\ task'[t].prev = NoDomain
          /\ ~IndexRefuses(task[t].svc, task[t].dom)
      BY <1>3, ReplacesIs DEF Placing
    <2>2. \A s \in Service \ {task[t].svc} : route'[s] = NoDomain \/ route'[s] # task[t].dom
      BY <1>0, <2>1 DEF Reach, IndexRefuses, Taken
    <2> QED
      BY <2>1, <2>2 DEF Owner, Bound
  <1>4. ASSUME NEW stage, NEW reply, Moves(t, stage, reply)
        PROVE  Owner(t)'
    BY <1>0, <1>4 DEF Moves, Owner, Reach
  <1>5. ASSUME NEW stage, NEW reply, Moves(t, stage, reply), ~UpdateReplaces(t)
        PROVE  Bound(t)'
    <2>1. CASE ExposeBinds(t)
      <3>1. task[t].kind = "expose" /\ (Rests(t) \/ task'[t].at = "oldIngress")
        BY <2>1, HandlersGo DEF ExposeBinds, Ok, Goes, Moves
      <3> QED
        BY <1>1, <1>5, <3>1 DEF Bound, Moves
    <2>2. CASE DeleteEnds(t) \/ (DnsRemoved(t) /\ task[t].kind = "unexpose")
      <3>1. Rests(t)
        BY <2>2, HandlersGo DEF Goes
      <3> QED
        BY <1>1, <3>1
    <2>3. CASE route' = route
      <3>1. task'[t].at \in {"dns", "ingress"} /\ task[t].kind = "expose" =>
              task[t].at \in {"dns", "ingress"}
        <4>1. CASE DnsCall(t) \/ IngressReads(t) \/ IngressWrites(t)
          BY <4>1, CallsPlaced DEF Placing, Moves
        <4>2. CASE ~(DnsCall(t) \/ IngressReads(t) \/ IngressWrites(t))
          BY <1>5, <4>2, HandlersGo DEF Step, Goes, Moves, Rests, Idle, Cleaning
        <4> QED
          BY <4>1, <4>2
      <3> QED
        BY <1>0, <1>5, <2>3, <3>1 DEF Bound, Moves
    <2>4. route' = route \/ ExposeBinds(t) \/ DnsRemoved(t) \/ DeleteEnds(t)
      BY <1>5 DEF Step, DnsCall, IngressReads, IngressWrites, ExposeDnsDone, ExposeThrows,
                ExposeCleans, ExposeEnqueues, IngressRemoved, UpdateRegisters, DrainCleaned,
                DrainFailed, db
    <2>5. DnsRemoved(t) => task[t].kind = "unexpose" \/ route' = route
      BY DEF DnsRemoved, Removing
    <2> QED
      BY <2>1, <2>2, <2>3, <2>4, <2>5
  <1>6. Entered(t) => UpdateReplaces(t) \/ Cleaning(t) \/ Rests(t)
                      \/ \E stage, reply : Moves(t, stage, reply)
    <2>1. CASE DnsCall(t) \/ IngressReads(t) \/ IngressWrites(t)
      BY <2>1, CallsPlaced DEF Placing
    <2> QED
      BY <2>1, HandlersGo DEF Step, Goes
  <1> QED
    BY <1>1, <1>2, <1>3, <1>4, <1>5, <1>6, StepPlaced DEF Placing

LEMMA OwnRemovals ==
  ASSUME TypeInv, ReadCurrent, Placing, Relied, NEW t \in Task, Step(t)
  PROVE  Removed(t)'
  <1>0. Placed(task[t]) /\ Removed(t)
    BY DEF Placing, AllPlaced, Relied
  <1>1. PICK p : p = task[t].prev
    OBVIOUS
  <1>2. p \in Domain \/ p = NoDomain
    BY <1>1, TaskFields
  <1> USE DEF db, cloudflare
  <1>3. CASE Rests(t)
    BY <1>3 DEF Rests, Idle, Removed
  <1>4. CASE Cleaning(t)
    BY <1>4 DEF Cleaning, Removed, CallOf
  <1>5. CASE UpdateReplaces(t)
    BY <1>3, <1>5, ReplacesIs DEF Placing, Removed
  <1>6. CASE ExposeDnsDone(t) \/ ExposeBinds(t) \/ ExposeCleans(t) \/ UpdateRegisters(t)
    <2>1. Rests(t) \/ /\ task'[t].kind \in {"expose", "update"} /\ task'[t].reply = "sent"
                      /\ task'[t].at # "stop"
      BY <1>6, HandlersGo DEF Goes, Moves
    <2> QED
      BY <1>3, <2>1 DEF Removed
  <1>7. CASE IngressRemoved(t)
    <2>1. /\ Moves(t, "oldDns", "sent") /\ task[t].at = "oldIngress"
          /\ task[t].reply \in {"ok", "failed"}
      BY <1>7, HandlersGo DEF Goes, IngressRemoved
    <2>2. task[t].alone => Handled("remove_ingress", p)'
      <3>1. CASE task[t].reply = "ok"
        BY <1>0, <1>1, <1>7, <2>1, <3>1 DEF IngressRemoved, Removed, Handled, Exists
      <3>2. CASE task[t].reply = "failed"
        BY <1>1, <1>7, <3>2, QueuedWaits DEF IngressRemoved, Handled
      <3> QED
        BY <2>1, <3>1, <3>2
    <2> QED
      BY <1>1, <2>1, <2>2 DEF Removed, Moves
  <1>8. CASE DnsRemoved(t)
    <2>1. CASE Goes(t, {"delete"}, "oldDns", "stop")
      <3>1. \A k : Waiting(k, p) => Waiting(k, p)'
        BY <1>8, QueuedWaits DEF DnsRemoved
      <3>2. task[t].alone /\ p # NoDomain => Handled("remove_ingress", p)'
        BY <1>0, <1>1, <1>8, <2>1, <3>1 DEF Goes, DnsRemoved, Removed, Handled, Exists
      <3>3. task[t].alone => Handled("delete_dns", p)'
        <4>1. CASE task[t].reply = "ok"
          BY <1>0, <1>1, <1>8, <2>1, <4>1 DEF Goes, DnsRemoved, Removed, Handled, Exists
        <4>2. CASE task[t].reply = "failed"
          BY <1>1, <1>8, <4>2, QueuedWaits DEF DnsRemoved, Handled
        <4> QED
          BY <1>8, <4>1, <4>2 DEF DnsRemoved
      <3> QED
        BY <1>1, <2>1, <3>2, <3>3 DEF Goes, Moves, Removed
    <2> QED
      BY <1>3, <1>8, <2>1, HandlersGo
  <1>9. CASE DnsCall(t)
    <2>1. PICK reply \in {"ok", "failed"} : Answered(t, reply)
      BY <1>9 DEF DnsCall
    <2>2. Moves(t, task[t].at, reply) /\ task[t].at \in {"dns", "oldDns"}
      BY <1>9, <2>1, AnsweredIs DEF DnsCall, Sent
    <2>3. Handled("remove_ingress", p) => Handled("remove_ingress", p)'
      BY <1>9 DEF DnsCall, Handled, Exists, Waiting
    <2>4. task'[t].reply = "ok" /\ task[t].at = "oldDns" => p \notin dns'
      BY <1>1, <1>9, <2>2, TasksAre DEF DnsCall, Answered, Moves, Handler
    <2> QED
      BY <1>0, <1>1, <2>2, <2>3, <2>4 DEF Moves, Removed
  <1>10. CASE IngressReads(t) \/ IngressWrites(t)
    <2>1. PICK reply \in {"ok", "failed", "read"} : Moves(t, task[t].at, reply)
      BY <1>10, CallsPlaced DEF Placing
    <2>2. task[t].at \in {"ingress", "oldIngress"}
      BY <1>0, <1>10 DEF IngressReads, IngressWrites, Sent, Placed
    <2>3. task'[t].reply = "ok" /\ task[t].at = "oldIngress" => ingress'[p] = NoService
      <3>1. CASE IngressReads(t)
        BY <2>1, <3>1, TasksAre DEF IngressReads, Answered, Moves, Handler
      <3>2. CASE IngressWrites(t)
        <4>1. PICK done \in BOOLEAN, answers \in BOOLEAN :
                 /\ answers => done
                 /\ Answered(t, IF answers THEN "ok" ELSE "failed")
                 /\ ingress' = IF ~done THEN ingress
                      ELSE IF task[t].at = "ingress"
                      THEN [task[t].config EXCEPT ![task[t].dom] = task[t].svc]
                      ELSE [task[t].config EXCEPT ![task[t].prev] = NoService]
          BY <3>2 DEF IngressWrites
        <4>2. task'[t].reply = "ok" => answers
          BY <4>1, TasksAre DEF Answered, Handler
        <4>3. task[t].at = "oldIngress" => p \in DOMAIN task[t].config
          BY <1>1, TaskFields DEF Rules
        <4> QED
          BY <1>1, <4>1, <4>2, <4>3
      <3> QED
        BY <1>10, <3>1, <3>2
    <2> QED
      BY <1>1, <2>1, <2>2, <2>3 DEF Moves, Removed
  <1>11. ExposeThrows(t) \/ ExposeEnqueues(t) \/ DeleteEnds(t) => Rests(t)
    BY HandlersGo
  <1>12. DrainCleaned(t) \/ DrainFailed(t) => Rests(t) \/ Cleaning(t)
    BY HandlersGo
  <1> QED
    BY <1>3, <1>4, <1>5, <1>6, <1>7, <1>8, <1>9, <1>10, <1>11, <1>12 DEF Step

LEMMA OpenRelies ==
  ASSUME TypeInv, RoutesUnique, NEW t \in Task, Opens(t) \/ (Cleaning(t) /\ UNCHANGED route)
  PROVE  Owner(t)' /\ Bound(t)' /\ Removed(t)'
  <1>1. CASE Cleaning(t)
    BY <1>1 DEF Cleaning, Owner, Bound, Removed, CallOf, RequestKind
  <1>2. CASE Opens(t)
    <2>1. /\ task'[t].reply = "sent" /\ task'[t].svc \in Service /\ UNCHANGED route
          /\ task'[t].at = "oldDns" => task'[t].kind \in {"expose", "update"}
      BY <1>2 DEF Opens
    <2>2. Owner(t)'
      BY <1>2, <2>1 DEF Opens, Owner, Free, Taken, RoutesUnique
    <2>3. Bound(t)'
      BY <1>2, <2>1 DEF Opens, Bound
    <2>4. Removed(t)'
      <3>1. /\ task'[t].at = "stop" => task'[t].prev = NoDomain
            /\ task'[t].kind \in {"unexpose", "delete"} => task'[t].at # "oldDns"
        BY <1>2 DEF Opens, Placed
      <3> QED
        BY <2>1, <3>1 DEF Removed
    <2> QED
      BY <2>2, <2>3, <2>4
  <1> QED
    BY <1>1, <1>2

(* All of it is inductive. *)
Binding == TypeInv /\ RoutesUnique /\ ReadCurrent /\ Placing /\ Relied

LEMMA NextRelied == Binding /\ [Next]_vars => Relied'
  <1> SUFFICES ASSUME Binding, [Next]_vars
               PROVE  Relied'
    OBVIOUS
  <1> USE DEF Binding
  <1>1. ASSUME NEW t \in Task, Step(t)
        PROVE  Relied'
    <2>1. Reach(t) /\ Owner(t)' /\ Bound(t)' /\ Removed(t)'
      BY <1>1, StepReaches, OwnRoutes, OwnRemovals DEF Placing
    <2>2. Watched(t)
      BY <1>1, StepPlaced DEF Rests, Entered, Moves, Placing
    <2> QED
      BY <2>1, <2>2, OthersRely DEF Relied
  <1>2. ASSUME NEW t \in Task, Request(t) \/ Drain(t)
        PROVE  Relied'
    <2>1. /\ Opens(t) \/ Cleaning(t)
          /\ UNCHANGED <<route, queue, dead, dns, ingress>>
      BY <1>2, RequestOpens, DrainOpens DEF Opens
    <2>2. Reach(t)
      BY <2>1 DEF Reach, Waiting
    <2>3. Watched(t)
      BY <2>1 DEF Opens, Cleaning, Entered
    <2> QED
      BY <2>1, <2>2, <2>3, OpenRelies, OthersRely DEF Relied
  <1>3. CASE Crash
    BY <1>3 DEF Crash, Relied, Owner, Bound, Removed, Idle, RequestKind
  <1>4. CASE UNCHANGED vars
    BY <1>4 DEF vars, Relied, Owner, Bound, Removed, Handled, Exists, Waiting
  <1> QED
    BY <1>1, <1>2, <1>3, <1>4 DEF Next

LEMMA InitBinding == Init => Binding
  <1> SUFFICES ASSUME Init
               PROVE  Binding
    OBVIOUS
  <1>1. \A t \in Task : task[t] = Idle
    BY DEF Init
  <1>2. Placing
    BY <1>1, IdlePlaced DEF Placing, AllPlaced, Alone, Meets, Idle
  <1>3. Relied
    BY <1>1 DEF Relied, Owner, Bound, Removed, Idle, RequestKind
  <1> QED
    BY <1>1, <1>2, <1>3, InitTyped DEF Init, Binding, ReadCurrent, Idle

(* The two halves of RoutesStayUnique and NextPlaced, together. *)
LEMMA AlwaysBinding == Spec => []Binding
  <1>1. TypeInv /\ ReadCurrent /\ Placing /\ RoutesUnique /\ Relied <=> Binding
    BY DEF Binding
  <1> QED
    BY <1>1, InitBinding, InitTyped, NextTyped, NextReadCurrent, NextPlaced, NextRelied,
       RoutesStayUnique, PTL DEF Spec

------------------------------------------------------------------------------
(* Outages and orphans.                                                     *)

(* The only writers of records and of rules. *)
LEMMA CloudSteps ==
  ASSUME TypeInv, [Next]_vars, dns' # dns \/ ingress' # ingress
  PROVE  \E t \in Task : DnsCall(t) \/ IngressWrites(t)
  <1> USE DEF db, cloudflare
  <1>1. ASSUME NEW t \in Task, Step(t)
        PROVE  DnsCall(t) \/ IngressWrites(t)
    BY <1>1 DEF Step, IngressReads, ExposeDnsDone, ExposeBinds, ExposeThrows, ExposeCleans,
                ExposeEnqueues, IngressRemoved, DnsRemoved, DeleteEnds, UpdateReplaces,
                UpdateRegisters, DrainCleaned, DrainFailed
  <1>2. ASSUME NEW t \in Task, Request(t) \/ Drain(t)
        PROVE  FALSE
    BY <1>2, RequestOpens, DrainOpens DEF Opens
  <1> QED
    BY <1>1, <1>2 DEF Next, Crash, vars

(* A domain that is bound and served loses its record or its rule to a      *)
(* handler of its own service, a drain, or handlers that overlapped, and to *)
(* nobody else (routes/cloudflare.ts:342, routes/services.ts:1203).         *)
THEOREM OutagesAreKnown == Spec => OnlyKnownOutages
  <1>1. Binding /\ [Next]_vars =>
          [\A s \in Service, d \in Domain : Served(s, d) /\ route'[s] = d =>
             \/ Served(s, d)'
             \/ \E t \in Task :
                 /\ DnsCall(t) \/ IngressWrites(t)
                 /\ task[t].svc = s \/ task[t].kind = "drain" \/ ~task[t].alone]_vars
    <2> SUFFICES ASSUME Binding, [Next]_vars, NEW s \in Service, NEW d \in Domain,
                        Served(s, d), route'[s] = d, ~Served(s, d)'
                 PROVE  \E t \in Task :
                          /\ DnsCall(t) \/ IngressWrites(t)
                          /\ task[t].svc = s \/ task[t].kind = "drain" \/ ~task[t].alone
      OBVIOUS
    <2> USE DEF Binding
    <2>1. dns' # dns \/ ingress' # ingress
      BY DEF Served
    <2>2. PICK t \in Task : DnsCall(t) \/ IngressWrites(t)
      BY <2>1, CloudSteps
    <2>3. SUFFICES ASSUME task[t].svc # s, task[t].kind # "drain", task[t].alone
                   PROVE  FALSE
      BY <2>2
    <2>4. d \in {task[t].dom, task[t].prev}
      <3>1. Reach(t)
        BY <2>2, StepReaches DEF Step, Placing
      <3> QED
        BY <3>1 DEF Reach, Served
    <2>5. task[t].kind \in RequestKind
      <3>1. task[t].at \in {"dns", "oldDns", "ingress", "oldIngress"} /\ Placed(task[t])
        BY <2>2 DEF DnsCall, IngressWrites, Sent, Placing, AllPlaced, Placed
      <3> QED
        BY <2>3, <3>1 DEF Placed, RequestKind
    <2>6. route[s] = d /\ d # NoDomain
      BY NamesAssumption DEF Served
    <2> QED
      BY <2>3, <2>4, <2>5, <2>6 DEF Relied, Owner
  <1> QED
    BY <1>1, AlwaysBinding, PTL DEF Spec, OnlyKnownOutages

(* A handler that is to remove d, or to bind it. *)
Minds(t, k, d) ==
    \/ /\ task[t].kind = "expose" /\ task[t].dom = d
       /\ task[t].at \in {"dns", "ingress"}
    \/ /\ task[t].kind \in {"expose", "unexpose", "delete"} /\ task[t].prev = d
       /\ task[t].at \in {"oldIngress", CallOf(k)}

LEMMA ExpectedIs ==
  ASSUME NEW k, NEW d
  PROVE  Expected(k, d) <=> Waiting(k, d) \/ \E t \in Task : Minds(t, k, d)
  BY DEF Expected, Waiting, Minds

(* What has to be shown of the step of a handler. *)
LEMMA OrphanFrom ==
  ASSUME NEW k \in CleanupKind, NEW d \in Domain, ~Orphan(k, d), Orphan(k, d)',
         NEW t \in Task, Watched(t),
         Waiting(k, d) => Waiting(k, d)',
         Exists(k, d)' => Exists(k, d)
  PROVE  ~Minds(t, k, d)' /\ Exists(k, d)
         /\ (Minds(t, k, d) \/ (Routed(d) /\ ~Routed(d)'))
  <1>0. Expected(k, d)' <=> Waiting(k, d)' \/ \E u \in Task : Minds(u, k, d)'
    BY DEF Expected, Waiting, Minds
  <1>1. /\ ~Waiting(k, d)' /\ Exists(k, d) /\ ~Routed(d)'
        /\ \A u \in Task : ~Minds(u, k, d)'
    BY <1>0 DEF Orphan
  <1>2. \A u \in Task \ {t} : Minds(u, k, d) => Minds(u, k, d)'
    BY DEF Watched, SameCall, Minds
  <1>3. CASE Routed(d)
    BY <1>1, <1>3
  <1>4. CASE ~Routed(d)
    <2>1. PICK u \in Task : Minds(u, k, d)
      BY <1>1, <1>4, ExpectedIs DEF Orphan
    <2> QED
      BY <1>1, <1>2, <2>1
  <1> QED
    BY <1>1, <1>3, <1>4

LEMMA OrphanIs ==
  ASSUME NEW k, NEW d, Orphan(k, d)'
  PROVE  /\ Exists(k, d)' /\ ~Routed(d)' /\ ~Waiting(k, d)'
         /\ \A t \in Task : ~Minds(t, k, d)'
  BY DEF Orphan, Expected, Waiting, Minds

(* Calls of Cloudflare. *)
LEMMA CallsLeaveNoOrphan ==
  ASSUME Binding, NEW k \in CleanupKind, NEW d \in Domain, NEW t \in Task,
         DnsCall(t) \/ IngressReads(t) \/ IngressWrites(t),
         task[t].kind # "update", ~Orphan(k, d), Orphan(k, d)'
  PROVE  FALSE
  <1> USE DEF Binding, db, cloudflare
  <1>1. PICK reply \in {"ok", "failed", "read"} : Moves(t, task[t].at, reply)
    BY CallsPlaced DEF Placing
  <1>2. Minds(t, k, d)' <=> Minds(t, k, d)
    BY <1>1 DEF Moves, Minds
  <1>3. UNCHANGED <<route, queue, dead>> /\ Watched(t)
    BY <1>1 DEF DnsCall, IngressReads, IngressWrites, Moves
  <1>4. (Waiting(k, d)' <=> Waiting(k, d)) /\ (Routed(d)' <=> Routed(d))
    BY <1>3 DEF Waiting, Routed
  <1>5. Exists(k, d)
    <2>1. SUFFICES ASSUME ~Exists(k, d)
                   PROVE  FALSE
      OBVIOUS
    <2>2. Exists(k, d)' /\ ~Minds(t, k, d)'
      BY OrphanIs
    <2>3. task[t].at \in {"dns", "ingress"} /\ task[t].dom = d
      <3>1. CASE DnsCall(t)
        BY <2>1, <2>2, <3>1 DEF DnsCall, Sent, Exists
      <3>2. CASE IngressWrites(t)
        <4>1. task[t].config = ingress /\ ingress \in Rules
          BY <3>2, TypeInvSplit DEF IngressWrites, ReadCurrent, Typed
        <4>2. task[t].at \in {"ingress", "oldIngress"}
          BY <3>2 DEF IngressWrites, Placing, AllPlaced, Placed
        <4> QED
          BY <2>1, <2>2, <3>2, <4>1, <4>2 DEF IngressWrites, Exists, Rules
      <3> QED
        BY <2>1, <2>2, <3>1, <3>2 DEF IngressReads, Exists
    <2>4. task[t].kind = "expose"
      BY <2>3 DEF Placing, AllPlaced, Placed
    <2> QED
      BY <1>2, <2>2, <2>3, <2>4 DEF Minds
  <1> QED
    BY <1>2, <1>3, <1>4, <1>5, OrphanFrom

(* Handlers that are alone. *)
LEMMA HandlersLeaveNoOrphan ==
  ASSUME Binding, NEW k \in CleanupKind, NEW d \in Domain, NEW t \in Task,
         Step(t), ~(DnsCall(t) \/ IngressReads(t) \/ IngressWrites(t)),
         ~ExposeThrows(t), task[t].kind # "update", task[t].alone,
         ~Orphan(k, d), Orphan(k, d)'
  PROVE  FALSE
  <1> USE DEF Binding, db, cloudflare
  <1>1. /\ Watched(t) /\ Reach(t) /\ Placed(task[t]) /\ Bound(t) /\ Removed(t)
    BY StepPlaced, StepReaches DEF Rests, Entered, Moves, Placing, AllPlaced, Relied
  <1>2. /\ UNCHANGED <<dns, ingress>> /\ Exists(k, d) /\ Exists(k, d)'
        /\ ~Routed(d)' /\ ~Waiting(k, d)' /\ ~Minds(t, k, d)'
    <2>1. UNCHANGED <<dns, ingress>>
      BY DEF Step, ExposeDnsDone, ExposeBinds, ExposeCleans, ExposeEnqueues, IngressRemoved,
             DnsRemoved, DeleteEnds, UpdateReplaces, UpdateRegisters, DrainCleaned, DrainFailed
    <2> QED
      BY <2>1, OrphanIs DEF Exists
  <1>3. d # NoDomain /\ k \in {"remove_ingress", "delete_dns"}
    BY NamesAssumption DEF CleanupKind
  <1>4. Exists(k, d) => (k = "remove_ingress" => ingress[d] # NoService)
                        /\ (k = "delete_dns" => d \in dns)
    BY <1>3 DEF Exists
  <1>5. CASE DrainCleaned(t) \/ DrainFailed(t)
    <2>1. /\ task[t].kind = "drain" /\ UNCHANGED route
          /\ Waiting(k, d) =>
               \/ Waiting(k, d)'
               \/ task[t].reply = "ok" /\ k = task[t].job.kind /\ d = task[t].prev
      BY <1>5, FailedWaits DEF DrainCleaned, DrainFailed, Placing
    <2>2. task[t].reply = "ok" /\ k = task[t].job.kind /\ d = task[t].prev => ~Exists(k, d)
      BY <1>1, <1>3, <2>1 DEF Placed, Removed, CallOf, Exists
    <2>3. Waiting(k, d) => Waiting(k, d)'
      BY <1>2, <2>1, <2>2
    <2>4. ~Minds(t, k, d) /\ ~(Routed(d) /\ ~Routed(d)')
      BY <2>1 DEF Minds, Routed
    <2> QED
      BY <1>1, <1>2, <2>3, <2>4, OrphanFrom
  <1>6. CASE ~(DrainCleaned(t) \/ DrainFailed(t))
    <2>0. Waiting(k, d) => Waiting(k, d)'
      <3>1. task[t].kind # "drain"
        BY <1>6 DEF Step, ExposeDnsDone, ExposeBinds, ExposeCleans, ExposeEnqueues, Ok, Failed,
             IngressRemoved, DnsRemoved, DeleteEnds, UpdateReplaces, UpdateRegisters, Removing
      <3> QED
        BY <1>1, <3>1 DEF Reach
    <2>1. Minds(t, k, d) \/ (Routed(d) /\ ~Routed(d)')
      BY <1>1, <1>2, <2>0, OrphanFrom
    <2>2. Routed(d) /\ ~Routed(d)' => route[task[t].svc] = d /\ task[t].svc \in Service
      BY <1>1 DEF Routed, Reach
    <2>3. route' = route => ~(Routed(d) /\ ~Routed(d)')
      BY DEF Routed
    <2>4. CASE ExposeDnsDone(t)
      <3>1. Goes(t, {"expose"}, "dns", "ingress") /\ UNCHANGED route
        BY <2>4, HandlersGo DEF ExposeDnsDone
      <3> QED
        BY <1>2, <2>1, <2>3, <3>1 DEF Goes, Moves, Minds, CallOf
    <2>5. CASE ExposeBinds(t)
      <3>1. /\ task[t].kind = "expose" /\ task[t].at = "ingress"
            /\ route' = [route EXCEPT ![task[t].svc] = task[t].dom]
        BY <2>5 DEF ExposeBinds, Ok
      <3>2. task[t].svc \in Service /\ route \in [Service -> Domain \cup {NoDomain}]
        BY <1>1, <3>1, TypeInvSplit DEF Placed, RequestKind, Typed
      <3>3. task[t].dom # d
        BY <1>2, <3>1, <3>2 DEF Routed
      <3>4. route[task[t].svc] = d
        BY <2>1, <2>2, <3>1, <3>3 DEF Minds, CallOf
      <3>5. task[t].prev = d
        BY <1>1, <1>3, <3>1, <3>3, <3>4 DEF Bound
      <3>6. Goes(t, {"expose"}, "ingress", "oldIngress")
        BY <1>3, <2>5, <3>5, HandlersGo
      <3> QED
        BY <1>2, <3>5, <3>6 DEF Goes, Moves, Minds
    <2>6. CASE ExposeCleans(t)
      <3>1. /\ task[t].kind = "expose" /\ task[t].reply = "ok" /\ UNCHANGED route
            /\ task[t].at \in {"oldIngress", "oldDns"}
        BY <2>6 DEF ExposeCleans, Ok
      <3>2. task[t].prev = d /\ task[t].at \in {"oldIngress", CallOf(k)}
        BY <2>1, <2>3, <3>1 DEF Minds
      <3>3. CASE task[t].at = "oldIngress"
        <4>1. k = "delete_dns"
          BY <1>1, <1>2, <1>3, <1>4, <3>1, <3>2, <3>3 DEF Removed
        <4>2. Goes(t, {"expose"}, "oldIngress", "oldDns")
          BY <2>6, <3>3, HandlersGo
        <4> QED
          BY <1>2, <3>2, <4>1, <4>2 DEF Goes, Moves, Minds, CallOf
      <3>4. CASE task[t].at = "oldDns"
        BY <1>1, <1>2, <1>3, <1>4, <3>1, <3>2, <3>4 DEF Removed, CallOf
      <3> QED
        BY <3>1, <3>3, <3>4
    <2>7. CASE ExposeEnqueues(t)
      <3>1. /\ task[t].at \in {"oldIngress", "oldDns"}
            /\ UNCHANGED <<route, dead>> /\ queue' = Enqueued(CleanupKind, task[t].prev)
        BY <2>7 DEF ExposeEnqueues, Failed
      <3>2. task[t].prev = d
        BY <2>1, <2>3, <3>1 DEF Minds
      <3> QED
        BY <1>2, <3>1, <3>2, EnqueuedWaits
    <2>8. CASE IngressRemoved(t) \/ (DnsRemoved(t) /\ task[t].kind = "delete")
      <3>1. /\ task[t].kind \in {"unexpose", "delete"} /\ UNCHANGED route
            /\ task[t].at \in {"oldIngress", "oldDns"}
        BY <2>8 DEF IngressRemoved, DnsRemoved, Removing
      <3>2. task[t].prev = d /\ task[t].svc \in Service
        BY <1>1, <2>1, <2>3, <3>1 DEF Minds, Placed, RequestKind
      <3> QED
        BY <1>1, <1>2, <3>1, <3>2 DEF Bound, Routed
    <2>9. CASE DnsRemoved(t) /\ task[t].kind = "unexpose"
      <3>1. /\ task[t].at = "oldDns" /\ task[t].reply \in {"ok", "failed"}
            /\ queue' = QueuedIfFailed(t, "delete_dns") /\ UNCHANGED dead
        BY <2>9 DEF DnsRemoved
      <3>2. task[t].prev = d
        BY <1>1, <2>1, <2>2, <2>9, <3>1 DEF Minds, Bound
      <3>3. k = "delete_dns"
        BY <1>1, <1>2, <1>3, <2>0, <2>9, <3>1, <3>2 DEF Removed, Handled
      <3>4. task[t].reply = "failed"
        BY <1>1, <1>2, <1>4, <3>1, <3>2, <3>3 DEF Removed
      <3> QED
        BY <1>2, <3>1, <3>2, <3>3, <3>4, QueuedWaits
    <2>10. CASE DeleteEnds(t)
      <3>1. task[t].kind = "delete" /\ task[t].at = "stop"
        BY <2>10 DEF DeleteEnds
      <3>2. task[t].prev = d
        BY <1>1, <2>1, <2>2, <3>1 DEF Minds, CallOf, Bound
      <3> QED
        BY <1>1, <1>2, <1>3, <2>0, <3>1, <3>2 DEF Removed, Handled
    <2>11. DnsRemoved(t) => task[t].kind \in {"unexpose", "delete"}
      BY DEF DnsRemoved, Removing
    <2>12. UpdateReplaces(t) \/ UpdateRegisters(t) => task[t].kind = "update"
      BY DEF UpdateReplaces, UpdateRegisters, Ok, Failed
    <2> QED
      BY <1>6, <2>4, <2>5, <2>6, <2>7, <2>8, <2>9, <2>10, <2>11, <2>12 DEF Step
  <1> QED
    BY <1>5, <1>6

(* A step of a handler shows in its task. *)
LEMMA StepShows ==
  ASSUME TypeInv, AllPlaced, NEW t \in Task, Step(t)
  PROVE  task'[t] # task[t]
  <1>0. Placed(task[t]) /\ Step(t)
    BY DEF AllPlaced
  <1>1. CASE DnsCall(t) \/ IngressReads(t) \/ IngressWrites(t)
    <2>1. PICK reply \in {"ok", "failed", "read"} : Moves(t, task[t].at, reply)
      BY <1>1, CallsPlaced
    <2>2. CASE DnsCall(t) \/ IngressReads(t)
      BY <2>1, <2>2 DEF DnsCall, IngressReads, Sent, Moves
    <2>3. CASE IngressWrites(t)
      <3>1. PICK r \in {"ok", "failed"} : Answered(t, r)
        BY <2>3 DEF IngressWrites
      <3> QED
        BY <2>3, <3>1, AnsweredIs DEF IngressWrites, Moves
    <2> QED
      BY <1>1, <2>2, <2>3
  <1>2. CASE ~(DnsCall(t) \/ IngressReads(t) \/ IngressWrites(t))
    <2>1. /\ task[t].at # "idle"
          /\ ~UpdateReplaces(t) /\ ~DeleteEnds(t) => task[t].reply \in {"ok", "failed"}
      BY <1>0, <1>2 DEF Step, ExposeDnsDone, ExposeBinds, ExposeThrows, ExposeCleans,
             ExposeEnqueues, IngressRemoved, DnsRemoved, DeleteEnds, UpdateReplaces,
             UpdateRegisters, DrainCleaned, DrainFailed, Ok, Failed, Placed
    <2>2. Rests(t) => task'[t].at = "idle"
      BY DEF Rests, Idle
    <2>3. CASE UpdateReplaces(t)
      <3>1. task[t].at \in {"replace", "oldIngress"}
        BY <2>3 DEF UpdateReplaces
      <3> QED
        BY <2>1, <2>2, <2>3, <3>1, ReplacesIs
    <2>4. CASE DeleteEnds(t)
      BY <2>1, <2>2, <2>4, HandlersGo
    <2>5. CASE ~UpdateReplaces(t) /\ ~DeleteEnds(t)
      <3>1. Rests(t) \/ task'[t].reply = "sent"
        BY <1>0, <1>2, <2>5, HandlersGo DEF Step, Goes, Moves, Cleaning
      <3> QED
        BY <2>1, <2>2, <2>5, <3>1
    <2> QED
      BY <2>3, <2>4, <2>5
  <1> QED
    BY <1>1, <1>2

(* A record or a rule that nobody uses is to be removed by somebody, or     *)
(* waits in the queue or in the dead letter table, unless a kill, a bind    *)
(* that throws, an edit, or handlers that overlapped left it                *)
(* (services/cleanupQueue.ts, routes/cloudflare.ts:342).                    *)
THEOREM OrphansAreKnown == Spec => OnlyKnownOrphans
  <1>1. Binding /\ [Next]_vars =>
          [\A k \in CleanupKind, d \in Domain : ~Orphan(k, d) /\ Orphan(k, d)' =>
             \/ Crash
             \/ \E t \in Task :
                 /\ task'[t] # task[t]
                 /\ \/ ExposeThrows(t)
                    \/ "update" \in {task[t].kind, task'[t].kind}
                    \/ ~task[t].alone]_vars
    <2> SUFFICES ASSUME Binding, Next, NEW k \in CleanupKind, NEW d \in Domain,
                        ~Orphan(k, d), Orphan(k, d)', ~Crash
                 PROVE  \E t \in Task :
                          /\ task'[t] # task[t]
                          /\ \/ ExposeThrows(t)
                             \/ "update" \in {task[t].kind, task'[t].kind}
                             \/ ~task[t].alone
      OBVIOUS
    <2>0. TypeInv /\ AllPlaced
      BY DEF Binding, Placing
    <2>1. PICK t \in Task : Step(t) \/ Request(t) \/ Drain(t)
      BY DEF Next
    <2>2. CASE Step(t)
      BY <2>0, <2>2, StepShows, CallsLeaveNoOrphan, HandlersLeaveNoOrphan
    <2>3. CASE Request(t) \/ Drain(t)
      <3>1. /\ task[t] = Idle /\ UNCHANGED <<route, queue, dead, dns, ingress>>
            /\ Watched(t)
        BY <2>0, <2>3, RequestOpens, DrainOpens DEF Opens, Cleaning, Entered
      <3>2. /\ Waiting(k, d)' <=> Waiting(k, d)
            /\ Exists(k, d)' <=> Exists(k, d)
            /\ Routed(d)' <=> Routed(d)
            /\ ~Minds(t, k, d)
        BY <3>1 DEF Waiting, Exists, Routed, Minds, Idle
      <3> QED
        BY <3>1, <3>2, OrphanFrom
    <2> QED
      BY <2>1, <2>2, <2>3
  <1> QED
    BY <1>1, AlwaysBinding, PTL DEF Spec, OnlyKnownOrphans
=============================================================================
