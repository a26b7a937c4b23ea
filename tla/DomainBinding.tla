---------------------------- MODULE DomainBinding ----------------------------
(***************************************************************************)
(* Custom domains of services over the Cloudflare API                      *)
(* (routes/cloudflare.ts, routes/services.ts, services/cloudflare.ts) and  *)
(* the queue of the cleanups that failed (services/cleanupQueue.ts).       *)
(*                                                                         *)
(* A bound domain is three things: a row of proxy_routes, a DNS record and *)
(* an ingress rule of the tunnel.  Only the row is in the database; the    *)
(* other two are behind calls that may fail, or take effect and lose their *)
(* answer.  A task is a handler in progress, waiting for the answer to one *)
(* call; an action runs it from one answer to the next call.               *)
(*                                                                         *)
(* Simplifications.                                                        *)
(*  - The API token path, with token, zone and tunnel configured; services *)
(*    have a port.  Routes of other paths than "/" are left out.           *)
(*  - The calls of upsertDnsCname and deleteDnsRecord are one call: of     *)
(*    those each makes, one at most has an effect.                         *)
(*  - Drains are a day apart: one at a time.                               *)
(*  - The control plane is killed at awaits.                               *)
(***************************************************************************)
EXTENDS Naturals, FiniteSets

CONSTANTS
    Task,           \* handlers in progress at once
    NoTask,
    Service,
    NoService,
    Domain,
    NoDomain,
    Requests,       \* the kinds of request the environment issues
    MaxAttempts,    \* MAX_ATTEMPTS
    MaxRequests,    \* bound: requests
    MaxCrashes      \* bound: kills of the control plane

RequestKind == {"expose", "unexpose", "delete", "update"}
CleanupKind == {"remove_ingress", "delete_dns"}

ASSUME NamesAssumption ==
    NoTask \notin Task /\ NoService \notin Service /\ NoDomain \notin Domain
ASSUME RequestsAssumption == Requests \subseteq RequestKind
ASSUME BoundsAssumption ==
    MaxAttempts \in Nat \ {0} /\ {MaxRequests, MaxCrashes} \subseteq Nat

VARIABLES
    services,       \* the services that exist
    route,          \* proxy_routes: the domain of each service
    queue,          \* cleanup_queue
    dead,           \* cleanup_dead_letter: the kinds and domains in it
    dns,            \* domains with a record at Cloudflare
    ingress,        \* the service each domain's rule of the tunnel leads to
    mutex,          \* the task inside withIngressLock
    task,           \* the handlers in progress
    requests, crashes

vars == <<services, route, queue, dead, dns, ingress, mutex, task, requests, crashes>>
db == <<services, route, queue, dead>>
cloudflare == <<dns, ingress>>

(* What a task waits for.  "dns", "ingress": the upserts of dom for svc;     *)
(* "oldIngress", "oldDns": the removals of prev; "stop": stopService;        *)
(* "replace": an import, before the edit of a service that has no route.     *)
Stage == {"idle", "dns", "ingress", "oldIngress", "oldDns", "stop", "replace"}

(* "read": the tunnel's configuration was read, the new one is not written.  *)
Reply == {"none", "sent", "read", "ok", "failed"}

NoRules == [d \in Domain |-> NoService]
Rules == [Domain -> Service \cup {NoService}]

(* A row has no id: no two rows have one kind and domain. *)
Row == [kind : CleanupKind, dom : Domain, attempts : 0..(MaxAttempts - 1)]
NoRow == [kind |-> "none", dom |-> NoDomain, attempts |-> 0]

Handler ==
    [kind : RequestKind \cup {"drain", "none"}, at : Stage,
     svc : Service \cup {NoService}, dom : Domain \cup {NoDomain},
     prev : Domain \cup {NoDomain}, reply : Reply, config : Rules,
     job : Row \cup {NoRow}, rest : SUBSET Row, alone : BOOLEAN]

Idle == [kind |-> "none", at |-> "idle", svc |-> NoService, dom |-> NoDomain,
         prev |-> NoDomain, reply |-> "none", config |-> NoRules,
         job |-> NoRow, rest |-> {}, alone |-> TRUE]

TypeOK ==
    /\ services \subseteq Service
    /\ route \in [Service -> Domain \cup {NoDomain}]
    /\ queue \subseteq Row
    /\ dead \subseteq CleanupKind \X Domain
    /\ dns \subseteq Domain
    /\ ingress \in Rules
    /\ mutex \in Task \cup {NoTask}
    /\ task \in [Task -> Handler]
    /\ requests \in 0..MaxRequests
    /\ crashes \in 0..MaxCrashes

Routed(d) == \E s \in Service : route[s] = d

(* No two services are routed on one domain, also when both passed the      *)
(* guard of expose or of the edit before either of them wrote its row.      *)
RoutesUnique ==
    \A s, u \in Service : route[s] = route[u] /\ route[s] # NoDomain => s = u

(* The control plane starts with some services bound and served. *)
Init ==
    /\ services = Service
    /\ route \in [Service -> Domain \cup {NoDomain}]
    /\ RoutesUnique
    /\ queue = {}
    /\ dead = {}
    /\ dns = {d \in Domain : Routed(d)}
    /\ ingress = [d \in Domain |-> IF Routed(d) THEN CHOOSE s \in Service : route[s] = d
                                              ELSE NoService]
    /\ mutex = NoTask
    /\ task = [t \in Task |-> Idle]
    /\ requests = 0
    /\ crashes = 0

------------------------------------------------------------------------------
(* Cloudflare.  A call takes effect or not, and answers truly or is taken   *)
(* for a failure.                                                           *)

Sent(t, stages) == task[t].at \in stages /\ task[t].reply = "sent"
Answered(t, reply) == task' = [task EXCEPT ![t].reply = reply, ![t].config = NoRules]

DnsCall(t) ==
    /\ Sent(t, {"dns", "oldDns"})
    /\ \E done, answers \in BOOLEAN :
        /\ answers => done
        /\ Answered(t, IF answers THEN "ok" ELSE "failed")
        /\ dns' = IF ~done THEN dns
                  ELSE IF task[t].at = "dns" THEN dns \cup {task[t].dom}
                  ELSE dns \ {task[t].prev}
    /\ UNCHANGED <<db, ingress, mutex, requests, crashes>>

NoWait == TRUE \* mutant: ingress mutations are not serialized
Unlocked == mutex = NoTask

(* withIngressLock: the configuration is read once the lock is free. *)
IngressReads(t) ==
    /\ Sent(t, {"ingress", "oldIngress"})
    /\ Unlocked
    /\ \/ mutex' = t /\ task' = [task EXCEPT ![t].reply = "read", ![t].config = ingress]
       \/ Answered(t, "failed") /\ UNCHANGED mutex
    /\ UNCHANGED <<db, cloudflare, requests, crashes>>

(* The whole configuration is written back with one rule changed. *)
IngressWrites(t) ==
    /\ task[t].reply = "read"
    /\ \E done, answers \in BOOLEAN :
        /\ answers => done
        /\ Answered(t, IF answers THEN "ok" ELSE "failed")
        /\ ingress' = IF ~done THEN ingress
                      ELSE IF task[t].at = "ingress"
                      THEN [task[t].config EXCEPT ![task[t].dom] = task[t].svc]
                      ELSE [task[t].config EXCEPT ![task[t].prev] = NoService]
    /\ UNCHANGED <<db, dns, mutex, requests, crashes>>

------------------------------------------------------------------------------
(* Shared parts of the handlers.                                            *)

Ok(t, k, stage) == task[t].kind = k /\ task[t].at = stage /\ task[t].reply = "ok"
Failed(t, k, stage) == task[t].kind = k /\ task[t].at = stage /\ task[t].reply = "failed"

ReleasesMutex(t) == mutex' = IF mutex = t THEN NoTask ELSE mutex

Calls(t, stage) == task' = [task EXCEPT ![t].at = stage, ![t].reply = "sent"]
Ends(t) == task' = [task EXCEPT ![t] = Idle]

Arrives(t, k) ==
    /\ k \in Requests
    /\ task[t] = Idle
    /\ requests < MaxRequests
    /\ requests' = requests + 1

(* History, for the properties: alone holds of a task while no other task   *)
(* that works on its service or on one of its domains has overlapped it.    *)
Meets(a, b) ==
    \/ a.svc = b.svc /\ a.svc # NoService
    \/ ({a.dom, a.prev} \cap {b.dom, b.prev}) \ {NoDomain} # {}

Enters(t, new) ==
    task' = [u \in Task |->
        IF u = t THEN [new EXCEPT !.alone = @ /\ \A v \in Task \ {t} : ~Meets(task[v], new)]
        ELSE [task[u] EXCEPT !.alone = @ /\ ~Meets(task[u], new)]]

Begin(t, k, stage, s, d, prev) ==
    Enters(t, [Idle EXCEPT !.kind = k, !.at = stage, !.svc = s, !.dom = d,
                           !.prev = prev, !.reply = "sent", !.alone = task[t].alone])

Taken(s, d) == \E u \in Service \ {s} : route[u] = d

NoGuard(s, d) == TRUE \* mutant: the owner of the domain is not asked for
Free(s, d) == ~Taken(s, d)

NoIndex(s, d) == FALSE \* mutant: no unique index on domain and path
IndexRefuses(s, d) == d # NoDomain /\ Taken(s, d)

SameRow(r, q) == r.kind = q.kind /\ r.dom = q.dom

NewRow(k, d) == [kind |-> k, dom |-> d, attempts |-> 0]

(* enqueueCleanup: nothing, if a row of that kind and domain waits already. *)
Enqueued(kinds, d) ==
    queue \cup {r \in {NewRow(k, d) : k \in kinds} : \A q \in queue : ~SameRow(r, q)}

------------------------------------------------------------------------------
(* POST /services/:id/expose/domain                                         *)

Expose(t, s, d) ==
    /\ Arrives(t, "expose")
    /\ s \in services
    /\ Free(s, d)
    /\ Begin(t, "expose", "dns", s, d, IF route[s] = d THEN NoDomain ELSE route[s])
    /\ UNCHANGED <<db, cloudflare, mutex, crashes>>

ExposeDnsDone(t) ==
    /\ Ok(t, "expose", "dns")
    /\ Calls(t, "ingress")
    /\ UNCHANGED <<db, cloudflare, mutex, requests, crashes>>

(* The transaction: the row replaces the service's old one; the cleanup of  *)
(* the old domain comes after it.                                           *)
ExposeBinds(t) ==
    /\ Ok(t, "expose", "ingress")
    /\ ~IndexRefuses(task[t].svc, task[t].dom)
    /\ route' = [route EXCEPT ![task[t].svc] = task[t].dom]
    /\ IF task[t].prev = NoDomain THEN Ends(t) ELSE Calls(t, "oldIngress")
    /\ ReleasesMutex(t)
    /\ UNCHANGED <<services, queue, dead, cloudflare, requests, crashes>>

(* An upsert fails, or the transaction is rolled back: what was created at  *)
(* Cloudflare stays.                                                        *)
ExposeThrows(t) ==
    /\ \/ Failed(t, "expose", "dns")
       \/ Failed(t, "expose", "ingress")
       \/ Ok(t, "expose", "ingress") /\ IndexRefuses(task[t].svc, task[t].dom)
    /\ Ends(t)
    /\ ReleasesMutex(t)
    /\ UNCHANGED <<db, cloudflare, requests, crashes>>

ExposeCleans(t) ==
    /\ \/ Ok(t, "expose", "oldIngress") /\ Calls(t, "oldDns")
       \/ Ok(t, "expose", "oldDns") /\ Ends(t)
    /\ ReleasesMutex(t)
    /\ UNCHANGED <<db, cloudflare, requests, crashes>>

ExposeEnqueues(t) ==
    /\ \E stage \in {"oldIngress", "oldDns"} : Failed(t, "expose", stage)
    /\ queue' = Enqueued(CleanupKind, task[t].prev)
    /\ Ends(t)
    /\ ReleasesMutex(t)
    /\ UNCHANGED <<services, route, dead, cloudflare, requests, crashes>>

------------------------------------------------------------------------------
(* DELETE /services/:id/expose/domain and DELETE /services/:id              *)

Unexpose(t, s) ==
    /\ Arrives(t, "unexpose")
    /\ s \in services
    /\ route[s] # NoDomain
    /\ Begin(t, "unexpose", "oldIngress", s, NoDomain, route[s])
    /\ UNCHANGED <<db, cloudflare, mutex, crashes>>

Delete(t, s) ==
    /\ Arrives(t, "delete")
    /\ s \in services
    /\ Begin(t, "delete", IF route[s] = NoDomain THEN "stop" ELSE "oldIngress", s,
             NoDomain, route[s])
    /\ UNCHANGED <<db, cloudflare, mutex, crashes>>

Removing(t) == task[t].kind \in {"unexpose", "delete"}

NotQueued(kinds, d) == queue \* mutant: the failure is swallowed
QueuedIfFailed(t, k) ==
    IF task[t].reply = "failed" THEN Enqueued({k}, task[t].prev) ELSE queue

IngressRemoved(t) ==
    /\ Removing(t)
    /\ task[t].at = "oldIngress" /\ task[t].reply \in {"ok", "failed"}
    /\ queue' = QueuedIfFailed(t, "remove_ingress")
    /\ Calls(t, "oldDns")
    /\ ReleasesMutex(t)
    /\ UNCHANGED <<services, route, dead, cloudflare, requests, crashes>>

(* The rows go by service: whatever domain the service is bound to by now.  *)
DnsRemoved(t) ==
    /\ Removing(t)
    /\ task[t].at = "oldDns" /\ task[t].reply \in {"ok", "failed"}
    /\ queue' = QueuedIfFailed(t, "delete_dns")
    /\ IF task[t].kind = "delete"
       THEN Calls(t, "stop") /\ UNCHANGED route
       ELSE Ends(t) /\ route' = [route EXCEPT ![task[t].svc] = NoDomain]
    /\ UNCHANGED <<services, dead, cloudflare, mutex, requests, crashes>>

(* stopService returned: the rows of the service are deleted. *)
DeleteEnds(t) ==
    /\ task[t].kind = "delete" /\ task[t].at = "stop"
    /\ route' = [route EXCEPT ![task[t].svc] = NoDomain]
    /\ services' = services \ {task[t].svc}
    /\ Ends(t)
    /\ UNCHANGED <<queue, dead, cloudflare, mutex, requests, crashes>>

------------------------------------------------------------------------------
(* PATCH /services/:id with a domain, or with a port only, which drops it.  *)

Update(t, s, d) ==
    /\ Arrives(t, "update")
    /\ s \in services
    /\ d # NoDomain => Free(s, d)
    /\ Begin(t, "update", IF route[s] = NoDomain THEN "replace" ELSE "oldIngress", s, d, route[s])
    /\ UNCHANGED <<db, cloudflare, mutex, crashes>>

(* The row is replaced, whether the old rule was removed or not; a refused  *)
(* insert leaves none.                                                      *)
UpdateReplaces(t) ==
    /\ task[t].kind = "update"
    /\ \/ task[t].at = "replace"
       \/ task[t].at = "oldIngress" /\ task[t].reply \in {"ok", "failed"}
    /\ LET s == task[t].svc
           d == task[t].dom
           refused == IndexRefuses(s, d)
       IN  /\ route' = [route EXCEPT ![s] = IF refused THEN NoDomain ELSE d]
           /\ IF refused \/ d = NoDomain THEN Ends(t)
              ELSE Begin(t, "update", "dns", s, d, NoDomain)
    /\ ReleasesMutex(t)
    /\ UNCHANGED <<services, queue, dead, cloudflare, requests, crashes>>

UpdateRegisters(t) ==
    /\ \/ Ok(t, "update", "dns") /\ Calls(t, "ingress")
       \/ Failed(t, "update", "dns") /\ Ends(t)
       \/ /\ Ok(t, "update", "ingress") \/ Failed(t, "update", "ingress")
          /\ Ends(t)
    /\ ReleasesMutex(t)
    /\ UNCHANGED <<db, cloudflare, requests, crashes>>

------------------------------------------------------------------------------
(* drainCleanupQueue                                                        *)

CallOf(k) == IF k = "delete_dns" THEN "oldDns" ELSE "oldIngress"

Cleans(t, r, rest) ==
    Enters(t, [Idle EXCEPT !.kind = "drain", !.at = CallOf(r.kind), !.prev = r.dom,
                           !.reply = "sent", !.job = r, !.rest = rest])

CleansNext(t) ==
    IF task[t].rest = {} THEN Ends(t)
    ELSE \E r \in task[t].rest : Cleans(t, r, task[t].rest \ {r})

(* The rows are read once, at the start. *)
Drain(t) ==
    /\ task[t] = Idle
    /\ \A u \in Task : task[u].kind # "drain"
    /\ \E r \in queue : Cleans(t, r, queue \ {r})
    /\ UNCHANGED <<db, cloudflare, mutex, requests, crashes>>

Others(t) == {q \in queue : ~SameRow(q, task[t].job)}

DrainCleaned(t) ==
    /\ task[t].kind = "drain" /\ task[t].reply = "ok"
    /\ queue' = Others(t)
    /\ CleansNext(t)
    /\ ReleasesMutex(t)
    /\ UNCHANGED <<services, route, dead, cloudflare, requests, crashes>>

NoBump(n) == n \* mutant: the failed attempt is not counted
Bump(n) == n + 1

GivesUpLate(n) == n >= MaxAttempts \* mutant: one attempt too many
GivesUp(n) == n + 1 >= MaxAttempts

DrainFailed(t) ==
    /\ task[t].kind = "drain" /\ task[t].reply = "failed"
    /\ LET r == task[t].job
       IN  IF GivesUp(r.attempts)
           THEN dead' = dead \cup {<<r.kind, r.dom>>} /\ queue' = Others(t)
           ELSE /\ queue' = Others(t) \cup {[r EXCEPT !.attempts = Bump(@)]}
                /\ UNCHANGED dead
    /\ CleansNext(t)
    /\ ReleasesMutex(t)
    /\ UNCHANGED <<services, route, cloudflare, requests, crashes>>

------------------------------------------------------------------------------
Crash ==
    /\ crashes < MaxCrashes
    /\ crashes' = crashes + 1
    /\ task' = [t \in Task |-> Idle]
    /\ mutex' = NoTask
    /\ UNCHANGED <<db, cloudflare, requests>>

Step(t) ==
    \/ DnsCall(t) \/ IngressReads(t) \/ IngressWrites(t)
    \/ ExposeDnsDone(t) \/ ExposeBinds(t) \/ ExposeThrows(t) \/ ExposeCleans(t)
    \/ ExposeEnqueues(t)
    \/ IngressRemoved(t) \/ DnsRemoved(t) \/ DeleteEnds(t)
    \/ UpdateReplaces(t) \/ UpdateRegisters(t)
    \/ DrainCleaned(t) \/ DrainFailed(t)

Request(t) ==
    \E s \in Service :
        \/ Unexpose(t, s) \/ Delete(t, s) \/ Update(t, s, NoDomain)
        \/ \E d \in Domain : Expose(t, s, d) \/ Update(t, s, d)

Next == (\E t \in Task : Step(t) \/ Request(t) \/ Drain(t)) \/ Crash

Spec == Init /\ [][Next]_vars

(* Calls are answered or fail, and the renewal loop drains every day.       *)
Fairness ==
    /\ \A t \in Task : WF_vars(Step(t))
    /\ WF_vars(\E t \in Task : Drain(t))

FairSpec == Spec /\ Fairness

------------------------------------------------------------------------------
(* Properties.                                                              *)

(* A configuration that is read, changed and written back changes no rule   *)
(* but the one of the call's domain, whatever calls overlap.                *)
OtherRulesKept ==
    [][\A d \in Domain : ingress'[d] # ingress[d] =>
        \E t \in Task : IngressWrites(t) /\ d \in {task[t].dom, task[t].prev}]_vars

(* Somebody will still remove the record or the rule of d, or bind d. *)
Expected(k, d) ==
    \/ \E r \in queue : r.kind = k /\ r.dom = d
    \/ <<k, d>> \in dead
    \/ \E t \in Task :
        \/ /\ task[t].kind = "expose" /\ task[t].dom = d
           /\ task[t].at \in {"dns", "ingress"}
        \/ /\ task[t].kind \in {"expose", "unexpose", "delete"} /\ task[t].prev = d
           /\ task[t].at \in {"oldIngress", CallOf(k)}

Exists(k, d) == IF k = "delete_dns" THEN d \in dns ELSE ingress[d] # NoService
Orphan(k, d) == Exists(k, d) /\ ~Routed(d) /\ ~Expected(k, d)

(* A record or rule that nobody uses is being removed, or waits in the      *)
(* queue, or is in the dead letter table where an operator finds it, unless *)
(* it was left by one of these: a kill, a bind that throws, an edit of the  *)
(* service, or handlers of one service or domain that overlapped.           *)
OnlyKnownOrphans ==
    [][\A k \in CleanupKind, d \in Domain : ~Orphan(k, d) /\ Orphan(k, d)' =>
        \/ Crash
        \/ \E t \in Task :
            /\ task'[t] # task[t]
            /\ \/ ExposeThrows(t)
               \/ "update" \in {task[t].kind, task'[t].kind}
               \/ ~task[t].alone]_vars

Served(s, d) == route[s] = d /\ d \in dns /\ ingress[d] = s

(* A domain that is bound and served stays so, unless a handler of its own  *)
(* service, a drain, or a handler that overlapped another of the service or *)
(* the domain takes its record or its rule away.                            *)
OnlyKnownOutages ==
    [][\A s \in Service, d \in Domain : Served(s, d) /\ route'[s] = d =>
        \/ Served(s, d)'
        \/ \E t \in Task :
            /\ DnsCall(t) \/ IngressWrites(t)
            /\ task[t].svc = s \/ task[t].kind = "drain" \/ ~task[t].alone]_vars

(* A queued cleanup is performed or reaches the dead letter table, however  *)
(* often Cloudflare fails and the control plane is killed.                  *)
CleanupResolves ==
    \A k \in CleanupKind, d \in Domain :
        (\E r \in queue : r.kind = k /\ r.dom = d)
            ~> (\A r \in queue : r.kind # k \/ r.dom # d)
=============================================================================
