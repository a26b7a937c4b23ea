---------------------------- MODULE SaasDomains ----------------------------
(***************************************************************************)
(* The custom hostnames that tenants attach to a service                   *)
(* (services/saasDomains.ts): register, verify and delete, and the         *)
(* deletion of a service, which deletes its hostnames.  One hostname,      *)
(* either in the zone of the operator or in a tenant's.                    *)
(*                                                                         *)
(* A bound hostname is a row of saas_domains, a record at Cloudflare (a    *)
(* proxied CNAME, or a custom hostname that Cloudflare validates) and a    *)
(* rule of the tunnel.  A task is a request in progress; an action answers *)
(* the call it waits for, or takes it from an answer to the next call.     *)
(*                                                                         *)
(* Simplifications.                                                        *)
(*  - An API token and a zone are saved and the tunnel is a token tunnel;  *)
(*    services have a port; the name of the zone is cached.                *)
(*  - The hostname is not an operator domain (DomainBinding).              *)
(*  - The calls of one helper (upsertProxiedTunnelCname, the removal of a  *)
(*    CNAME, ensureFallbackOrigin) are one call.                           *)
(*  - The control plane is killed at awaits.                               *)
(*  - Assumption: Cloudflare does not take a custom hostname out of active *)
(*    (a move, an expired or renewed certificate).  verifySaasDomain would *)
(*    read that and write it to the row; until then the row says active.   *)
(***************************************************************************)
EXTENDS Naturals, Sequences, FiniteSets

CONSTANTS
    Service,
    NoService,
    MaxRequests,    \* bound: requests
    MaxFaults       \* bound: calls that fail, kills of the control plane

ASSUME ServiceAssumption == NoService \notin Service
ASSUME BoundsAssumption == {MaxRequests, MaxFaults} \subseteq Nat

\* A request is known by its number, and so are the row and the record it creates.
Task == 1..MaxRequests
Ids == 0..MaxRequests

VARIABLES
    own,            \* the hostname is in the zone of the operator
    services,       \* the services that exist
    row,            \* the row of saas_domains that has the hostname
    record,         \* the CNAME or the custom hostname at Cloudflare
    rule,           \* the service the tunnel sends the hostname to
    mutex,          \* ingressMutex: the tasks in the order of their turns
    task,           \* the requests in progress
    astray,         \* for the properties: the custom hostnames that a deletion
                    \* removed when the row it had read was there no more
    requests, faults

vars == <<own, services, row, record, rule, mutex, task, astray, requests, faults>>
db == <<own, services, row>>

Status == {"none", "pending_dns", "dns_verified", "ssl_issuing", "failed", "active"}

\* Of a custom hostname: "issuing" is active without its certificate.
Validation == {"none", "pending", "issuing", "refused", "active"}

Places == {"idle", "origin", "record", "list", "get", "stop", "drop", "ingress"}
Replies == {"none", "sent", "ok", "failed", "duplicate"} \cup Validation

\* row: the id of the row it read or is going to insert; exists: it read one;
\* ch: the custom hostname it read or got; hit, for the properties: the row it
\* wrote or deleted was there.
Handler ==
    [op : {"none", "register", "verify", "delete", "deleteService"}, at : Places,
     svc : Service \cup {NoService}, row : Ids, exists : BOOLEAN, ch : Ids,
     reply : Replies, hit : BOOLEAN]

TypeOK ==
    /\ own \in BOOLEAN
    /\ services \subseteq Service
    /\ row \in [id : Ids, svc : Service \cup {NoService}, ch : Ids, status : Status]
    /\ record \in [id : Ids, state : Validation]
    /\ rule \in Service \cup {NoService}
    /\ task \in [Task -> Handler]
    \* Those that wait for their turn are those at the tunnel, once each.
    /\ mutex \in Seq(Task)
    /\ \A i, j \in DOMAIN mutex : mutex[i] = mutex[j] => i = j
    /\ {mutex[i] : i \in DOMAIN mutex} = {n \in Task : task[n].at = "ingress"}
    /\ astray \subseteq Ids
    /\ requests \in 0..MaxRequests
    /\ faults \in 0..MaxFaults

Idle == [op |-> "none", at |-> "idle", svc |-> NoService, row |-> 0, exists |-> FALSE,
         ch |-> 0, reply |-> "none", hit |-> TRUE]
NoRow == [id |-> 0, svc |-> NoService, ch |-> 0, status |-> "none"]
NoRecord == [id |-> 0, state |-> "none"]

------------------------------------------------------------------------------

NoFault == UNCHANGED faults
Fault == faults < MaxFaults /\ faults' = faults + 1

Sent(n, place) == task[n].at = place /\ task[n].reply = "sent"
Answered(n, place) == task[n].at = place /\ task[n].reply # "sent"

Goes(n, place) == task' = [task EXCEPT ![n].at = place, ![n].reply = "sent"]
Answer(n, reply) == task' = [task EXCEPT ![n].reply = reply]
Ends(n) == task' = [task EXCEPT ![n] = Idle]

(* The next request starts as a handler h and waits for its first call. *)
Starts(h) ==
    /\ requests < MaxRequests
    /\ requests' = requests + 1
    /\ task' = [task EXCEPT ![requests + 1] = [h EXCEPT !.reply = "sent"]]

LastFirst(n) == <<n>> \o mutex \* mutant: the latest change is made first
Poisoned == mutex \* mutant: a change that failed keeps its turn

(* applyIngress: the handler takes a turn in withIngressLock, which is over *)
(* when the change is made or has failed.                                   *)
Turns(n) == Append(mutex, n)

TurnOver == Tail(mutex)

ToIngress(n, hit) ==
    /\ task' = [task EXCEPT ![n].at = "ingress", ![n].reply = "sent", ![n].hit = hit]
    /\ mutex' = Turns(n)

------------------------------------------------------------------------------
(* registerSaasDomain *)

Register(s) ==
    /\ s \in services
    /\ row = NoRow \/ row.svc = s
    /\ Starts([Idle EXCEPT !.op = "register", !.svc = s,
                           !.at = IF own THEN "record" ELSE "origin",
                           !.exists = row # NoRow,
                           !.row = IF row = NoRow THEN requests + 1 ELSE row.id])
    /\ UNCHANGED <<db, record, rule, mutex, faults, astray>>

(* ensureFallbackOrigin: its settings and records do not depend on the      *)
(* hostname.                                                                *)
Origin(n) ==
    /\ Sent(n, "origin")
    /\ \/ NoFault /\ Goes(n, "record")
       \/ Fault /\ Ends(n)
    /\ UNCHANGED <<db, record, rule, mutex, requests, astray>>

(* A CNAME is created or overwritten, a custom hostname is created once.  A *)
(* call that is taken for a failure may have taken effect.                  *)
Create(n) ==
    LET new == [id |-> n, state |-> IF own THEN "active" ELSE "pending"]
        made == IF record = NoRecord THEN new ELSE record
        reply == IF record # NoRecord /\ ~own THEN "duplicate" ELSE "ok"
    IN  /\ Sent(n, "record")
        /\ \/ /\ NoFault
              /\ record' = made
              /\ task' = [task EXCEPT ![n].reply = reply,
                                      ![n].ch = IF own \/ reply = "duplicate" THEN 0 ELSE n]
           \/ /\ Fault
              /\ record' \in {record, made}
              /\ Answer(n, "failed")
        /\ UNCHANGED <<db, rule, mutex, requests, astray>>

Created(n) ==
    /\ Answered(n, "record")
    /\ \/ task[n].reply = "duplicate" /\ Goes(n, "list")
       \/ task[n].reply = "failed" /\ Ends(n)
    /\ UNCHANGED <<db, record, rule, mutex, requests, faults, astray>>

(* A duplicate is looked up by its name and used. *)
List(n) ==
    /\ Sent(n, "list")
    /\ \/ /\ NoFault
          /\ record # NoRecord
          /\ task' = [task EXCEPT ![n].reply = "ok", ![n].ch = record.id]
       \/ NoFault /\ record = NoRecord /\ Answer(n, "failed")
       \/ Fault /\ Answer(n, "failed")
    /\ UNCHANGED <<db, record, rule, mutex, requests, astray>>

Listed(n) ==
    /\ Answered(n, "list")
    /\ task[n].reply = "failed"
    /\ Ends(n)
    /\ UNCHANGED <<db, record, rule, mutex, requests, faults, astray>>

WrittenButHostname(n) == \* mutant: the UPDATE leaves cf_custom_hostname_id
    [id |-> task[n].row, svc |-> task[n].svc,
     ch |-> IF task[n].exists THEN row.ch ELSE task[n].ch,
     status |-> IF own THEN "active" ELSE "pending_dns"]

Written(n) == [id |-> task[n].row, svc |-> task[n].svc, ch |-> task[n].ch,
               status |-> IF own THEN "active" ELSE "pending_dns"]

(* upsertDomainRow: an INSERT is refused when the hostname has a row, an    *)
(* UPDATE of a row that is gone changes nothing and goes on.                *)
Writes(n) ==
    /\ Answered(n, "record") \/ Answered(n, "list")
    /\ task[n].reply = "ok"
    /\ \/ /\ IF task[n].exists THEN row.id = task[n].row ELSE row = NoRow
          /\ row' = Written(n)
          /\ ToIngress(n, TRUE)
       \/ /\ task[n].exists /\ row.id # task[n].row
          /\ UNCHANGED row
          /\ ToIngress(n, FALSE)
       \/ /\ ~task[n].exists /\ row # NoRow
          /\ Ends(n)
          /\ UNCHANGED <<row, mutex>>
    /\ UNCHANGED <<own, services, record, rule, requests, faults, astray>>

------------------------------------------------------------------------------
(* verifySaasDomain *)

(* A hostname of the operator's zone is active without a question. *)
Verify ==
    /\ row # NoRow
    /\ IF own THEN /\ requests < MaxRequests
                   /\ requests' = requests + 1
                   /\ row' = [row EXCEPT !.status = "active"]
                   /\ UNCHANGED task
              ELSE /\ Starts([Idle EXCEPT !.op = "verify", !.at = "get", !.row = row.id,
                                          !.ch = row.ch])
                   /\ UNCHANGED row
    /\ UNCHANGED <<own, services, record, rule, mutex, faults, astray>>

(* The lookup of the custom hostname; one that is gone is an error.         *)
Get(n) ==
    /\ Sent(n, "get")
    /\ \/ NoFault /\ record.id = task[n].ch /\ Answer(n, record.state)
       \/ NoFault /\ record.id # task[n].ch /\ Answer(n, "failed")
       \/ Fault /\ Answer(n, "failed")
    /\ UNCHANGED <<db, record, rule, mutex, requests, astray>>

IssuingIsActive(state, pointing) == \* mutant: the certificate is not awaited
    IF state \in {"active", "issuing"} THEN "active" ELSE "pending_dns"

Verdict(state, pointing) ==
    CASE state = "active" -> "active"
      [] state # "active" /\ ~pointing -> "pending_dns"
      [] state = "refused" /\ pointing -> "failed"
      [] state = "issuing" /\ pointing -> "ssl_issuing"
      [] OTHER -> "dns_verified"

(* finish: the row that was read gets the verdict, if it is still there.    *)
Got(n) ==
    /\ Answered(n, "get")
    /\ \/ task[n].reply = "failed" /\ UNCHANGED row
       \/ /\ task[n].reply # "failed"
          /\ \E pointing \in BOOLEAN :
                row' = IF row.id = task[n].row
                       THEN [row EXCEPT !.status = Verdict(task[n].reply, pointing)] ELSE row
    /\ Ends(n)
    /\ UNCHANGED <<own, services, record, rule, mutex, requests, faults, astray>>

(* Cloudflare and the tenant's certificate authority; what is active stays   *)
(* so (an assumption).                                                       *)
Validates ==
    /\ \E step \in {<<"pending", "issuing">>, <<"issuing", "active">>,
                    <<"issuing", "refused">>, <<"refused", "issuing">>} :
          /\ record.state = step[1]
          /\ record' = [record EXCEPT !.state = step[2]]
    /\ UNCHANGED <<db, rule, mutex, task, requests, faults, astray>>

------------------------------------------------------------------------------
(* deleteSaasDomain, and DELETE /services/:id *)

Delete ==
    /\ row # NoRow
    /\ Starts([Idle EXCEPT !.op = "delete", !.at = "drop", !.row = row.id, !.ch = row.ch])
    /\ UNCHANGED <<db, record, rule, mutex, faults, astray>>

DeleteService(s) ==
    /\ s \in services
    /\ Starts([Idle EXCEPT !.op = "deleteService", !.at = "stop", !.svc = s])
    /\ UNCHANGED <<db, record, rule, mutex, faults, astray>>

(* Its domain is cleaned up and it is stopped; then its hostnames are read. *)
Stopped(n) ==
    /\ Sent(n, "stop")
    /\ IF row.svc = task[n].svc
       THEN /\ task' = [task EXCEPT ![n].at = "drop", ![n].row = row.id, ![n].ch = row.ch]
            /\ UNCHANGED services
       ELSE /\ Ends(n)
            /\ services' = services \ {task[n].svc}
    /\ UNCHANGED <<own, row, record, rule, mutex, requests, faults, astray>>

(* The custom hostname is removed by its id, a CNAME by the name of the     *)
(* host; a failure is swallowed.                                            *)
Drop(n) ==
    /\ Sent(n, "drop")
    /\ \/ /\ NoFault
          /\ record' = IF own \/ record.id = task[n].ch THEN NoRecord ELSE record
          /\ astray' = IF ~own /\ record.id = task[n].ch /\ row.id # task[n].row
                       THEN astray \cup {record.id} ELSE astray
          /\ Answer(n, "ok")
       \/ Fault /\ UNCHANGED <<record, astray>> /\ Answer(n, "failed")
    /\ UNCHANGED <<db, rule, mutex, requests>>

Dropped(n) ==
    /\ Answered(n, "drop")
    /\ row' = IF row.id = task[n].row THEN NoRow ELSE row
    /\ ToIngress(n, row.id = task[n].row)
    /\ UNCHANGED <<own, services, record, rule, requests, faults, astray>>

------------------------------------------------------------------------------

(* The turn of n: its change of the tunnel's rules, and the end of the      *)
(* request.  A failure is swallowed.                                        *)
Ingress(n) ==
    LET target == IF task[n].op = "register" THEN task[n].svc ELSE NoService
    IN  /\ mutex # <<>> /\ Head(mutex) = n
        /\ \/ NoFault /\ rule' = target
           \/ Fault /\ rule' \in {rule, target}
        /\ mutex' = TurnOver
        /\ Ends(n)
        /\ services' = IF task[n].op = "deleteService" THEN services \ {task[n].svc} ELSE services
        /\ UNCHANGED <<own, row, record, requests, astray>>

Kill ==
    /\ Fault
    /\ task' = [n \in Task |-> Idle]
    /\ mutex' = <<>>
    /\ UNCHANGED <<db, record, rule, requests, astray>>

(* No hostname, or one that a first request has registered. *)
Init ==
    /\ own \in BOOLEAN
    /\ services = Service
    /\ mutex = <<>>
    /\ task = [n \in Task |-> Idle]
    /\ astray = {}
    /\ faults = 0
    /\ \/ row = NoRow /\ record = NoRecord /\ rule = NoService /\ requests = 0
       \/ /\ MaxRequests > 0
          /\ requests = 1
          /\ record = [id |-> 1, state |-> "active"]
          /\ \E s \in Service : /\ rule = s
                                /\ row = [id |-> 1, svc |-> s, ch |-> IF own THEN 0 ELSE 1,
                                          status |-> "active"]

Next ==
    \/ \E s \in Service : Register(s)
    \/ Verify
    \/ Delete
    \/ \E s \in Service : DeleteService(s)
    \/ \E n \in Task : Origin(n)
    \/ \E n \in Task : Create(n)
    \/ \E n \in Task : Created(n)
    \/ \E n \in Task : List(n)
    \/ \E n \in Task : Listed(n)
    \/ \E n \in Task : Writes(n)
    \/ \E n \in Task : Get(n)
    \/ \E n \in Task : Got(n)
    \/ \E n \in Task : Stopped(n)
    \/ \E n \in Task : Drop(n)
    \/ \E n \in Task : Dropped(n)
    \/ \E n \in Task : Ingress(n)
    \/ Validates
    \/ Kill

Spec == Init /\ [][Next]_vars

------------------------------------------------------------------------------
(* Properties *)

Faulty == faults' # faults

(* The tunnel sends the hostname elsewhere than its row says, or nowhere,   *)
(* and nobody is about to change a rule.                                    *)
Misrouted == mutex = <<>> /\ rule # row.svc

(* As long as the row a request writes or deletes is there, the tunnel ends *)
(* where the row does: the turns of applyIngress are those of the rows.  It *)
(* does not when the call is lost (only logged as "surfaced on next verify")*)
(* or when the last turn was of a request whose row had gone: it sends the  *)
(* hostname of another service to its own, or to nobody.                    *)
OnlyKnownMisroutes ==
    [][(Misrouted' /\ ~Misrouted) =>
        \/ Faulty
        \/ \E n \in Task : mutex = <<n>> /\ ~task[n].hit]_vars

(* A record of Cloudflare that no row knows and no request is about to      *)
(* write down or to drop.                                                   *)
Orphaned ==
    /\ record # NoRecord
    /\ IF own THEN row = NoRow ELSE row.ch # record.id
    /\ \A n \in Task :
        /\ ~(task[n].op = "register" /\ task[n].reply = "ok" /\ (own \/ task[n].ch = record.id))
        /\ ~(Sent(n, "drop") /\ (own \/ task[n].ch = record.id))

(* A deletion of the row is in progress. *)
Deleting == \E n \in Task : task[n].at = "drop" /\ task[n].row = row.id

(* A record is left behind by a lost call or a kill, a removal that failed  *)
(* (never tried again), a removal for a row that was registered again since,*)
(* and a registration that found no row to update, found that another had   *)
(* inserted one, or had a custom hostname that was removed since, by a      *)
(* deletion of an earlier row or of this one; by nothing else.              *)
OnlyKnownOrphans ==
    [][(Orphaned' /\ ~Orphaned) =>
        \/ Faulty
        \/ \E n \in Task : /\ Writes(n)
                            /\ (row' = row \/ task[n].ch \in astray \/ Deleting)
        \/ \E n \in Task : /\ Dropped(n)
                            /\ (task[n].reply = "failed" \/ row.ch # task[n].ch \/ own)]_vars

(* The row says active, the record is not there or not active, and no       *)
(* deletion of the row is in progress.                                      *)
FalselyActive ==
    /\ row.status = "active"
    /\ ~(record.state = "active" /\ (own \/ record.id = row.ch))
    /\ ~Deleting

(* What is shown as verified is verified: a late answer of Cloudflare does  *)
(* not mark a hostname that was registered again.  The exceptions: a        *)
(* deletion is killed halfway; a deletion of an earlier row removes the new *)
(* record, and an answer about what such a deletion removed comes late; in  *)
(* the operator's zone, the record is found removed when the row is written.*)
OnlyKnownFalseActives ==
    [][(FalselyActive' /\ ~FalselyActive) =>
        \/ Kill
        \/ \E n \in Task : Drop(n) /\ task[n].row # row.id
        \/ \E n \in Task : Got(n) /\ {row.ch, task[n].ch} \cap astray # {}
        \/ own /\ row' # row /\ record = NoRecord]_vars
=============================================================================
