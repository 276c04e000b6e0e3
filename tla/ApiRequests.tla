---------------------------- MODULE ApiRequests ----------------------------
(***************************************************************************)
(* What a mutating request of the IMS API goes through: SupabaseAuthGuard, *)
(* PermissionsGuard, TenantContextInterceptor, the handler, and            *)
(* AuditInterceptor; with the connections all of them share through        *)
(* TenantContextDriver, and with the handlers that change what the guards  *)
(* read: those of AuthAdminController, TenantController and                *)
(* SettingsController.                                                     *)
(*                                                                         *)
(* A request is one process; the writes it starts and does not wait for    *)
(* (last_login_at, audit_log), and the lookups it makes side by side, are  *)
(* processes of their own.  A step is one query with the code up to the    *)
(* next await; before it, the process waits for a connection.  Requests    *)
(* without a valid token or a header they need are refused before any      *)
(* query and left out.                                                     *)
(***************************************************************************)
EXTENDS Integers, FiniteSets

CONSTANTS
  Requests,    \* the requests of a behaviour; each is sent once
  Users,
  Roles,       \* the ids a role can get
  Groups,      \* the ids a franchise group can get
  Restaurants, \* the ids a restaurant can get
  Calls,       \* what each request can be: a user, the restaurant named in its
               \* header, and what it asks for
  Starts,      \* the contents of the database before the first request
  PoolSize,    \* connections in the pool
  None         \* no row

\* The permission an endpoint requires.
Permissions == {"ROLES", "USERS", "TENANTS", "FEATURE_FLAGS", "SALES"}

Requires ==
  [create_role |-> "ROLES", delete_role |-> "ROLES", assign_permission |-> "ROLES",
   remove_permission |-> "ROLES", remove_assignment |-> "USERS", create_group |-> "TENANTS",
   deactivate_group |-> "TENANTS", delete_groups |-> "TENANTS",
   create_restaurant |-> "TENANTS", upsert_flag |-> "FEATURE_FLAGS", sudo |-> "TENANTS",
   import |-> "SALES"]

Operation ==
  [op : DOMAIN Requires, role : Roles, permission : Permissions, user : Users,
   restaurant : Restaurants, group : Groups, groups : SUBSET Groups, value : BOOLEAN]

\* The tables a request reads or changes.
Database ==
  [active      : [Users -> BOOLEAN],
   assigned    : [Users \X Restaurants -> Roles \cup {None}],
   roles       : SUBSET Roles,
   grants      : SUBSET (Roles \X Permissions),
   groups      : [Groups -> {"absent", "live", "deactivated"}],
   restaurants : [Restaurants -> Groups \cup {None}],
   flags       : [Restaurants -> BOOLEAN]]

ASSUME PoolAssumption ==
  /\ PoolSize \in Nat
  /\ Groups \cap {"main", "login", "sudo_login", "audit"} = {}
  /\ Calls \in [Requests -> SUBSET (Users \X Restaurants \X Operation)]
  /\ Starts \subseteq Database

\* A request; the writes it does not wait for, sudoTenant's second login among them;
\* and the lookup of each franchise group it is to delete.
Jobs == {"login", "sudo_login", "audit"} \cup Groups
Procs == Requests \X ({"main"} \cup Jobs)
Main(r) == <<r, "main">>

VARIABLES
  db,     \* the tables
  free,   \* the pool's idle connections
  leaked, \* connections lost to the pool since the process started
  held,   \* how many connections each process has
  pc,     \* the query each process is about to make; "off" before it starts
  task,   \* what each request asks for, and the permissions resolved for it
  reply,  \* what each request was answered, or "none"
  audit,  \* the row each request has in audit_log, or "none"
  seen    \* history: whether the user of each request was active, and held the
          \* permission it requires, at some instant since it came in

vars == <<db, free, leaked, held, pc, task, reply, audit, seen>>

NoTask == [user |-> None]

-----------------------------------------------------------------------------
(* Handlers: the databases a query of the operation can leave; none when a   *)
(* constraint or a check refuses it.                                         *)

When(condition, d) == IF condition THEN {d} ELSE {}

CreateRole(d, o) == When(o.role \notin d.roles, [d EXCEPT !.roles = @ \cup {o.role}])

InUse(d, role) == role \in {g[1] : g \in d.grants} \cup {d.assigned[k] : k \in DOMAIN d.assigned}

DeleteRole(d, o) == When(~InUse(d, o.role), [d EXCEPT !.roles = @ \ {o.role}])

AssignPermission(d, o) ==
  When(o.role \in d.roles /\ <<o.role, o.permission>> \notin d.grants,
       [d EXCEPT !.grants = @ \cup {<<o.role, o.permission>>}])

RemovePermission(d, o) == {[d EXCEPT !.grants = @ \ {<<o.role, o.permission>>}]}

RemoveAssignment(d, o) ==
  LET k == <<o.user, o.restaurant>> IN
  {[d EXCEPT !.assigned[k] = IF @ = o.role THEN None ELSE @]}

CreateGroup(d, o) == When(d.groups[o.group] = "absent", [d EXCEPT !.groups[o.group] = "live"])

DeactivateGroup(d, o) ==
  When(d.groups[o.group] # "absent", [d EXCEPT !.groups[o.group] = "deactivated"])

\* One DELETE of all of them, refused when one still has a restaurant.
DeleteGroups(d, o) ==
  When(\A x \in Restaurants : d.restaurants[x] \notin o.groups,
       [d EXCEPT !.groups = [g \in Groups |-> IF g \in o.groups THEN "absent" ELSE @[g]]])

CreateRestaurant(d, o) ==
  When(d.restaurants[o.restaurant] = None /\ d.groups[o.group] # "absent",
       [d EXCEPT !.restaurants[o.restaurant] = o.group])

UpsertFlag(d, o, own) == {[d EXCEPT !.flags[own] = o.value]}

Outcome(d, o, own) ==
  CASE o.op = "create_role"       -> CreateRole(d, o)
    [] o.op = "delete_role"       -> DeleteRole(d, o)
    [] o.op = "assign_permission" -> AssignPermission(d, o)
    [] o.op = "remove_permission" -> RemovePermission(d, o)
    [] o.op = "remove_assignment" -> RemoveAssignment(d, o)
    [] o.op = "create_group"      -> CreateGroup(d, o)
    [] o.op = "deactivate_group"  -> DeactivateGroup(d, o)
    [] o.op = "delete_groups"     -> DeleteGroups(d, o)
    [] o.op = "create_restaurant" -> CreateRestaurant(d, o)
    [] o.op = "upsert_flag"       -> UpsertFlag(d, o, own)
    [] o.op \in {"sudo", "import"} -> {d}

\* Faulty variant of Resolve: used by no action.
AnyRestaurant(d, user, restaurant) ==
  {p \in Permissions : \E x \in Restaurants : <<d.assigned[<<user, x>>], p>> \in d.grants}

\* resolvePermissions: one SELECT over the joined tables.
Resolve(d, user, restaurant) ==
  {p \in Permissions : <<d.assigned[<<user, restaurant>>], p>> \in d.grants}

-----------------------------------------------------------------------------
Init ==
  /\ db \in Starts
  /\ free = PoolSize
  /\ leaked = 0
  /\ held = [p \in Procs |-> 0]
  /\ pc = [p \in Procs |-> "off"]
  /\ task = [r \in Requests |-> NoTask]
  /\ reply = [r \in Requests |-> "none"]
  /\ audit = [r \in Requests |-> "none"]
  /\ seen = [r \in Requests |-> [active |-> FALSE, permitted |-> FALSE]]

Over == {"off", "done", "failed", "lost"}
InFlight(r) == pc[Main(r)] \notin Over

Holds(d, user, restaurant, p) == <<d.assigned[<<user, restaurant>>], p>> \in d.grants

\* History: what is so for the user of a request after this step.
Track ==
  seen' = [r \in Requests |->
    IF pc'[Main(r)] \in Over THEN seen[r]
    ELSE LET t == task'[r] IN
         [active |-> seen[r].active \/ db'.active[t.user],
          permitted |-> seen[r].permitted
                          \/ Holds(db', t.user, t.restaurant, Requires[t.ask.op])]]

-----------------------------------------------------------------------------
(* Connections *)

\* How many connections a process has while it makes the query; the queries of an
\* import inside its transaction take a second one.
Need(query) ==
  IF query \in Over \cup {"lookups"} THEN 0 ELSE IF query = "inner" THEN 2 ELSE 1

\* TenantContextInterceptor has wrapped the handler and the audit row, not sudo's.
InContext(p) ==
  \/ pc[p] \in {"handler", "begin", "inner", "readback"}
  \/ pc[p] = "aside" /\ p[2] = "audit" /\ task[p[1]].ask.op # "sudo"
  \/ pc[p] = "aside" /\ p[2] \in Groups

Acquire(p) ==
  /\ held[p] < Need(pc[p])
  /\ free > 0
  /\ free' = free - 1
  /\ held' = [held EXCEPT ![p] = @ + 1]
  /\ UNCHANGED <<db, leaked, pc, task, reply, audit>> /\ Track

\* Faulty variant of ReleaseTo: used by no action.
KeptOnFailure(p, n) ==
  /\ held' = [held EXCEPT ![p] = n]
  /\ \E kept \in {0, held[p] - n} : free' = free + held[p] - n - kept

\* releaseConnection gives the connection back whether or not its reset worked.
ReleaseTo(p, n) ==
  /\ held' = [held EXCEPT ![p] = n]
  /\ free' = free + held[p] - n

\* The process goes on to its next query, and starts the jobs.
Goto(p, query, jobs) ==
  pc' = [q \in Procs |-> IF q = p THEN query
                         ELSE IF q[1] = p[1] /\ q[2] \in jobs THEN "aside" ELSE pc[q]]

\* Faulty variant of Answer: used by no action.
AnswerAndAudit(r, answer) ==
  /\ reply' = [reply EXCEPT ![r] = answer]
  /\ Goto(Main(r), "done", {"audit"})
  /\ ReleaseTo(Main(r), 0)

\* The request is answered; what the guards refuse never reaches AuditInterceptor.
Answer(r, answer) ==
  /\ reply' = [reply EXCEPT ![r] = answer]
  /\ Goto(Main(r), "done", IF answer = "refused" THEN {} ELSE {"audit"})
  /\ ReleaseTo(Main(r), 0)

-----------------------------------------------------------------------------
(* The request *)

Ready(p, query) == pc[p] = query /\ held[p] = Need(query)

Arrive(r, user, restaurant, o) ==
  /\ pc[Main(r)] = "off"
  /\ task' = [task EXCEPT ![r] =
       [user |-> user, restaurant |-> restaurant, ask |-> o, permissions |-> {}]]
  /\ pc' = [pc EXCEPT ![Main(r)] = "profile"]
  /\ UNCHANGED <<db, free, leaked, held, reply, audit>> /\ Track

\* findById: an account that is not active is refused.
Profile(r) ==
  /\ Ready(Main(r), "profile")
  /\ IF db.active[task[r].user]
     THEN Goto(Main(r), "group", {}) /\ ReleaseTo(Main(r), 0) /\ UNCHANGED reply
     ELSE Answer(r, "refused")
  /\ UNCHANGED <<db, leaked, task, audit>> /\ Track

\* getFranchiseGroupForRestaurant: deactivated or not, the restaurant must be there.
Group(r) ==
  /\ Ready(Main(r), "group")
  /\ IF db.restaurants[task[r].restaurant] # None
     THEN Goto(Main(r), "permissions", {}) /\ ReleaseTo(Main(r), 0) /\ UNCHANGED reply
     ELSE Answer(r, "refused")
  /\ UNCHANGED <<db, leaked, task, audit>> /\ Track

First(op) ==
  CASE op = "import"        -> "begin"
    [] op = "sudo"          -> "sudo"
    [] op = "delete_groups" -> "lookups"
    [] OTHER                -> "handler"

\* deleteFranchiseGroupsBulk looks every group up at once, each on a connection of its own.
Lookups(o) == IF o.op = "delete_groups" THEN o.groups ELSE {}

\* The permissions are kept for the request, the login is recorded on the side, and
\* PermissionsGuard lets the request through or not.  sudo-tenant has no guard: its
\* handler checks, and the audit row is written when it throws.
Authorise(r) ==
  /\ Ready(Main(r), "permissions")
  /\ LET t == task[r]
         permissions == Resolve(db, t.user, t.restaurant) IN
     /\ task' = [task EXCEPT ![r].permissions = permissions]
     /\ IF Requires[t.ask.op] \in permissions
        THEN /\ Goto(Main(r), First(t.ask.op), {"login"} \cup Lookups(t.ask))
             /\ UNCHANGED reply
        ELSE /\ Goto(Main(r), "done", {"login"} \cup IF t.ask.op = "sudo" THEN {"audit"} ELSE {})
             /\ reply' = [reply EXCEPT ![r] = IF t.ask.op = "sudo" THEN "error" ELSE "refused"]
     /\ ReleaseTo(Main(r), 0)
  /\ UNCHANGED <<db, leaked, audit>> /\ Track

\* sudoTenant reads the profile again and answers with every permission.
Sudo(r) ==
  /\ Ready(Main(r), "sudo")
  /\ reply' = [reply EXCEPT ![r] = "ok"]
  /\ Goto(Main(r), "done", {"sudo_login", "audit"})
  /\ ReleaseTo(Main(r), 0)
  /\ UNCHANGED <<db, leaked, task, audit>> /\ Track

\* Promise.all goes on when every group was read, and throws as soon as one read did; a
\* group that is not there is read as undefined and stays in the list to delete.
LookupsEnd(r) ==
  /\ pc[Main(r)] = "lookups"
  /\ LET looked == {pc[<<r, g>>] : g \in task[r].ask.groups} IN
     \/ /\ looked \subseteq {"done"}
        /\ Goto(Main(r), "handler", {}) /\ ReleaseTo(Main(r), 0) /\ UNCHANGED reply
     \/ /\ "failed" \in looked
        /\ Answer(r, "error")
  /\ UNCHANGED <<db, leaked, task, audit>> /\ Track

ReadsBack == {"create_role", "create_group", "create_restaurant"}

\* A handler's query; it may also be refused, or be done without its answer coming.
Handler(r) ==
  /\ Ready(Main(r), "handler")
  /\ LET o == task[r].ask
         outcome == Outcome(db, o, task[r].restaurant) IN
     \/ /\ db' \in outcome
        /\ IF o.op \in ReadsBack
           THEN Goto(Main(r), "readback", {}) /\ ReleaseTo(Main(r), 0) /\ UNCHANGED reply
           ELSE Answer(r, "ok")
     \/ /\ db' \in outcome
        /\ Answer(r, "error")
     \/ /\ outcome = {}
        /\ Answer(r, "error") /\ UNCHANGED db
  /\ UNCHANGED <<leaked, task, audit>> /\ Track

ReadBack(r) ==
  /\ Ready(Main(r), "readback")
  /\ Answer(r, "ok")
  /\ UNCHANGED <<db, leaked, task, audit>> /\ Track

\* A POS import: a transaction is begun, the recipes are read on another connection,
\* and the transaction is committed.
Import(r) ==
  /\ \/ /\ Ready(Main(r), "begin")
        /\ Goto(Main(r), "inner", {}) /\ UNCHANGED <<free, held, reply>>
     \/ /\ Ready(Main(r), "inner")
        /\ Goto(Main(r), "commit", {}) /\ ReleaseTo(Main(r), 1) /\ UNCHANGED reply
     \/ /\ Ready(Main(r), "commit")
        /\ Answer(r, "ok")
  /\ UNCHANGED <<db, leaked, task, audit>> /\ Track

GuardQueries == {"profile", "group", "permissions"}

\* A query throws: 500, audited once the interceptors are in place.
QueryFails(r) ==
  /\ InFlight(r) /\ pc[Main(r)] # "lookups"
  /\ held[Main(r)] = Need(pc[Main(r)])
  /\ Answer(r, IF pc[Main(r)] \in GuardQueries THEN "refused" ELSE "error")
  /\ UNCHANGED <<db, leaked, task, audit>> /\ Track

\* acquireConnection has a connection and set_tenant_context throws: no one gives that
\* connection back; one the process has from before is.
ContextFails(p) ==
  /\ InContext(p)
  /\ held[p] < Need(pc[p])
  /\ free > 0
  /\ leaked' = leaked + 1
  /\ IF p[2] = "main"
     THEN /\ reply' = [reply EXCEPT ![p[1]] = "error"]
          /\ Goto(p, "done", {"audit"})
     ELSE Goto(p, IF p[2] = "audit" THEN "done" ELSE "failed", {}) /\ UNCHANGED reply
  /\ free' = free - 1 + held[p]
  /\ held' = [held EXCEPT ![p] = 0]
  /\ UNCHANGED <<db, task, audit>> /\ Track

-----------------------------------------------------------------------------
(* Beside the request: the lookups, and the writes nobody waits for *)

GroupRead(p) ==
  /\ p[2] \in Groups /\ Ready(p, "aside")
  /\ \E end \in {"done", "failed"} : Goto(p, end, {})
  /\ ReleaseTo(p, 0)
  /\ UNCHANGED <<db, leaked, task, reply, audit>> /\ Track

LoginWritten(p) ==
  /\ p[2] \in {"login", "sudo_login"} /\ Ready(p, "aside")
  /\ Goto(p, "done", {}) /\ ReleaseTo(p, 0)
  /\ UNCHANGED <<db, leaked, task, reply, audit>> /\ Track

\* updateLastLogin rejects and nothing catches it: the process ends, with all it was
\* doing, and another one starts.
LoginFails(p) ==
  /\ p[2] \in {"login", "sudo_login"} /\ Ready(p, "aside")
  /\ pc' = [q \in Procs |-> IF pc[q] \in Over THEN pc[q] ELSE "lost"]
  /\ held' = [q \in Procs |-> 0]
  /\ free' = PoolSize /\ leaked' = 0
  /\ UNCHANGED <<db, task, reply, audit>> /\ Track

\* logAction catches what its INSERT throws.
AuditWritten(r) ==
  /\ Ready(<<r, "audit">>, "aside")
  /\ audit' = [audit EXCEPT ![r] = IF reply[r] = "ok" THEN "success" ELSE "failure"]
  /\ Goto(<<r, "audit">>, "done", {}) /\ ReleaseTo(<<r, "audit">>, 0)
  /\ UNCHANGED <<db, leaked, task, reply>> /\ Track

AuditFails(r) ==
  /\ Ready(<<r, "audit">>, "aside")
  /\ Goto(<<r, "audit">>, "done", {}) /\ ReleaseTo(<<r, "audit">>, 0)
  /\ UNCHANGED <<db, leaked, task, reply, audit>> /\ Track

\* External: an account is deactivated in the database.
Deactivate(user) ==
  /\ db.active[user]
  /\ db' = [db EXCEPT !.active[user] = FALSE]
  /\ UNCHANGED <<free, leaked, held, pc, task, reply, audit>> /\ Track

Request(r) ==
  \/ Profile(r) \/ Group(r) \/ Authorise(r) \/ Sudo(r) \/ LookupsEnd(r) \/ Handler(r)
  \/ ReadBack(r) \/ Import(r) \/ QueryFails(r)

Job(p) == GroupRead(p) \/ LoginWritten(p) \/ LoginFails(p)
AuditRow(r) == AuditWritten(r) \/ AuditFails(r)

Next ==
  \/ \E r \in Requests :
       \/ \E c \in Calls[r] : Arrive(r, c[1], c[2], c[3])
       \/ Request(r)
       \/ AuditRow(r)
  \/ \E p \in Procs : Acquire(p) \/ ContextFails(p) \/ Job(p)
  \/ \E user \in Users : Deactivate(user)

\* Some process that can go on does: the pool hands on what is given back, and the
\* database answers or fails.
Work ==
  \/ \E r \in Requests : Request(r) \/ AuditRow(r)
  \/ \E p \in Procs : Acquire(p) \/ Job(p)

Spec == Init /\ [][Next]_vars /\ WF_vars(Work)
-----------------------------------------------------------------------------
(* Properties *)

Queries == {"profile", "group", "permissions", "sudo", "lookups", "handler", "readback",
            "begin", "inner", "commit", "aside"}

Task == [user : Users, restaurant : Restaurants, ask : Operation,
         permissions : SUBSET Permissions]

TypeOK ==
  /\ db \in Database
  /\ free \in Nat /\ leaked \in Nat
  /\ held \in [Procs -> 0..2]
  /\ pc \in [Procs -> Queries \cup Over]
  /\ task \in [Requests -> Task \cup {NoTask}]
  /\ reply \in [Requests -> {"none", "ok", "error", "refused"}]
  /\ audit \in [Requests -> {"none", "success", "failure"}]
  /\ seen \in [Requests -> [active : BOOLEAN, permitted : BOOLEAN]]

\* The queries of a handler.
Behind == {"sudo", "lookups", "handler", "readback", "begin", "inner", "commit"}

\* No handler runs for a request whose user did not, at some instant since it came
\* in, have an active account and hold the permission the endpoint requires at the
\* restaurant it names, whatever other requests do to roles in the meantime.
OnlyAuthorised ==
  \A r \in Requests :
    pc[Main(r)] \in Behind \/ reply[r] = "ok" => seen[r].active /\ seen[r].permitted

\* audit_log says success only of what was answered with success, failure only of
\* what was not, and says nothing of what the guards refused.
AuditAgreesWithReply ==
  \A r \in Requests :
    /\ audit[r] = "success" => reply[r] = "ok"
    /\ audit[r] = "failure" => reply[r] = "error"

\* The imports whose transaction holds a connection and waits for a second one.
Waiting == {r \in Requests : pc[Main(r)] = "inner" /\ held[Main(r)] = 1}

\* Nothing will ever be given back: every connection is lost, or held by a transaction
\* that waits for one.
Dry == leaked + Cardinality(Waiting) >= PoolSize

\* Every request is answered or lost with its process, unless the whole pool is lost to
\* failed set_tenant_context calls and waiting imports: short of that nobody waits for
\* ever for a connection.
EveryRequestEnds == \A r \in Requests : InFlight(r) ~> ~InFlight(r) \/ Dry

-----------------------------------------------------------------------------
(* The strengthening of OnlyAuthorised and AuditAgreesWithReply, proved in    *)
(* ApiRequestsProofs.                                                         *)

\* What a request has passed on its way to the handler was so when it passed.
PassedTheGuards ==
  \A r \in Requests :
    LET behind == pc[Main(r)] \in Behind \/ reply[r] = "ok" IN
    /\ behind \/ pc[Main(r)] \in {"group", "permissions"} => seen[r].active
    /\ behind => seen[r].permitted

\* The audit write starts when the request is over and what it was answered stands.
AuditedWhenOver ==
  \A r \in Requests :
    /\ pc[<<r, "audit">>] # "off" => ~InFlight(r) /\ pc[Main(r)] # "off"
                                       /\ reply[r] \in {"ok", "error"}
    /\ audit[r] # "none" => pc[<<r, "audit">>] # "off"

InFlightHasTask == \A r \in Requests : InFlight(r) => task[r] \in Task

IInv ==
  TypeOK /\ InFlightHasTask /\ PassedTheGuards /\ AuditedWhenOver /\ AuditAgreesWithReply

-----------------------------------------------------------------------------
(* When connections come back, proved in ApiRequestsProofs.                   *)

\* The safety behind EveryRequestEnds: a connection is idle, or a process has all the
\* connections its query takes and will give back what it holds, or the pool is dry.
\* Requests, logins, lookups and audit writes never wait for each other's connections.
SomeConnectionComesBack ==
  \/ free > 0
  \/ \E p \in Procs : held[p] > 0 /\ held[p] = Need(pc[p])
  \/ IsFiniteSet(Waiting) /\ Dry

\* The connections the processes hold, numbered for each process.
Taken == {c \in Procs \X (1..2) : c[2] <= held[c[1]]}

\* Each connection of the pool is idle, lost or held by a process.
ConnectionsAddUp ==
  IsFiniteSet(Taken) /\ free + leaked + Cardinality(Taken) = PoolSize

\* Only requests, and none of their jobs, are ever inside a transaction.
Nesting == {"begin", "inner", "commit"}
OnlyMainsNest == \A p \in Procs : pc[p] \in Nesting => p[2] = "main"

PoolInv ==
  ConnectionsAddUp /\ OnlyMainsNest /\ \A p \in Procs : held[p] <= Need(pc[p])
=============================================================================
