-------------------------- MODULE ApiRequestsProofs --------------------------
(***************************************************************************)
(* Theorems about ApiRequests, for any number of requests, users, roles,   *)
(* groups and restaurants, whatever is asked, any pool and any database to *)
(* start from.                                                             *)
(***************************************************************************)
EXTENDS ApiRequests, FiniteSetTheorems, TLAPS

LEMMA ProcsAre ==
  ASSUME NEW r \in Requests
  PROVE  Main(r) \in Procs /\ <<r, "audit">> \in Procs
BY DEF Main, Procs, Jobs

LEMMA ProcHasRequest ==
  ASSUME NEW p \in Procs
  PROVE  /\ p[1] \in Requests /\ p = <<p[1], p[2]>>
         /\ p[2] = "main" \/ p[2] \in Jobs
BY DEF Procs

\* Goto moves one process and starts jobs of the same request.
LEMMA GotoEffect ==
  ASSUME pc \in [Procs -> Queries \cup Over], NEW p \in Procs,
         NEW query \in Queries \cup Over, NEW jobs \in SUBSET Jobs, Goto(p, query, jobs)
  PROVE  /\ pc' \in [Procs -> Queries \cup Over]
         /\ pc'[p] = query
         /\ \A r \in Requests : Main(r) # p => pc'[Main(r)] = pc[Main(r)]
         /\ \A r \in Requests : <<r, "audit">> # p =>
              pc'[<<r, "audit">>] = IF r = p[1] /\ "audit" \in jobs THEN "aside"
                                    ELSE pc[<<r, "audit">>]
<1>1. \A q \in Procs :
        pc'[q] = IF q = p THEN query
                 ELSE IF q[1] = p[1] /\ q[2] \in jobs THEN "aside" ELSE pc[q]
  BY DEF Goto
<1>2. pc' \in [Procs -> Queries \cup Over]  BY DEF Goto, Queries
<1>3. ASSUME NEW r \in Requests, Main(r) # p PROVE pc'[Main(r)] = pc[Main(r)]
  <2>1. Main(r) \in Procs /\ Main(r)[2] = "main" /\ "main" \notin jobs
    BY ProcsAre, PoolAssumption DEF Main, Jobs
  <2> QED  BY <1>1, <1>3, <2>1
<1>4. ASSUME NEW r \in Requests, <<r, "audit">> # p
      PROVE  pc'[<<r, "audit">>] = IF r = p[1] /\ "audit" \in jobs THEN "aside"
                                   ELSE pc[<<r, "audit">>]
  <2>1. <<r, "audit">> \in Procs  BY ProcsAre
  <2> QED  BY <1>1, <1>4, <2>1
<1> QED  BY <1>1, <1>2, <1>3, <1>4

\* What was so for a request stays so, and what is so now is noted.
LEMMA TrackEffect ==
  ASSUME TypeOK, Track
  PROVE  /\ seen' \in [Requests -> [active : BOOLEAN, permitted : BOOLEAN]]
         /\ \A r \in Requests :
              /\ seen[r].active => seen'[r].active
              /\ seen[r].permitted => seen'[r].permitted
              /\ pc'[Main(r)] \notin Over =>
                   /\ db'.active[task'[r].user] => seen'[r].active
                   /\ Holds(db', task'[r].user, task'[r].restaurant,
                            Requires[task'[r].ask.op]) => seen'[r].permitted
<1> SUFFICES ASSUME NEW r \in Requests
             PROVE  /\ seen'[r] \in [active : BOOLEAN, permitted : BOOLEAN]
                    /\ seen[r].active => seen'[r].active
                    /\ seen[r].permitted => seen'[r].permitted
                    /\ pc'[Main(r)] \notin Over =>
                         /\ db'.active[task'[r].user] => seen'[r].active
                         /\ Holds(db', task'[r].user, task'[r].restaurant,
                                  Requires[task'[r].ask.op]) => seen'[r].permitted
  BY DEF Track
<1> DEFINE t == task'[r]
           now == Holds(db', t.user, t.restaurant, Requires[t.ask.op])
<1>1. seen'[r] = IF pc'[Main(r)] \in Over THEN seen[r]
                 ELSE [active |-> seen[r].active \/ db'.active[t.user],
                       permitted |-> seen[r].permitted \/ now]
  BY DEF Track
<1>2. seen[r] \in [active : BOOLEAN, permitted : BOOLEAN]  BY DEF TypeOK
<1>3. CASE pc'[Main(r)] \in Over  BY <1>1, <1>2, <1>3
<1>4. CASE pc'[Main(r)] \notin Over
  <2> HIDE DEF now
  <2>1. /\ seen'[r].active = (seen[r].active \/ db'.active[t.user])
        /\ seen'[r].permitted = (seen[r].permitted \/ now)
        /\ seen'[r] \in [active : BOOLEAN, permitted : BOOLEAN]
    BY <1>1, <1>4
  <2> QED  BY <1>4, <2>1 DEF now
<1> QED  BY <1>3, <1>4

\* A step of a request keeps the invariant when it starts the audit write only with
\* the answer, and goes on to the handler only past the guards.
LEMMA MainStep ==
  ASSUME IInv, Track, NEW r \in Requests, InFlight(r),
         NEW query \in Queries \cup {"done"}, NEW jobs \in SUBSET Jobs,
         Goto(Main(r), query, jobs),
         reply' \in [Requests -> {"none", "ok", "error", "refused"}],
         \A q \in Requests \ {r} : reply'[q] = reply[q],
         audit' = audit,
         "audit" \in jobs => query = "done" /\ reply'[r] \in {"ok", "error"},
         query \in Behind \cup {"group", "permissions"} \/ reply'[r] = "ok" => seen'[r].active,
         query \in Behind \/ reply'[r] = "ok" => seen'[r].permitted
  PROVE  PassedTheGuards' /\ AuditedWhenOver' /\ AuditAgreesWithReply'
<1>0. TypeOK /\ Main(r) \in Procs /\ query \in Queries \cup Over /\ "done" \in Over
  BY ProcsAre DEF IInv, Over
<1>1. /\ pc'[Main(r)] = query
      /\ \A q \in Requests : Main(q) # Main(r) => pc'[Main(q)] = pc[Main(q)]
      /\ \A q \in Requests : <<q, "audit">> # Main(r) =>
           pc'[<<q, "audit">>] = IF q = Main(r)[1] /\ "audit" \in jobs THEN "aside"
                                 ELSE pc[<<q, "audit">>]
  BY <1>0, GotoEffect DEF TypeOK
<1>2. /\ \A q \in Requests \ {r} : pc'[Main(q)] = pc[Main(q)]
      /\ \A q \in Requests :
           pc'[<<q, "audit">>] = IF q = r /\ "audit" \in jobs THEN "aside"
                                 ELSE pc[<<q, "audit">>]
  BY <1>1 DEF Main
<1>3. \A q \in Requests : /\ seen[q].active => seen'[q].active
                          /\ seen[q].permitted => seen'[q].permitted
  BY <1>0, TrackEffect
<1>4. PassedTheGuards'
  <2> SUFFICES ASSUME NEW q \in Requests
               PROVE  LET behind == pc'[Main(q)] \in Behind \/ reply'[q] = "ok" IN
                      /\ behind \/ pc'[Main(q)] \in {"group", "permissions"} => seen'[q].active
                      /\ behind => seen'[q].permitted
    BY DEF PassedTheGuards
  <2>1. CASE q = r  BY <1>1, <2>1
  <2>2. CASE q # r  BY <1>2, <1>3, <2>2 DEF IInv, PassedTheGuards
  <2> QED  BY <2>1, <2>2
<1>5. pc[<<r, "audit">>] = "off" /\ audit[r] = "none"
  BY DEF IInv, AuditedWhenOver
<1>6. AuditedWhenOver'
  <2> SUFFICES ASSUME NEW q \in Requests
               PROVE  /\ pc'[<<q, "audit">>] # "off" => /\ pc'[Main(q)] \in Over \ {"off"}
                                                        /\ reply'[q] \in {"ok", "error"}
                      /\ audit'[q] # "none" => pc'[<<q, "audit">>] # "off"
    BY DEF AuditedWhenOver, InFlight
  <2>1. CASE q = r  BY <1>1, <1>2, <1>5, <2>1, "done" # "off" DEF Over
  <2>2. CASE q # r  BY <1>2, <2>2 DEF IInv, AuditedWhenOver, InFlight
  <2> QED  BY <2>1, <2>2
<1>7. AuditAgreesWithReply'
  <2> SUFFICES ASSUME NEW q \in Requests
               PROVE  /\ audit'[q] = "success" => reply'[q] = "ok"
                      /\ audit'[q] = "failure" => reply'[q] = "error"
    BY DEF AuditAgreesWithReply
  <2>1. CASE q = r  BY <1>5, <2>1
  <2>2. CASE q # r  BY <2>2 DEF IInv, AuditAgreesWithReply
  <2> QED  BY <2>1, <2>2
<1> QED  BY <1>4, <1>6, <1>7

\* The process writes the row of its request.
RowOf(p) ==
  /\ p[2] = "audit"
  /\ audit' = [audit EXCEPT ![p[1]] = IF reply[p[1]] = "ok" THEN "success" ELSE "failure"]

\* A step of a job keeps what is said of the requests; an audit row says what its
\* request was answered.
LEMMA JobStep ==
  ASSUME IInv, Track, NEW p \in Procs, p[2] # "main", pc[p] # "off",
         NEW end \in {"done", "failed"}, Goto(p, end, {}), reply' = reply,
         audit' = audit \/ RowOf(p)
  PROVE  PassedTheGuards' /\ AuditedWhenOver' /\ AuditAgreesWithReply'
<1>0. TypeOK /\ end \in Queries \cup Over /\ {} \in SUBSET Jobs
  BY DEF IInv, Over
<1>1. /\ pc'[p] = end
      /\ \A q \in Requests : Main(q) # p => pc'[Main(q)] = pc[Main(q)]
      /\ \A q \in Requests : <<q, "audit">> # p => pc'[<<q, "audit">>] = pc[<<q, "audit">>]
  BY <1>0, GotoEffect DEF TypeOK
<1>2. \A q \in Requests :
        /\ pc'[Main(q)] = pc[Main(q)]
        /\ pc'[<<q, "audit">>] # "off" <=> pc[<<q, "audit">>] # "off"
  <2> SUFFICES ASSUME NEW q \in Requests
               PROVE  /\ pc'[Main(q)] = pc[Main(q)]
                      /\ pc'[<<q, "audit">>] # "off" <=> pc[<<q, "audit">>] # "off"
    OBVIOUS
  <2>1. Main(q) # p  BY DEF Main
  <2>2. CASE <<q, "audit">> = p  BY <1>1, <2>1, <2>2
  <2>3. CASE <<q, "audit">> # p  BY <1>1, <2>1, <2>3
  <2> QED  BY <2>2, <2>3
<1>3. \A q \in Requests : /\ seen[q].active => seen'[q].active
                          /\ seen[q].permitted => seen'[q].permitted
  BY <1>0, TrackEffect
<1>4. PassedTheGuards'  BY <1>2, <1>3 DEF IInv, PassedTheGuards
<1>5. \A q \in Requests : audit'[q] = audit[q]
        \/ /\ q = p[1] /\ pc[<<q, "audit">>] # "off"
           /\ audit'[q] = IF reply[q] = "ok" THEN "success" ELSE "failure"
  BY <1>0, ProcHasRequest DEF TypeOK, RowOf
<1>6. AuditedWhenOver'
  BY <1>2, <1>5 DEF IInv, AuditedWhenOver, InFlight
<1>7. AuditAgreesWithReply'
  <2> SUFFICES ASSUME NEW q \in Requests
               PROVE  /\ audit'[q] = "success" => reply[q] = "ok"
                      /\ audit'[q] = "failure" => reply[q] = "error"
    BY DEF AuditAgreesWithReply
  <2>1. CASE audit'[q] = audit[q]  BY <2>1 DEF IInv, AuditAgreesWithReply
  <2>2. CASE audit'[q] # audit[q]
    <3>1. reply[q] \in {"ok", "error"}  BY <1>5, <2>2 DEF IInv, AuditedWhenOver
    <3>2. audit'[q] = IF reply[q] = "ok" THEN "success" ELSE "failure"  BY <1>5, <2>2
    <3> QED  BY <3>1, <3>2
  <2> QED  BY <2>1, <2>2
<1> QED  BY <1>4, <1>6, <1>7

LEMMA InitIInv == Init => IInv
<1> SUFFICES ASSUME Init PROVE IInv  OBVIOUS
<1>1. TypeOK  BY PoolAssumption DEF Init, TypeOK, Over
<1>2. PassedTheGuards  BY ProcsAre DEF Init, PassedTheGuards, Behind
<1>3. AuditedWhenOver  BY ProcsAre DEF Init, AuditedWhenOver
<1>4. AuditAgreesWithReply  BY DEF Init, AuditAgreesWithReply
<1>5. InFlightHasTask  BY ProcsAre DEF Init, InFlightHasTask, InFlight, Over
<1> QED  BY <1>1, <1>2, <1>3, <1>4, <1>5 DEF IInv

-----------------------------------------------------------------------------
(* Types *)

\* A handler leaves a database.
LEMMA OutcomeType ==
  ASSUME NEW d \in Database, NEW o \in Operation, NEW own \in Restaurants,
         NEW e \in Outcome(d, o, own)
  PROVE  e \in Database
<1> USE DEF Database, Operation
<1>0. DOMAIN Requires =
        {"create_role", "delete_role", "assign_permission", "remove_permission",
         "remove_assignment", "create_group", "deactivate_group", "delete_groups",
         "create_restaurant", "upsert_flag", "sudo", "import"}
  BY DEF Requires
<1>1. ASSUME e \in CreateRole(d, o) PROVE e \in Database
  BY <1>1 DEF CreateRole, When
<1>2. ASSUME e \in DeleteRole(d, o) PROVE e \in Database
  <2>1. e = [d EXCEPT !.roles = d.roles \ {o.role}]
    <3> DEFINE used == InUse(d, o.role)
    <3>1. e \in IF ~used THEN {[d EXCEPT !.roles = d.roles \ {o.role}]} ELSE {}
      BY <1>2, Zenon DEF DeleteRole, When
    <3> HIDE DEF used
    <3> QED  BY <3>1
  <2> QED  BY <2>1
<1>3. ASSUME e \in AssignPermission(d, o) PROVE e \in Database
  <2>1. e = [d EXCEPT !.grants = d.grants \cup {<<o.role, o.permission>>}]
    BY <1>3 DEF AssignPermission, When
  <2>2. d.grants \cup {<<o.role, o.permission>>} \in SUBSET (Roles \X Permissions)
    OBVIOUS
  <2> QED  BY <2>1, <2>2
<1>4. ASSUME e \in RemovePermission(d, o) PROVE e \in Database
  BY <1>4 DEF RemovePermission
<1>5. ASSUME e \in RemoveAssignment(d, o) PROVE e \in Database
  <2> DEFINE k == <<o.user, o.restaurant>>
             x == IF d.assigned[k] = o.role THEN None ELSE d.assigned[k]
  <2>1. e = [d EXCEPT !.assigned = [d.assigned EXCEPT ![k] = x]]
    BY <1>5 DEF RemoveAssignment
  <2>2. k \in Users \X Restaurants  OBVIOUS
  <2>3. x \in Roles \cup {None}  BY <2>2
  <2>4. [d.assigned EXCEPT ![k] = x] \in [Users \X Restaurants -> Roles \cup {None}]
    BY <2>2, <2>3
  <2> HIDE DEF k, x
  <2> QED  BY <2>1, <2>4
<1>6. ASSUME e \in CreateGroup(d, o) PROVE e \in Database
  BY <1>6 DEF CreateGroup, When
<1>7. ASSUME e \in DeactivateGroup(d, o) PROVE e \in Database
  BY <1>7 DEF DeactivateGroup, When
<1>8. ASSUME e \in DeleteGroups(d, o) PROVE e \in Database
  BY <1>8 DEF DeleteGroups, When
<1>9. ASSUME e \in CreateRestaurant(d, o) PROVE e \in Database
  BY <1>9 DEF CreateRestaurant, When
<1>10. ASSUME e \in UpsertFlag(d, o, own) PROVE e \in Database
  BY <1>10 DEF UpsertFlag
<1> QED
  <2> o.op \in DOMAIN Requires  OBVIOUS
  <2> HIDE DEF Database, Operation
  <2> QED  BY <1>0, <1>1, <1>2, <1>3, <1>4, <1>5, <1>6, <1>7, <1>8, <1>9, <1>10 DEF Outcome

LEMMA ReleaseType ==
  ASSUME TypeOK, NEW p \in Procs, NEW n \in 0..2, n <= held[p], ReleaseTo(p, n)
  PROVE  free' \in Nat /\ held' \in [Procs -> 0..2]
BY DEF ReleaseTo, TypeOK

\* MainStep with the types: what every action of a request has to show.
LEMMA RequestStep ==
  ASSUME IInv, Track, NEW r \in Requests, InFlight(r),
         NEW query \in Queries \cup {"done"}, NEW jobs \in SUBSET Jobs,
         Goto(Main(r), query, jobs),
         NEW answer \in {"ok", "error", "refused"},
         reply' = reply \/ reply' = [reply EXCEPT ![r] = answer],
         audit' = audit, db' \in Database, free' \in Nat, leaked' \in Nat,
         held' \in [Procs -> 0..2],
         NEW t \in Task, task' = [task EXCEPT ![r] = t],
         "audit" \in jobs => query = "done" /\ reply'[r] \in {"ok", "error"},
         query \in Behind \cup {"group", "permissions"} \/ reply'[r] = "ok" => seen'[r].active,
         query \in Behind \/ reply'[r] = "ok" => seen'[r].permitted
  PROVE  IInv'
<1>0. TypeOK /\ Main(r) \in Procs /\ query \in Queries \cup Over
  BY ProcsAre DEF IInv, Over
<1>1. /\ reply' \in [Requests -> {"none", "ok", "error", "refused"}]
      /\ \A q \in Requests \ {r} : reply'[q] = reply[q]
  BY <1>0 DEF TypeOK
<1>2. pc' \in [Procs -> Queries \cup Over]  BY <1>0, GotoEffect DEF TypeOK
<1>3. seen' \in [Requests -> [active : BOOLEAN, permitted : BOOLEAN]]
  BY <1>0, TrackEffect
<1>4. task' \in [Requests -> Task \cup {NoTask}]  BY <1>0 DEF TypeOK
<1>5. TypeOK'  BY <1>0, <1>1, <1>2, <1>3, <1>4 DEF TypeOK
<1>6. PassedTheGuards' /\ AuditedWhenOver' /\ AuditAgreesWithReply'  BY <1>1, MainStep
<1>7. InFlightHasTask'
  <2> SUFFICES ASSUME NEW q \in Requests, InFlight(q)' PROVE task'[q] \in Task
    BY DEF InFlightHasTask
  <2>1. CASE q = r  BY <1>0, <2>1 DEF TypeOK
  <2>2. CASE q # r
    <3>1. Main(q) # Main(r)  BY <2>2 DEF Main
    <3>2. pc'[Main(q)] = pc[Main(q)]  BY <1>0, <3>1, GotoEffect DEF TypeOK
    <3> QED  BY <1>0, <2>2, <3>2 DEF IInv, InFlightHasTask, InFlight, TypeOK
  <2> QED  BY <2>1, <2>2
<1> QED  BY <1>5, <1>6, <1>7 DEF IInv

LEMMA AnswerKeeps ==
  ASSUME IInv, Track, NEW r \in Requests, InFlight(r), NEW answer \in {"ok", "error", "refused"},
         Answer(r, answer), answer = "ok" => pc[Main(r)] \in Behind,
         db' \in Database, UNCHANGED <<leaked, task, audit>>
  PROVE  IInv'
<1>0. TypeOK /\ Main(r) \in Procs  BY ProcsAre DEF IInv
<1> DEFINE jobs == IF answer = "refused" THEN {} ELSE {"audit"}
<1>1. /\ reply' = [reply EXCEPT ![r] = answer] /\ reply'[r] = answer
      /\ Goto(Main(r), "done", jobs)
      /\ ReleaseTo(Main(r), 0)
  BY <1>0 DEF Answer, TypeOK
<1>2. free' \in Nat /\ held' \in [Procs -> 0..2]
  <2>1. 0 \in 0..2 /\ 0 <= held[Main(r)]  BY <1>0 DEF TypeOK
  <2> QED  BY <1>0, <1>1, <2>1, ReleaseType
<1>3. jobs \in SUBSET Jobs /\ ("audit" \in jobs => answer \in {"ok", "error"})  BY DEF Jobs
<1>4. answer = "ok" => seen'[r].active /\ seen'[r].permitted
  BY <1>0, TrackEffect DEF IInv, PassedTheGuards
<1>5. leaked' \in Nat /\ task[r] \in Task /\ task' = [task EXCEPT ![r] = task[r]]
  BY <1>0 DEF TypeOK, IInv, InFlightHasTask
<1>6. "done" \notin Behind \cup {"group", "permissions"}  BY DEF Behind
<1> HIDE DEF jobs
<1> QED  BY <1>1, <1>2, <1>3, <1>4, <1>5, <1>6, RequestStep

\* Going on to the next query without an answer.
LEMMA GoesOnKeeps ==
  ASSUME IInv, Track, NEW r \in Requests, InFlight(r), NEW query \in Queries,
         Goto(Main(r), query, {}), free' \in Nat, held' \in [Procs -> 0..2],
         db' \in Database, UNCHANGED <<leaked, task, reply, audit>>,
         query \in Behind \cup {"group", "permissions"} => seen'[r].active,
         query \in Behind => seen'[r].permitted
  PROVE  IInv'
<1>0. TypeOK  BY DEF IInv
<1>1. reply'[r] = "ok" => seen'[r].active /\ seen'[r].permitted
  BY <1>0, TrackEffect DEF IInv, PassedTheGuards
<1>2. leaked' \in Nat /\ task[r] \in Task /\ task' = [task EXCEPT ![r] = task[r]]
  BY <1>0 DEF TypeOK, IInv, InFlightHasTask
<1>3. {} \in SUBSET Jobs /\ "audit" \notin {} /\ "ok" \in {"ok", "error", "refused"}
      /\ query \in Queries \cup {"done"} /\ reply' = reply /\ audit' = audit
  OBVIOUS
<1>4. /\ query \in Behind \cup {"group", "permissions"} \/ reply'[r] = "ok" => seen'[r].active
      /\ query \in Behind \/ reply'[r] = "ok" => seen'[r].permitted
      /\ "audit" \in {} => query = "done" /\ reply'[r] \in {"ok", "error"}
  BY <1>1
<1> DEFINE none == {}
<1>5. none \in SUBSET Jobs /\ Goto(Main(r), query, none)
      /\ ("audit" \in none => query = "done" /\ reply'[r] \in {"ok", "error"})
  OBVIOUS
<1> HIDE DEF none
<1> QED  BY <1>1, <1>2, <1>3, <1>4, <1>5, RequestStep

LEMMA ReadyIsInFlight ==
  ASSUME NEW r \in Requests, NEW query \in Queries, Ready(Main(r), query)
  PROVE  InFlight(r) /\ pc[Main(r)] = query
BY DEF Ready, InFlight, Over, Queries

\* Giving back every connection after a query.
LEMMA ReleasedType ==
  ASSUME TypeOK, NEW p \in Procs, ReleaseTo(p, 0)
  PROVE  free' \in Nat /\ held' \in [Procs -> 0..2]
<1>1. 0 \in 0..2 /\ 0 <= held[p]  BY DEF TypeOK
<1> QED  BY <1>1, ReleaseType

LEMMA ProfileKeeps ==
  ASSUME IInv, NEW r \in Requests, Profile(r)
  PROVE  IInv'
<1>0. TypeOK /\ Main(r) \in Procs  BY ProcsAre DEF IInv
<1>1. /\ Track /\ db' = db /\ db' \in Database /\ UNCHANGED <<leaked, task, audit>>
      /\ InFlight(r) /\ pc[Main(r)] = "profile"
  BY <1>0, ReadyIsInFlight DEF Profile, TypeOK, Queries
<1>2. CASE db.active[task[r].user]
  <2>1. Goto(Main(r), "group", {}) /\ ReleaseTo(Main(r), 0) /\ reply' = reply
    BY <1>2 DEF Profile
  <2>2. pc'[Main(r)] = "group" /\ "group" \in Queries /\ "group" \notin Over
    BY <1>0, <2>1, GotoEffect DEF TypeOK, Queries, Over
  <2>3. seen'[r].active  BY <1>0, <1>1, <1>2, <2>2, TrackEffect
  <2>4. "group" \notin Behind  BY DEF Behind
  <2> QED  BY <1>0, <1>1, <2>1, <2>2, <2>3, <2>4, ReleasedType, GoesOnKeeps
<1>3. CASE ~db.active[task[r].user]
  <2>1. Answer(r, "refused")  BY <1>3 DEF Profile
  <2> QED  BY <1>1, <2>1, AnswerKeeps
<1> QED  BY <1>2, <1>3

LEMMA GroupKeeps ==
  ASSUME IInv, NEW r \in Requests, Group(r)
  PROVE  IInv'
<1>0. TypeOK /\ Main(r) \in Procs  BY ProcsAre DEF IInv
<1>1. /\ Track /\ db' = db /\ db' \in Database /\ UNCHANGED <<leaked, task, audit>>
      /\ InFlight(r) /\ pc[Main(r)] = "group"
  BY <1>0, ReadyIsInFlight DEF Group, TypeOK, Queries
<1>2. CASE Goto(Main(r), "permissions", {}) /\ ReleaseTo(Main(r), 0) /\ reply' = reply
  <2>1. seen'[r].active  BY <1>0, <1>1, TrackEffect DEF IInv, PassedTheGuards
  <2>2. "permissions" \notin Behind /\ "permissions" \in Queries  BY DEF Behind, Queries
  <2> QED  BY <1>0, <1>1, <1>2, <2>1, <2>2, ReleasedType, GoesOnKeeps
<1>3. CASE Answer(r, "refused")  BY <1>1, <1>3, AnswerKeeps
<1> QED  BY <1>2, <1>3 DEF Group

\* PermissionsGuard lets through only what the resolved permissions hold.
LEMMA AuthoriseKeeps ==
  ASSUME IInv, NEW r \in Requests, Authorise(r)
  PROVE  IInv'
<1>0. TypeOK /\ Main(r) \in Procs  BY ProcsAre DEF IInv
<1> DEFINE t == task[r]
           permissions == Resolve(db, t.user, t.restaurant)
<1>1. /\ Track /\ db' = db /\ db' \in Database /\ leaked' = leaked /\ leaked' \in Nat
      /\ audit' = audit /\ InFlight(r) /\ pc[Main(r)] = "permissions"
      /\ task' = [task EXCEPT ![r].permissions = permissions]
      /\ ReleaseTo(Main(r), 0)
  BY <1>0, ReadyIsInFlight DEF Authorise, TypeOK, Queries
<1>2. free' \in Nat /\ held' \in [Procs -> 0..2]  BY <1>0, <1>1, ReleasedType
<1>3. seen'[r].active  BY <1>0, <1>1, TrackEffect DEF IInv, PassedTheGuards
<1>6. /\ [t EXCEPT !.permissions = permissions] \in Task
      /\ task' = [task EXCEPT ![r] = [t EXCEPT !.permissions = permissions]]
  BY <1>0, <1>1 DEF IInv, InFlightHasTask, Task, Resolve
<1>4. CASE Requires[t.ask.op] \in permissions
  <2> DEFINE jobs == {"login"} \cup Lookups(t.ask)
  <2>1. Goto(Main(r), First(t.ask.op), jobs) /\ reply' = reply
    BY <1>4 DEF Authorise
  <2>2. First(t.ask.op) \in Queries /\ First(t.ask.op) \notin Over
    BY DEF First, Queries, Over
  <2>3. jobs \in SUBSET Jobs /\ "audit" \notin jobs
    BY <1>1, PoolAssumption DEF Jobs, Lookups, IInv, InFlightHasTask, Task, Operation
  <2> HIDE DEF jobs
  <2>4. pc'[Main(r)] = First(t.ask.op)
    BY <1>0, <2>1, <2>2, <2>3, GotoEffect DEF TypeOK
  <2>5. /\ task'[r].user = t.user /\ task'[r].restaurant = t.restaurant
        /\ task'[r].ask = t.ask
    BY <1>0, <1>6 DEF TypeOK, Task
  <2>6. Holds(db', t.user, t.restaurant, Requires[t.ask.op])
    BY <1>1, <1>4 DEF Resolve, Holds
  <2>7. seen'[r].permitted  BY <1>0, <1>1, <2>2, <2>4, <2>5, <2>6, TrackEffect
  <2> QED  BY <1>1, <1>2, <1>3, <1>6, <2>1, <2>2, <2>3, <2>7, RequestStep
<1>5. CASE Requires[t.ask.op] \notin permissions
  <2> DEFINE jobs == {"login"} \cup IF t.ask.op = "sudo" THEN {"audit"} ELSE {}
             answer == IF t.ask.op = "sudo" THEN "error" ELSE "refused"
  <2>1. Goto(Main(r), "done", jobs) /\ reply' = [reply EXCEPT ![r] = answer]
    BY <1>5 DEF Authorise
  <2>2. /\ jobs \in SUBSET Jobs /\ answer \in {"ok", "error", "refused"} /\ answer # "ok"
        /\ "audit" \in jobs => answer = "error"
    BY DEF Jobs
  <2>3. reply'[r] = answer  BY <1>0, <2>1 DEF TypeOK
  <2>4. "done" \notin Behind \cup {"group", "permissions"}  BY DEF Behind
  <2> HIDE DEF jobs, answer
  <2> QED  BY <1>1, <1>2, <1>3, <1>6, <2>1, <2>2, <2>3, <2>4, RequestStep
<1> QED  BY <1>4, <1>5

LEMMA SudoKeeps ==
  ASSUME IInv, NEW r \in Requests, Sudo(r)
  PROVE  IInv'
<1>0. TypeOK /\ Main(r) \in Procs  BY ProcsAre DEF IInv
<1>1. /\ Track /\ db' = db /\ db' \in Database /\ leaked' = leaked /\ leaked' \in Nat
      /\ audit' = audit /\ InFlight(r) /\ pc[Main(r)] = "sudo"
      /\ reply' = [reply EXCEPT ![r] = "ok"] /\ reply'[r] = "ok"
      /\ Goto(Main(r), "done", {"sudo_login", "audit"}) /\ ReleaseTo(Main(r), 0)
      /\ task[r] \in Task /\ task' = [task EXCEPT ![r] = task[r]]
  BY <1>0, ReadyIsInFlight DEF Sudo, TypeOK, Queries, IInv, InFlightHasTask
<1>2. free' \in Nat /\ held' \in [Procs -> 0..2]  BY <1>0, <1>1, ReleasedType
<1>3. seen'[r].active /\ seen'[r].permitted
  BY <1>0, <1>1, TrackEffect DEF IInv, PassedTheGuards, Behind
<1>4. {"sudo_login", "audit"} \in SUBSET Jobs  BY DEF Jobs
<1> QED  BY <1>1, <1>2, <1>3, <1>4, RequestStep

\* The lookups over, the handler goes on, still behind the guards, or the request is over.
LEMMA LookupsEndKeeps ==
  ASSUME IInv, NEW r \in Requests, LookupsEnd(r)
  PROVE  IInv'
<1>0. TypeOK /\ Main(r) \in Procs  BY ProcsAre DEF IInv
<1>1. /\ Track /\ db' = db /\ db' \in Database /\ UNCHANGED <<leaked, task, audit>>
      /\ InFlight(r) /\ pc[Main(r)] \in Behind
  BY <1>0 DEF LookupsEnd, TypeOK, InFlight, Over, Behind
<1>2. CASE Goto(Main(r), "handler", {}) /\ ReleaseTo(Main(r), 0) /\ reply' = reply
  <2>1. seen'[r].active /\ seen'[r].permitted
    BY <1>0, <1>1, TrackEffect DEF IInv, PassedTheGuards
  <2>2. "handler" \in Queries  BY DEF Queries
  <2> QED  BY <1>0, <1>1, <1>2, <2>1, <2>2, ReleasedType, GoesOnKeeps
<1>3. CASE Answer(r, "error")  BY <1>1, <1>3, AnswerKeeps
<1> QED  BY <1>2, <1>3 DEF LookupsEnd

LEMMA HandlerKeeps ==
  ASSUME IInv, NEW r \in Requests, Handler(r)
  PROVE  IInv'
<1>0. TypeOK /\ Main(r) \in Procs  BY ProcsAre DEF IInv
<1> DEFINE o == task[r].ask
           outcome == Outcome(db, o, task[r].restaurant)
<1>1. /\ Track /\ UNCHANGED <<leaked, task, audit>>
      /\ InFlight(r) /\ pc[Main(r)] = "handler" /\ pc[Main(r)] \in Behind
  BY ReadyIsInFlight DEF Handler, Queries, Behind
<1>2. \A e \in outcome : e \in Database
  <2>1. o \in Operation /\ task[r].restaurant \in Restaurants
    BY <1>1 DEF IInv, InFlightHasTask, Task
  <2> QED  BY <1>0, <2>1, OutcomeType DEF TypeOK
<1>3. db \in Database  BY <1>0 DEF TypeOK
<1>4. CASE db' \in outcome /\ Goto(Main(r), "readback", {}) /\ ReleaseTo(Main(r), 0)
           /\ reply' = reply
  <2>1. seen'[r].active /\ seen'[r].permitted
    BY <1>0, <1>1, TrackEffect DEF IInv, PassedTheGuards
  <2>2. "readback" \in Queries  BY DEF Queries
  <2> QED  BY <1>0, <1>1, <1>2, <1>4, <2>1, <2>2, ReleasedType, GoesOnKeeps
<1>5. CASE db' \in outcome /\ (Answer(r, "ok") \/ Answer(r, "error"))
  BY <1>1, <1>2, <1>5, AnswerKeeps
<1>6. CASE Answer(r, "error") /\ db' = db
  BY <1>1, <1>3, <1>6, AnswerKeeps
<1> HIDE DEF outcome
<1>7. \/ /\ db' \in outcome
         /\ IF o.op \in ReadsBack
            THEN Goto(Main(r), "readback", {}) /\ ReleaseTo(Main(r), 0) /\ reply' = reply
            ELSE Answer(r, "ok")
      \/ db' \in outcome /\ Answer(r, "error")
      \/ Answer(r, "error") /\ db' = db
  BY DEF Handler, outcome
<1> QED  BY <1>4, <1>5, <1>6, <1>7

LEMMA ReadBackKeeps ==
  ASSUME IInv, NEW r \in Requests, ReadBack(r)
  PROVE  IInv'
<1>1. db' = db /\ db' \in Database  BY DEF IInv, ReadBack, TypeOK
<1>2. InFlight(r) /\ pc[Main(r)] \in Behind
  BY ReadyIsInFlight DEF ReadBack, Queries, Behind
<1> QED  BY <1>1, <1>2, AnswerKeeps DEF ReadBack

\* An import goes on inside its transaction, on one connection more and one less.
LEMMA ImportKeeps ==
  ASSUME IInv, NEW r \in Requests, Import(r)
  PROVE  IInv'
<1>0. TypeOK /\ Main(r) \in Procs  BY ProcsAre DEF IInv
<1>1. /\ Track /\ db' = db /\ db' \in Database /\ UNCHANGED <<leaked, task, audit>>
  BY <1>0 DEF Import, TypeOK
<1>2. CASE /\ Ready(Main(r), "begin")
           /\ Goto(Main(r), "inner", {}) /\ UNCHANGED <<free, held, reply>>
  <2>1. InFlight(r) /\ pc[Main(r)] \in Behind
    BY <1>2, ReadyIsInFlight DEF Queries, Behind
  <2>2. seen'[r].active /\ seen'[r].permitted
    BY <1>0, <1>1, <2>1, TrackEffect DEF IInv, PassedTheGuards
  <2>3. free' \in Nat /\ held' \in [Procs -> 0..2] /\ "inner" \in Queries
    BY <1>0, <1>2 DEF TypeOK, Queries
  <2> QED  BY <1>1, <1>2, <2>1, <2>2, <2>3, GoesOnKeeps
<1>3. CASE /\ Ready(Main(r), "inner")
           /\ Goto(Main(r), "commit", {}) /\ ReleaseTo(Main(r), 1) /\ UNCHANGED reply
  <2>1. InFlight(r) /\ pc[Main(r)] \in Behind /\ held[Main(r)] = 2
    BY <1>3, ReadyIsInFlight DEF Queries, Behind, Ready, Need, Over
  <2>2. seen'[r].active /\ seen'[r].permitted
    BY <1>0, <1>1, <2>1, TrackEffect DEF IInv, PassedTheGuards
  <2>3. 1 \in 0..2 /\ 1 <= held[Main(r)]  BY <2>1
  <2>4. free' \in Nat /\ held' \in [Procs -> 0..2] /\ "commit" \in Queries
    BY <1>0, <1>3, <2>3, ReleaseType DEF Queries
  <2> QED  BY <1>1, <1>3, <2>1, <2>2, <2>4, GoesOnKeeps
<1>4. CASE Ready(Main(r), "commit") /\ Answer(r, "ok")
  <2>1. InFlight(r) /\ pc[Main(r)] \in Behind
    BY <1>4, ReadyIsInFlight DEF Queries, Behind
  <2> QED  BY <1>1, <1>4, <2>1, AnswerKeeps
<1> QED  BY <1>2, <1>3, <1>4 DEF Import

LEMMA QueryFailsKeeps ==
  ASSUME IInv, NEW r \in Requests, QueryFails(r)
  PROVE  IInv'
<1> DEFINE answer == IF pc[Main(r)] \in GuardQueries THEN "refused" ELSE "error"
<1>1. /\ InFlight(r) /\ Answer(r, answer) /\ Track
      /\ db' = db /\ db' \in Database /\ UNCHANGED <<leaked, task, audit>>
  BY DEF QueryFails, IInv, TypeOK
<1>2. answer \in {"ok", "error", "refused"} /\ answer # "ok"  OBVIOUS
<1> HIDE DEF answer
<1> QED  BY <1>1, <1>2, AnswerKeeps

\* JobStep with the types.
LEMMA JobDoneKeeps ==
  ASSUME IInv, Track, NEW p \in Procs, p[2] # "main", pc[p] # "off",
         NEW end \in {"done", "failed"}, Goto(p, end, {}), reply' = reply, task' = task,
         db' \in Database, free' \in Nat, leaked' \in Nat, held' \in [Procs -> 0..2],
         audit' = audit \/ RowOf(p)
  PROVE  IInv'
<1>0. TypeOK /\ end \in Queries \cup Over /\ {} \in SUBSET Jobs  BY DEF IInv, Over
<1>1. /\ pc' \in [Procs -> Queries \cup Over]
      /\ \A q \in Requests : Main(q) # p => pc'[Main(q)] = pc[Main(q)]
  BY <1>0, GotoEffect DEF TypeOK
<1>2. \A q \in Requests : Main(q) # p  BY DEF Main
<1>3. seen' \in [Requests -> [active : BOOLEAN, permitted : BOOLEAN]]
  BY <1>0, TrackEffect
<1>4. audit' \in [Requests -> {"none", "success", "failure"}]
  BY <1>0, ProcHasRequest DEF TypeOK, RowOf
<1>5. TypeOK'  BY <1>0, <1>1, <1>3, <1>4 DEF TypeOK
<1>6. InFlightHasTask'  BY <1>1, <1>2 DEF IInv, InFlightHasTask, InFlight
<1>7. PassedTheGuards' /\ AuditedWhenOver' /\ AuditAgreesWithReply'  BY JobStep
<1> QED  BY <1>5, <1>6, <1>7 DEF IInv

\* A connection lost by a request ends it with an error; one lost by its audit write
\* ends that.
LEMMA ContextFailsKeeps ==
  ASSUME IInv, NEW p \in Procs, ContextFails(p)
  PROVE  IInv'
<1>0. TypeOK  BY DEF IInv
<1>1. /\ Track /\ db' = db /\ db' \in Database /\ task' = task /\ audit' = audit
      /\ InContext(p) /\ free > 0 /\ free' = free - 1 + held[p]
      /\ held' = [held EXCEPT ![p] = 0] /\ leaked' = leaked + 1
  BY <1>0 DEF ContextFails, TypeOK
<1>2. free' \in Nat /\ leaked' \in Nat /\ held' \in [Procs -> 0..2]
  BY <1>0, <1>1 DEF TypeOK
<1>3. p[1] \in Requests /\ p = <<p[1], p[2]>>  BY ProcHasRequest
<1>4. CASE p[2] = "main"
  <2> DEFINE r == p[1]
             jobs == {"audit"}
  <2>1. p = Main(r)  BY <1>3, <1>4 DEF Main
  <2>2. /\ reply' = [reply EXCEPT ![r] = "error"] /\ reply'[r] = "error"
        /\ Goto(Main(r), "done", jobs)
    BY <1>0, <1>3, <1>4, <2>1 DEF ContextFails, TypeOK
  <2>3. pc[Main(r)] \in {"handler", "begin", "inner", "readback"}
    BY <1>1, <1>4, <2>1, "main" # "audit", PoolAssumption DEF InContext
  <2>4. InFlight(r)  BY <2>3 DEF InFlight, Over
  <2>5. task[r] \in Task /\ task' = [task EXCEPT ![r] = task[r]]
    BY <1>0, <1>1, <1>3, <2>4 DEF IInv, InFlightHasTask, TypeOK
  <2>6. jobs \in SUBSET Jobs /\ "done" \notin Behind \cup {"group", "permissions"}
    BY DEF Jobs, Behind
  <2> HIDE DEF r, jobs
  <2>7. r \in Requests  BY <1>3 DEF r
  <2> QED  BY <1>1, <1>2, <2>2, <2>4, <2>5, <2>6, <2>7, RequestStep
<1>5. CASE p[2] # "main"
  <2> DEFINE end == IF p[2] = "audit" THEN "done" ELSE "failed"
  <2>1. Goto(p, end, {}) /\ reply' = reply /\ end \in {"done", "failed"}
    BY <1>5 DEF ContextFails
  <2>2. pc[p] # "off"  BY <1>1 DEF InContext
  <2> HIDE DEF end
  <2> QED  BY <1>1, <1>2, <1>5, <2>1, <2>2, JobDoneKeeps
<1> QED  BY <1>4, <1>5

LEMMA GroupReadKeeps ==
  ASSUME IInv, NEW p \in Procs, GroupRead(p)
  PROVE  IInv'
<1>0. TypeOK  BY DEF IInv
<1>1. PICK end \in {"done", "failed"} : Goto(p, end, {})  BY DEF GroupRead
<1>2. /\ Track /\ UNCHANGED <<db, leaked, task, reply, audit>>
      /\ p[2] # "main" /\ pc[p] # "off" /\ ReleaseTo(p, 0)
  BY PoolAssumption DEF GroupRead, Ready
<1>3. free' \in Nat /\ held' \in [Procs -> 0..2]  BY <1>0, <1>2, ReleasedType
<1>4. db' \in Database /\ leaked' \in Nat  BY <1>0, <1>2 DEF TypeOK
<1> QED  BY <1>1, <1>2, <1>3, <1>4, JobDoneKeeps

LEMMA LoginWrittenKeeps ==
  ASSUME IInv, NEW p \in Procs, LoginWritten(p)
  PROVE  IInv'
<1>0. TypeOK  BY DEF IInv
<1>1. /\ Track /\ UNCHANGED <<db, leaked, task, reply, audit>> /\ Goto(p, "done", {})
      /\ p[2] # "main" /\ pc[p] # "off" /\ ReleaseTo(p, 0)
  BY DEF LoginWritten, Ready
<1>2. free' \in Nat /\ held' \in [Procs -> 0..2]  BY <1>0, <1>1, ReleasedType
<1>3. db' \in Database /\ leaked' \in Nat  BY <1>0, <1>1 DEF TypeOK
<1> QED  BY <1>1, <1>2, <1>3, JobDoneKeeps

\* A login that cannot be written takes everything in flight with it, and answers none.
LEMMA LoginFailsKeeps ==
  ASSUME IInv, NEW p \in Procs, LoginFails(p)
  PROVE  IInv'
<1>0. TypeOK  BY DEF IInv
<1>1. /\ Track /\ UNCHANGED <<db, task, reply, audit>>
      /\ pc' = [q \in Procs |-> IF pc[q] \in Over THEN pc[q] ELSE "lost"]
      /\ held' = [q \in Procs |-> 0] /\ free' = PoolSize /\ leaked' = 0
  BY DEF LoginFails
<1>2. /\ \A q \in Procs : pc'[q] = IF pc[q] \in Over THEN pc[q] ELSE "lost"
      /\ pc' \in [Procs -> Queries \cup Over]
  BY <1>0, <1>1 DEF TypeOK, Over
<1>3. /\ seen' \in [Requests -> [active : BOOLEAN, permitted : BOOLEAN]]
      /\ \A r \in Requests : /\ seen[r].active => seen'[r].active
                             /\ seen[r].permitted => seen'[r].permitted
  BY <1>0, <1>1, TrackEffect
<1>4. TypeOK'  BY <1>0, <1>1, <1>2, <1>3, PoolAssumption DEF TypeOK
<1>5. \A r \in Requests : pc'[Main(r)] \in Over /\ (pc'[Main(r)] = "off" <=> pc[Main(r)] = "off")
  BY <1>2, ProcsAre DEF Over
<1>6. InFlightHasTask'  BY <1>5 DEF InFlightHasTask, InFlight
<1>7. Over \cap (Behind \cup {"group", "permissions"}) = {}  BY DEF Over, Behind
<1>8. PassedTheGuards'  BY <1>1, <1>3, <1>5, <1>7 DEF IInv, PassedTheGuards
<1>9. \A r \in Requests : pc'[<<r, "audit">>] = "off" <=> pc[<<r, "audit">>] = "off"
  BY <1>2, ProcsAre DEF Over
<1>10. AuditedWhenOver'  BY <1>1, <1>5, <1>9 DEF IInv, AuditedWhenOver, InFlight
<1>11. AuditAgreesWithReply'  BY <1>1 DEF IInv, AuditAgreesWithReply
<1> QED  BY <1>4, <1>6, <1>8, <1>10, <1>11 DEF IInv

LEMMA AuditRowKeeps ==
  ASSUME IInv, NEW r \in Requests, AuditRow(r)
  PROVE  IInv'
<1>0. TypeOK /\ <<r, "audit">> \in Procs  BY ProcsAre DEF IInv
<1> DEFINE p == <<r, "audit">>
<1>1. /\ Track /\ UNCHANGED <<db, leaked, task, reply>> /\ Goto(p, "done", {})
      /\ p[1] = r /\ p[2] = "audit" /\ p[2] # "main" /\ pc[p] # "off" /\ ReleaseTo(p, 0)
  BY DEF AuditRow, AuditWritten, AuditFails, Ready
<1>2. free' \in Nat /\ held' \in [Procs -> 0..2]  BY <1>0, <1>1, ReleasedType
<1>3. db' \in Database /\ leaked' \in Nat  BY <1>0, <1>1 DEF TypeOK
<1>4. \/ audit' = audit
      \/ audit' = [audit EXCEPT ![r] = IF reply[r] = "ok" THEN "success" ELSE "failure"]
  BY DEF AuditRow, AuditWritten, AuditFails
<1>5. audit' = audit \/ RowOf(p)  BY <1>1, <1>4 DEF RowOf
<1> HIDE DEF p
<1>6. p \in Procs  BY <1>0 DEF p
<1> QED  BY <1>1, <1>2, <1>3, <1>5, <1>6, JobDoneKeeps

\* What changes no request and no job: a connection taken, an account deactivated.
LEMMA AroundKeeps ==
  ASSUME IInv, Track, UNCHANGED <<pc, task, reply, audit>>, db' \in Database,
         free' \in Nat, leaked' \in Nat, held' \in [Procs -> 0..2]
  PROVE  IInv'
<1>0. TypeOK  BY DEF IInv
<1>1. /\ seen' \in [Requests -> [active : BOOLEAN, permitted : BOOLEAN]]
      /\ \A r \in Requests : /\ seen[r].active => seen'[r].active
                             /\ seen[r].permitted => seen'[r].permitted
  BY <1>0, TrackEffect
<1>2. TypeOK'  BY <1>0, <1>1 DEF TypeOK
<1>3. PassedTheGuards'  BY <1>1 DEF IInv, PassedTheGuards
<1>4. InFlightHasTask' /\ AuditedWhenOver' /\ AuditAgreesWithReply'
  BY DEF IInv, InFlightHasTask, InFlight, AuditedWhenOver, AuditAgreesWithReply
<1> QED  BY <1>2, <1>3, <1>4 DEF IInv

LEMMA AcquireKeeps ==
  ASSUME IInv, NEW p \in Procs, Acquire(p)
  PROVE  IInv'
<1>0. TypeOK  BY DEF IInv
<1>1. /\ Track /\ UNCHANGED <<db, leaked, pc, task, reply, audit>>
      /\ held[p] < Need(pc[p]) /\ free > 0 /\ free' = free - 1
      /\ held' = [held EXCEPT ![p] = @ + 1]
  BY DEF Acquire
<1>2. Need(pc[p]) <= 2 /\ Need(pc[p]) \in Nat  BY DEF Need
<1>3. held[p] + 1 \in 0..2  BY <1>0, <1>1, <1>2 DEF TypeOK
<1>4. held' \in [Procs -> 0..2] /\ free' \in Nat  BY <1>0, <1>1, <1>3 DEF TypeOK
<1>5. db' \in Database /\ leaked' \in Nat  BY <1>0, <1>1 DEF TypeOK
<1> QED  BY <1>1, <1>4, <1>5, AroundKeeps

LEMMA DeactivateKeeps ==
  ASSUME IInv, NEW user \in Users, Deactivate(user)
  PROVE  IInv'
<1>0. TypeOK  BY DEF IInv
<1>1. /\ Track /\ UNCHANGED <<free, leaked, held, pc, task, reply, audit>>
      /\ db' = [db EXCEPT !.active[user] = FALSE]
  BY DEF Deactivate
<1>2. db' \in Database  BY <1>0, <1>1 DEF TypeOK, Database
<1> QED  BY <1>0, <1>1, <1>2, AroundKeeps DEF TypeOK

LEMMA ArriveKeeps ==
  ASSUME IInv, NEW r \in Requests, NEW c \in Calls[r], Arrive(r, c[1], c[2], c[3])
  PROVE  IInv'
<1>0. TypeOK /\ Main(r) \in Procs  BY ProcsAre DEF IInv
<1> DEFINE t == [user |-> c[1], restaurant |-> c[2], ask |-> c[3], permissions |-> {}]
<1>1. /\ Track /\ UNCHANGED <<db, free, leaked, held, reply, audit>>
      /\ pc[Main(r)] = "off" /\ pc' = [pc EXCEPT ![Main(r)] = "profile"]
      /\ task' = [task EXCEPT ![r] = t]
  BY DEF Arrive
<1>2. t \in Task
  <2>1. c \in Users \X Restaurants \X Operation  BY PoolAssumption
  <2>2. c[1] \in Users /\ c[2] \in Restaurants /\ c[3] \in Operation  BY <2>1
  <2> QED  BY <2>2 DEF Task
<1> HIDE DEF t
<1>3. /\ task' \in [Requests -> Task \cup {NoTask}]
      /\ task'[r] \in Task /\ \A q \in Requests \ {r} : task'[q] = task[q]
  BY <1>0, <1>1, <1>2 DEF TypeOK
<1>4. /\ pc' \in [Procs -> Queries \cup Over] /\ pc'[Main(r)] = "profile"
      /\ \A q \in Procs \ {Main(r)} : pc'[q] = pc[q]
  BY <1>0, <1>1 DEF TypeOK, Queries
<1>5. \A q \in Requests : /\ q # r => pc'[Main(q)] = pc[Main(q)]
                          /\ pc'[<<q, "audit">>] = pc[<<q, "audit">>]
  <2> TAKE q \in Requests
  <2>1. Main(q) \in Procs /\ <<q, "audit">> \in Procs  BY ProcsAre
  <2>2. <<q, "audit">> # Main(r) /\ (q # r => Main(q) # Main(r))  BY DEF Main
  <2> QED  BY <1>4, <2>1, <2>2
<1>6. /\ seen' \in [Requests -> [active : BOOLEAN, permitted : BOOLEAN]]
      /\ \A q \in Requests : /\ seen[q].active => seen'[q].active
                             /\ seen[q].permitted => seen'[q].permitted
  BY <1>0, <1>1, TrackEffect
<1>7. TypeOK'  BY <1>0, <1>1, <1>3, <1>4, <1>6 DEF TypeOK
<1>8. InFlightHasTask'  BY <1>3, <1>5 DEF IInv, InFlightHasTask, InFlight
<1>9. PassedTheGuards'
  <2>1. "profile" \notin Behind \cup {"group", "permissions"}  BY DEF Behind
  <2> QED  BY <1>1, <1>4, <1>5, <1>6, <2>1 DEF IInv, PassedTheGuards
<1>10. AuditedWhenOver'
  BY <1>1, <1>5 DEF IInv, AuditedWhenOver, InFlight
<1>11. AuditAgreesWithReply'  BY <1>1 DEF IInv, AuditAgreesWithReply
<1> QED  BY <1>7, <1>8, <1>9, <1>10, <1>11 DEF IInv

LEMMA NextKeeps == IInv /\ [Next]_vars => IInv'
<1> SUFFICES ASSUME IInv, [Next]_vars PROVE IInv'  OBVIOUS
<1>1. ASSUME NEW r \in Requests, NEW c \in Calls[r], Arrive(r, c[1], c[2], c[3]) PROVE IInv'
  BY <1>1, ArriveKeeps
<1>2. ASSUME NEW r \in Requests, Request(r) PROVE IInv'
  BY <1>2, ProfileKeeps, GroupKeeps, AuthoriseKeeps, SudoKeeps, LookupsEndKeeps,
     HandlerKeeps, ReadBackKeeps, ImportKeeps, QueryFailsKeeps
  DEF Request
<1>3. ASSUME NEW r \in Requests, AuditRow(r) PROVE IInv'  BY <1>3, AuditRowKeeps
<1>4. ASSUME NEW p \in Procs, Acquire(p) \/ ContextFails(p) \/ Job(p) PROVE IInv'
  BY <1>4, AcquireKeeps, ContextFailsKeeps, GroupReadKeeps, LoginWrittenKeeps, LoginFailsKeeps
  DEF Job
<1>5. ASSUME NEW user \in Users, Deactivate(user) PROVE IInv'  BY <1>5, DeactivateKeeps
<1>6. CASE UNCHANGED vars
  BY <1>6 DEF vars, IInv, TypeOK, InFlightHasTask, InFlight, PassedTheGuards,
              AuditedWhenOver, AuditAgreesWithReply
<1> QED  BY <1>1, <1>2, <1>3, <1>4, <1>5, <1>6 DEF Next

\* The inductive invariant: what a request passed was so when it passed, and its audit
\* write starts when the request is over.
THEOREM RequestInvariance == Spec => []IInv
BY InitIInv, NextKeeps, PTL DEF Spec

\* Type correctness of the requests, the tables and the pool.
THEOREM RequestTypes == Spec => []TypeOK
<1>1. IInv => TypeOK  BY DEF IInv
<1> QED  BY RequestInvariance, <1>1, PTL

\* However requests, role changes, failures and crashes interleave, a handler runs only
\* for a user who, since the request came in, was active and held the permission the
\* endpoint requires (SupabaseAuthGuard, PermissionsGuard, sudoTenant).
THEOREM Authorised == Spec => []OnlyAuthorised
<1>1. IInv => OnlyAuthorised  BY DEF IInv, PassedTheGuards, OnlyAuthorised
<1> QED  BY RequestInvariance, <1>1, PTL

\* The audit log never says success of a request answered with an error, nor the other
\* way round, and has no row for what the guards refused (AuditInterceptor, logAction).
THEOREM AuditAgrees == Spec => []AuditAgreesWithReply
<1>1. IInv => AuditAgreesWithReply  BY DEF IInv
<1> QED  BY RequestInvariance, <1>1, PTL

-----------------------------------------------------------------------------
(* The pool *)

\* The connections of one process, and those of all others.
Own(p, n) == {c \in {p} \X (1..2) : c[2] <= n}
Others(p) == {c \in (Procs \ {p}) \X (1..2) : c[2] <= held[c[1]]}

\* What is counted in two sets without a common element.
LEMMA DisjointUnion ==
  ASSUME NEW S, NEW T, IsFiniteSet(S), IsFiniteSet(T), S \cap T = {}
  PROVE  /\ IsFiniteSet(S \cup T) /\ Cardinality(S \cup T) = Cardinality(S) + Cardinality(T)
         /\ Cardinality(S) \in Nat /\ Cardinality(T) \in Nat
<1>1. /\ IsFiniteSet(S \cup T)
      /\ Cardinality(S \cup T) = Cardinality(S) + Cardinality(T) - Cardinality(S \cap T)
  BY FS_Union
<1>2. Cardinality(S \cap T) = 0  BY FS_EmptySet, Zenon
<1>3. Cardinality(S) \in Nat /\ Cardinality(T) \in Nat  BY FS_CardinalityType
<1> QED  BY <1>1, <1>2, <1>3

\* A process that holds n connections has n elements of Taken.
LEMMA OwnCounted ==
  ASSUME NEW p, NEW n \in 0..2
  PROVE  IsFiniteSet(Own(p, n)) /\ Cardinality(Own(p, n)) = n
<1>1. Own(p, 0) = {} /\ Own(p, 1) = {<<p, 1>>} /\ Own(p, 2) = {<<p, 1>>, <<p, 2>>}
  BY DEF Own
<1>2. Cardinality({}) = 0 /\ IsFiniteSet({})  BY FS_EmptySet
<1>3. /\ IsFiniteSet({<<p, 1>>}) /\ Cardinality({<<p, 1>>}) = 1  BY FS_Singleton
<1>4. /\ IsFiniteSet({<<p, 1>>} \cup {<<p, 2>>})
      /\ Cardinality({<<p, 1>>} \cup {<<p, 2>>}) = 2
  <2>1. {<<p, 1>>} \cap {<<p, 2>>} = {}  OBVIOUS
  <2>2. IsFiniteSet({<<p, 2>>}) /\ Cardinality({<<p, 2>>}) = 1  BY FS_Singleton
  <2>3. /\ IsFiniteSet({<<p, 1>>} \cup {<<p, 2>>})
        /\ Cardinality({<<p, 1>>} \cup {<<p, 2>>}) =
             Cardinality({<<p, 1>>}) + Cardinality({<<p, 2>>})
    BY <1>3, <2>1, <2>2, DisjointUnion
  <2> QED  BY <1>3, <2>2, <2>3
<1>5. Own(p, 2) = {<<p, 1>>} \cup {<<p, 2>>}  BY <1>1
<1>6. n = 0 \/ n = 1 \/ n = 2  OBVIOUS
<1> QED  BY <1>1, <1>2, <1>3, <1>4, <1>5, <1>6

\* What is held is what p holds and what the others hold.
LEMMA TakenSplits ==
  ASSUME NEW p \in Procs, held \in [Procs -> 0..2]
  PROVE  /\ Taken = Others(p) \cup Own(p, held[p])
         /\ IsFiniteSet(Others(p)) =>
              /\ IsFiniteSet(Taken) /\ Cardinality(Taken) = Cardinality(Others(p)) + held[p]
              /\ Cardinality(Others(p)) \in Nat
         /\ Others(p) \subseteq Taken
<1>1. Taken = Others(p) \cup Own(p, held[p])  BY DEF Taken, Others, Own
<1>2. Others(p) \cap Own(p, held[p]) = {}  BY DEF Others, Own
<1>3. held[p] \in 0..2  OBVIOUS
<1>4. ASSUME IsFiniteSet(Others(p))
      PROVE  /\ IsFiniteSet(Taken) /\ Cardinality(Taken) = Cardinality(Others(p)) + held[p]
             /\ Cardinality(Others(p)) \in Nat
  <2>1. IsFiniteSet(Own(p, held[p])) /\ Cardinality(Own(p, held[p])) = held[p]
    BY <1>3, OwnCounted
  <2> QED  BY <1>1, <1>2, <1>4, <2>1, DisjointUnion
<1> QED  BY <1>1, <1>4

\* A process that has n connections after a step has n - held[p] more.
LEMMA TakenMoves ==
  ASSUME held \in [Procs -> 0..2], IsFiniteSet(Taken), NEW p \in Procs, NEW n \in 0..2,
         held' = [held EXCEPT ![p] = n]
  PROVE  /\ held' \in [Procs -> 0..2] /\ IsFiniteSet(Taken')
         /\ Cardinality(Taken') = Cardinality(Taken) - held[p] + n
         /\ Cardinality(Taken) \in Nat
<1>1. held' \in [Procs -> 0..2] /\ held'[p] = n /\ \A q \in Procs \ {p} : held'[q] = held[q]
  OBVIOUS
<1>2. Others(p)' = Others(p)  BY <1>1 DEF Others
<1>3. IsFiniteSet(Others(p))
  <2>1. Others(p) \subseteq Taken  BY TakenSplits
  <2> QED  BY <2>1, FS_Subset
<1>4. /\ Cardinality(Taken) = Cardinality(Others(p)) + held[p]
      /\ Cardinality(Others(p)) \in Nat
  BY <1>3, TakenSplits
<1>5. Taken' = Others(p) \cup Own(p, n)  BY <1>1 DEF Taken, Others, Own
<1>6. Others(p) \cap Own(p, n) = {}  BY DEF Others, Own
<1>7. IsFiniteSet(Own(p, n)) /\ Cardinality(Own(p, n)) = n  BY OwnCounted
<1>8. /\ IsFiniteSet(Taken')
      /\ Cardinality(Taken') = Cardinality(Others(p)) + n
  BY <1>3, <1>5, <1>6, <1>7, DisjointUnion
<1>9. held[p] \in 0..2  OBVIOUS
<1> QED  BY <1>1, <1>4, <1>8, <1>9

\* A process goes on, or only takes a connection: it is then left with no more than its
\* next query takes, and what it gained or gave back the pool gave or got.
LEMMA ProcStep ==
  ASSUME TypeOK, PoolInv, NEW p \in Procs, NEW n \in 0..2, held' = [held EXCEPT ![p] = n],
         \/ leaked' = leaked /\ free' = free + held[p] - n
         \/ leaked' = leaked + 1 /\ free' = free - 1 + held[p] - n,
         NEW query \in Queries \cup Over, NEW jobs \in SUBSET Jobs, Goto(p, query, jobs),
         n <= Need(query), query \in Nesting => p[2] = "main"
  PROVE  PoolInv'
<1>1. IsFiniteSet(Taken) /\ free + leaked + Cardinality(Taken) = PoolSize
  BY DEF PoolInv, ConnectionsAddUp
<1>2. /\ held' \in [Procs -> 0..2] /\ IsFiniteSet(Taken') /\ Cardinality(Taken) \in Nat
      /\ Cardinality(Taken') = Cardinality(Taken) - held[p] + n
  BY <1>1, TakenMoves DEF TypeOK
<1>3. ConnectionsAddUp'
  <2>1. free \in Nat /\ leaked \in Nat /\ held[p] \in 0..2 /\ PoolSize \in Nat
    BY PoolAssumption DEF TypeOK
  <2>2. free' + leaked' = free + leaked + held[p] - n
    BY <1>1, <2>1
  <2>3. free' + leaked' + Cardinality(Taken') = PoolSize
    <3>1. free' \in Int /\ leaked' \in Int  BY <2>1
    <3> QED  BY <1>1, <1>2, <2>1, <2>2, <3>1
  <2> QED  BY <1>2, <2>3 DEF ConnectionsAddUp
<1>4. \A q \in Procs :
        pc'[q] = IF q = p THEN query
                 ELSE IF q[1] = p[1] /\ q[2] \in jobs THEN "aside" ELSE pc[q]
  BY DEF Goto
<1>5. \A q \in Procs : pc[q] \in Nesting => q[2] = "main"
  BY DEF PoolInv, OnlyMainsNest
<1>6. "aside" \notin Nesting /\ "inner" \in Nesting  BY DEF Nesting
<1>7. OnlyMainsNest'
  <2> SUFFICES ASSUME NEW q \in Procs, pc'[q] \in Nesting PROVE q[2] = "main"
    BY DEF OnlyMainsNest
  <2>1. CASE q = p  BY <1>4, <2>1
  <2>2. CASE q # p  BY <1>4, <1>5, <1>6, <2>2
  <2> QED  BY <2>1, <2>2
<1>8. \A q \in Procs : held'[q] <= Need(pc'[q])
  <2> TAKE q \in Procs
  <2>1. CASE q = p  BY <1>4, <2>1 DEF TypeOK
  <2>2. CASE q # p /\ q[1] = p[1] /\ q[2] \in jobs
    <3>1. pc'[q] = "aside" /\ held'[q] = held[q]  BY <1>4, <2>2 DEF TypeOK
    <3>2. Need("aside") = 1  BY DEF Need, Over
    <3>3. q[2] # "main"  BY <2>2, PoolAssumption DEF Jobs
    <3>4. pc[q] # "inner"  BY <1>5, <1>6, <3>3
    <3>5. Need(pc[q]) \in {0, 1}  BY <3>4 DEF Need
    <3>6. held[q] <= Need(pc[q]) /\ held[q] \in 0..2  BY DEF PoolInv, TypeOK
    <3> QED  BY <3>1, <3>2, <3>5, <3>6
  <2>3. CASE q # p /\ ~(q[1] = p[1] /\ q[2] \in jobs)
    <3>1. pc'[q] = pc[q] /\ held'[q] = held[q]  BY <1>4, <2>3 DEF TypeOK
    <3> QED  BY <3>1 DEF PoolInv
  <2> QED  BY <2>1, <2>2, <2>3
<1> QED  BY <1>3, <1>7, <1>8 DEF PoolInv

\* A query done: all connections go back.
LEMMA DoneStep ==
  ASSUME TypeOK, PoolInv, NEW p \in Procs, ReleaseTo(p, 0), leaked' = leaked,
         NEW query \in Queries \cup Over, NEW jobs \in SUBSET Jobs, Goto(p, query, jobs),
         query \in Nesting => p[2] = "main"
  PROVE  PoolInv'
<1>1. 0 \in 0..2 /\ 0 <= Need(query)  BY DEF Need
<1>2. held' = [held EXCEPT ![p] = 0] /\ free' = free + held[p] - 0  BY DEF ReleaseTo
<1> QED  BY <1>1, <1>2, ProcStep

\* A request that is answered or goes on to another query, every connection given back.
LEMMA OnPool ==
  ASSUME TypeOK, PoolInv, NEW r \in Requests, ReleaseTo(Main(r), 0), leaked' = leaked,
         NEW query \in Queries \cup Over, NEW jobs \in SUBSET Jobs, Goto(Main(r), query, jobs)
  PROVE  PoolInv'
<1>1. Main(r) \in Procs /\ Main(r)[2] = "main"  BY ProcsAre DEF Main
<1> QED  BY <1>1, DoneStep

LEMMA AnswerPool ==
  ASSUME TypeOK, PoolInv, NEW r \in Requests, NEW answer, Answer(r, answer), leaked' = leaked
  PROVE  PoolInv'
<1> DEFINE jobs == IF answer = "refused" THEN {} ELSE {"audit"}
<1>1. jobs \in SUBSET Jobs /\ Goto(Main(r), "done", jobs) /\ ReleaseTo(Main(r), 0)
  BY DEF Jobs, Answer
<1>2. "done" \in Queries \cup Over  BY DEF Over
<1> HIDE DEF jobs
<1> QED  BY <1>1, <1>2, OnPool

\* Going on without a job to start.
LEMMA MovesPool ==
  ASSUME TypeOK, PoolInv, NEW r \in Requests, ReleaseTo(Main(r), 0), leaked' = leaked,
         NEW query \in Queries, Goto(Main(r), query, {})
  PROVE  PoolInv'
<1> DEFINE none == {}
<1>1. none \in SUBSET Jobs /\ Goto(Main(r), query, none) /\ query \in Queries \cup Over
  OBVIOUS
<1> HIDE DEF none
<1> QED  BY <1>1, OnPool

\* The jobs of a request that the guards let through start with it.
LEMMA AuthorisePool ==
  ASSUME IInv, PoolInv, NEW r \in Requests, Authorise(r)
  PROVE  PoolInv'
<1>0. TypeOK  BY DEF IInv
<1> DEFINE t == task[r]
           login == {"login"} \cup Lookups(t.ask)
           error == {"login"} \cup IF t.ask.op = "sudo" THEN {"audit"} ELSE {}
<1>1. InFlight(r) /\ leaked' = leaked /\ ReleaseTo(Main(r), 0)
  BY ReadyIsInFlight DEF Authorise, Queries
<1>2. t \in Task  BY <1>1 DEF IInv, InFlightHasTask
<1>3. login \in SUBSET Jobs /\ error \in SUBSET Jobs
  BY <1>2 DEF Jobs, Lookups, Task, Operation
<1>4. First(t.ask.op) \in Queries \cup Over /\ "done" \in Queries \cup Over
  BY DEF First, Queries, Over
<1>5. Goto(Main(r), First(t.ask.op), login) \/ Goto(Main(r), "done", error)
  BY DEF Authorise
<1> HIDE DEF login, error
<1> QED  BY <1>0, <1>1, <1>3, <1>4, <1>5, OnPool

\* An import keeps its connection from BEGIN to COMMIT, and one more in between.
LEMMA ImportPool ==
  ASSUME TypeOK, PoolInv, NEW r \in Requests, Import(r)
  PROVE  PoolInv'
<1>1. leaked' = leaked /\ Main(r) \in Procs /\ Main(r)[2] = "main"
  BY ProcsAre DEF Import, Main
<1>2. ASSUME NEW next \in {"inner", "commit"}, Goto(Main(r), next, {}),
             held' = [held EXCEPT ![Main(r)] = 1], free' = free + held[Main(r)] - 1
      PROVE  PoolInv'
  <2> DEFINE none == {}
  <2>1. none \in SUBSET Jobs /\ Goto(Main(r), next, none) /\ next \in Queries \cup Over
    BY <1>2 DEF Queries
  <2>2. 1 \in 0..2 /\ 1 <= Need(next)  BY DEF Need, Over
  <2> HIDE DEF none
  <2> QED  BY <1>1, <1>2, <2>1, <2>2, ProcStep
<1>3. CASE Ready(Main(r), "begin") /\ Goto(Main(r), "inner", {}) /\ UNCHANGED <<free, held>>
  <2>1. held[Main(r)] = 1  BY <1>3 DEF Ready, Need, Over
  <2>2. held' = [held EXCEPT ![Main(r)] = 1] /\ free' = free + held[Main(r)] - 1
    BY <1>3, <2>1 DEF TypeOK
  <2> QED  BY <1>2, <1>3, <2>2
<1>4. CASE Goto(Main(r), "commit", {}) /\ ReleaseTo(Main(r), 1)
  <2>1. held' = [held EXCEPT ![Main(r)] = 1] /\ free' = free + held[Main(r)] - 1
    BY <1>4 DEF ReleaseTo
  <2> QED  BY <1>2, <1>4, <2>1
<1>5. CASE Answer(r, "ok")  BY <1>1, <1>5, AnswerPool
<1> QED  BY <1>3, <1>4, <1>5 DEF Import

\* One query of a request; only an import goes into a transaction.
LEMMA RequestPool ==
  ASSUME IInv, PoolInv, NEW r \in Requests, Request(r)
  PROVE  PoolInv'
<1>0. TypeOK  BY DEF IInv
<1>1. {"group", "permissions", "handler", "readback"} \subseteq Queries  BY DEF Queries
<1>2. CASE Profile(r)
  BY <1>0, <1>1, <1>2, MovesPool, AnswerPool DEF Profile
<1>3. CASE Group(r)
  BY <1>0, <1>1, <1>3, MovesPool, AnswerPool DEF Group
<1>4. CASE Authorise(r)  BY <1>4, AuthorisePool
<1>5. CASE Sudo(r)
  <2> DEFINE jobs == {"sudo_login", "audit"}
  <2>1. /\ jobs \in SUBSET Jobs /\ Goto(Main(r), "done", jobs) /\ ReleaseTo(Main(r), 0)
        /\ leaked' = leaked /\ "done" \in Queries \cup Over
    BY <1>5 DEF Jobs, Sudo, Over
  <2> HIDE DEF jobs
  <2> QED  BY <1>0, <2>1, OnPool
<1>6. CASE LookupsEnd(r)
  BY <1>0, <1>1, <1>6, MovesPool, AnswerPool DEF LookupsEnd
<1>7. CASE Handler(r)
  <2>1. leaked' = leaked  BY <1>7 DEF Handler
  <2>2. \/ Goto(Main(r), "readback", {}) /\ ReleaseTo(Main(r), 0)
        \/ \E answer : Answer(r, answer)
    BY <1>7 DEF Handler
  <2> QED  BY <1>0, <1>1, <2>1, <2>2, MovesPool, AnswerPool
<1>8. CASE ReadBack(r)  BY <1>0, <1>8, AnswerPool DEF ReadBack
<1>9. CASE Import(r)  BY <1>0, <1>9, ImportPool
<1>10. CASE QueryFails(r)  BY <1>0, <1>10, AnswerPool DEF QueryFails
<1> QED  BY <1>2, <1>3, <1>4, <1>5, <1>6, <1>7, <1>8, <1>9, <1>10 DEF Request

\* The lookups, and the writes nobody waits for.
LEMMA JobPool ==
  ASSUME IInv, PoolInv, NEW p \in Procs, ReleaseTo(p, 0), leaked' = leaked,
         NEW end \in {"done", "failed"}, Goto(p, end, {})
  PROVE  PoolInv'
<1> DEFINE none == {}
<1>1. none \in SUBSET Jobs /\ Goto(p, end, none)  OBVIOUS
<1>2. TypeOK /\ end \in Queries \cup Over /\ end \notin Nesting  BY DEF IInv, Over, Nesting
<1> HIDE DEF none
<1> QED  BY <1>1, <1>2, DoneStep

\* A context that fails costs the pool the connection that was taken for it.
LEMMA ContextFailsPool ==
  ASSUME IInv, PoolInv, NEW p \in Procs, ContextFails(p)
  PROVE  PoolInv'
<1> DEFINE jobs == IF p[2] = "main" THEN {"audit"} ELSE {}
           end == IF p[2] \in {"main", "audit"} THEN "done" ELSE "failed"
<1>1. jobs \in SUBSET Jobs /\ Goto(p, end, jobs)  BY DEF Jobs, ContextFails
<1>2. /\ leaked' = leaked + 1 /\ free' = free - 1 + held[p] - 0
      /\ held' = [held EXCEPT ![p] = 0]
  BY DEF ContextFails, IInv, TypeOK
<1>3. /\ TypeOK /\ end \in Queries \cup Over /\ end \notin Nesting
      /\ 0 \in 0..2 /\ 0 <= Need(end)
  BY DEF IInv, Over, Nesting, Need
<1> HIDE DEF jobs, end
<1> QED  BY <1>1, <1>2, <1>3, ProcStep

\* A connection is taken only by a process whose query needs one more.
LEMMA AcquirePool ==
  ASSUME IInv, PoolInv, NEW p \in Procs, Acquire(p)
  PROVE  PoolInv'
<1> DEFINE n == held[p] + 1
           none == {}
<1>0. TypeOK  BY DEF IInv
<1>1. /\ held[p] < Need(pc[p]) /\ free' = free - 1 /\ held' = [held EXCEPT ![p] = n]
      /\ UNCHANGED <<leaked, pc>>
  BY DEF Acquire
<1>2. Need(pc[p]) \in 0..2 /\ held[p] \in 0..2  BY <1>0 DEF Need, TypeOK
<1>3. n \in 0..2 /\ n <= Need(pc[p])  BY <1>1, <1>2
<1>4. free' = free + held[p] - n  BY <1>0, <1>1, <1>2 DEF TypeOK
<1>5. Goto(p, pc[p], none) /\ none \in SUBSET Jobs /\ pc[p] \in Queries \cup Over
  BY <1>0, <1>1 DEF Goto, TypeOK
<1> HIDE DEF n, none
<1>6. pc[p] \in Nesting => p[2] = "main"  BY DEF PoolInv, OnlyMainsNest
<1> QED  BY <1>0, <1>1, <1>3, <1>4, <1>5, <1>6, ProcStep

\* The pool of the next process is new.
LEMMA CrashPool ==
  ASSUME IInv, PoolInv, NEW p \in Procs, LoginFails(p)
  PROVE  PoolInv'
<1>1. /\ pc' = [q \in Procs |-> IF pc[q] \in Over THEN pc[q] ELSE "lost"]
      /\ held' = [q \in Procs |-> 0] /\ free' = PoolSize /\ leaked' = 0
  BY DEF LoginFails
<1>2. \A q \in Procs : pc'[q] \in Over /\ held'[q] = 0  BY <1>1 DEF Over
<1>3. Taken' = {}  BY <1>2 DEF Taken
<1>4. IsFiniteSet({}) /\ Cardinality({}) = 0  BY FS_EmptySet
<1>5. ConnectionsAddUp'
  BY <1>1, <1>3, <1>4, PoolAssumption DEF ConnectionsAddUp
<1>6. OnlyMainsNest'
  <2>1. Over \cap Nesting = {}  BY DEF Over, Nesting
  <2> QED  BY <1>2, <2>1 DEF OnlyMainsNest
<1>7. \A q \in Procs : held'[q] <= Need(pc'[q])  BY <1>2 DEF Need
<1> QED  BY <1>5, <1>6, <1>7 DEF PoolInv

\* A request that arrives has no connection yet.
LEMMA ArrivePool ==
  ASSUME IInv, PoolInv, NEW r \in Requests, NEW user, NEW restaurant, NEW o,
         Arrive(r, user, restaurant, o)
  PROVE  PoolInv'
<1>0. TypeOK /\ Main(r) \in Procs  BY ProcsAre DEF IInv
<1>1. /\ pc[Main(r)] = "off" /\ pc' = [pc EXCEPT ![Main(r)] = "profile"]
      /\ UNCHANGED <<free, leaked, held>>
  BY DEF Arrive
<1>2. /\ pc'[Main(r)] = "profile"
      /\ \A q \in Procs \ {Main(r)} : pc'[q] = pc[q]
  BY <1>0, <1>1 DEF TypeOK
<1>3. ConnectionsAddUp'
  BY <1>1 DEF PoolInv, ConnectionsAddUp, Taken
<1>4. "profile" \notin Nesting /\ Need("profile") = 1 /\ Need("off") = 0
  BY DEF Nesting, Over, Need
<1>5. OnlyMainsNest'  BY <1>2, <1>4 DEF PoolInv, OnlyMainsNest
<1>6. \A q \in Procs : held'[q] <= Need(pc'[q])
  <2> TAKE q \in Procs
  <2>1. held[q] <= Need(pc[q]) /\ held[q] \in 0..2 /\ held'[q] = held[q]
    BY <1>0, <1>1 DEF PoolInv, TypeOK
  <2>2. CASE q = Main(r)  BY <1>1, <1>2, <1>4, <2>1, <2>2
  <2>3. CASE q # Main(r)  BY <1>2, <2>1, <2>3
  <2> QED  BY <2>2, <2>3
<1> QED  BY <1>3, <1>5, <1>6 DEF PoolInv

\* The whole pool is idle.
LEMMA InitPool == Init => PoolInv
<1> SUFFICES ASSUME Init PROVE PoolInv  OBVIOUS
<1>1. /\ free = PoolSize /\ leaked = 0 /\ \A p \in Procs : held[p] = 0 /\ pc[p] = "off"
  BY DEF Init
<1>2. Taken = {}  BY <1>1 DEF Taken
<1>3. IsFiniteSet({}) /\ Cardinality({}) = 0  BY FS_EmptySet
<1>4. "off" \notin Nesting /\ 0 <= Need("off")  BY DEF Nesting, Need
<1> QED  BY <1>1, <1>2, <1>3, <1>4, PoolAssumption DEF PoolInv, ConnectionsAddUp, OnlyMainsNest

\* Every step accounts for the connections it takes and gives back.
LEMMA NextPool == IInv /\ PoolInv /\ [Next]_vars => PoolInv'
<1> SUFFICES ASSUME IInv, PoolInv, [Next]_vars PROVE PoolInv'  OBVIOUS
<1>1. ASSUME NEW r \in Requests, NEW c \in Calls[r], Arrive(r, c[1], c[2], c[3]) PROVE PoolInv'
  BY <1>1, ArrivePool
<1>2. ASSUME NEW r \in Requests, Request(r) PROVE PoolInv'  BY <1>2, RequestPool
<1>3. ASSUME NEW r \in Requests, AuditRow(r) PROVE PoolInv'
  BY <1>3, ProcsAre, JobPool DEF AuditRow, AuditWritten, AuditFails
<1>4. ASSUME NEW p \in Procs, Acquire(p) \/ ContextFails(p) \/ Job(p) PROVE PoolInv'
  <2>1. CASE LoginWritten(p)  BY <2>1, JobPool DEF LoginWritten
  <2>2. CASE GroupRead(p)  BY <2>2, JobPool DEF GroupRead
  <2> QED  BY <1>4, <2>1, <2>2, AcquirePool, ContextFailsPool, CrashPool DEF Job
<1>5. ASSUME NEW user \in Users, Deactivate(user) PROVE PoolInv'
  BY <1>5 DEF Deactivate, PoolInv, ConnectionsAddUp, Taken, OnlyMainsNest
<1>6. CASE UNCHANGED vars
  BY <1>6 DEF vars, PoolInv, ConnectionsAddUp, Taken, OnlyMainsNest
<1> QED  BY <1>1, <1>2, <1>3, <1>4, <1>5, <1>6 DEF Next

\* What all hold when nobody has all it needs: each of them is an import that has one
\* connection and waits for the second, and with the leaks they are the whole pool.
LEMMA SomeoneHasAll ==
  ASSUME TypeOK, PoolInv
  PROVE  SomeConnectionComesBack
<1>1. SUFFICES ASSUME free = 0, \A p \in Procs : held[p] > 0 => held[p] # Need(pc[p])
               PROVE  IsFiniteSet(Waiting) /\ Dry
  BY DEF SomeConnectionComesBack, TypeOK
<1>2. ASSUME NEW p \in Procs, held[p] > 0
      PROVE  held[p] = 1 /\ \E r \in Waiting : p = Main(r)
  <2>1. held[p] \in 0..2 /\ held[p] <= Need(pc[p]) /\ held[p] # Need(pc[p])
    BY <1>1, <1>2 DEF TypeOK, PoolInv
  <2>2. Need(pc[p]) \in {0, 1, 2} /\ (Need(pc[p]) = 2 => pc[p] = "inner")  BY DEF Need
  <2>3. held[p] = 1 /\ pc[p] = "inner"  BY <1>2, <2>1, <2>2
  <2>4. p[2] = "main"  BY <2>3 DEF PoolInv, OnlyMainsNest, Nesting
  <2>5. p[1] \in Requests /\ p = Main(p[1])  BY <2>4, ProcHasRequest DEF Main
  <2> QED  BY <2>3, <2>5 DEF Waiting
<1>3. \A r \in Waiting : r \in Requests /\ Main(r) \in Procs /\ held[Main(r)] = 1
  BY ProcsAre DEF Waiting
<1>4. \A c \in Taken : c[1] \in Procs /\ c[2] = 1 /\ c = <<c[1], c[2]>>
                       /\ \E r \in Waiting : c[1] = Main(r)
  <2> SUFFICES ASSUME NEW c \in Taken
               PROVE  /\ c[1] \in Procs /\ c[2] = 1 /\ c = <<c[1], c[2]>>
                      /\ \E r \in Waiting : c[1] = Main(r)
    OBVIOUS
  <2>1. c[2] <= held[c[1]] /\ c[1] \in Procs /\ c[2] \in 1..2 /\ c = <<c[1], c[2]>>
    BY DEF Taken
  <2>2. held[c[1]] > 0  BY <2>1 DEF TypeOK
  <2> QED  BY <1>2, <2>1, <2>2
<1> DEFINE f == [c \in Taken |-> c[1][1]]
<1>5. f \in Bijection(Taken, Waiting)
  <2>1. \A c \in Taken : c[1][1] \in Waiting /\ c = <<Main(c[1][1]), 1>>
    BY <1>4 DEF Main
  <2>2. f \in [Taken -> Waiting]  BY <2>1
  <2>3. \A c, d \in Taken : f[c] = f[d] => c = d  BY <2>1
  <2>4. \A r \in Waiting : <<Main(r), 1>> \in Taken /\ f[<<Main(r), 1>>] = r
    BY <1>3 DEF Taken, Main
  <2> HIDE DEF f
  <2> QED  BY <2>2, <2>3, <2>4 DEF Bijection, Injection, Surjection, IsInjective
<1> HIDE DEF f
<1>6. IsFiniteSet(Taken) /\ free + leaked + Cardinality(Taken) = PoolSize
  BY DEF PoolInv, ConnectionsAddUp
<1>7. IsFiniteSet(Waiting) /\ Cardinality(Waiting) = Cardinality(Taken)
  <2>1. ExistsBijection(Taken, Waiting)  BY <1>5 DEF ExistsBijection
  <2> QED  BY <1>6, <2>1, FS_Bijection
<1>8. Cardinality(Waiting) \in Nat  BY <1>7, FS_CardinalityType
<1> QED  BY <1>1, <1>6, <1>7, <1>8, PoolAssumption DEF Dry, TypeOK

\* The pool stops giving connections back only when every one of them is lost to a failed
\* set_tenant_context or held by an import that waits for its second: acquireConnection
\* and releaseConnection, logins, lookups, audit writes and crashes, for any pool.
THEOREM PoolMoves == Spec => []SomeConnectionComesBack
<1>1. IInv /\ PoolInv => SomeConnectionComesBack  BY SomeoneHasAll DEF IInv
<1> QED  BY <1>1, InitPool, NextPool, RequestInvariance, PTL DEF Spec
=============================================================================
