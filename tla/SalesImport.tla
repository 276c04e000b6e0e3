----------------------------- MODULE SalesImport -----------------------------
(***************************************************************************)
(* Sales imports of the IMS API.  A client uploads a sales file either for *)
(* the queue (uploadSalesFile: a row of sales_import_batches, then a job   *)
(* that SalesImportProcessor runs) or as a POS export (uploadPosFile),     *)
(* which a later request asks to process (processPosBatch).                *)
(*                                                                         *)
(* Both runs go the same way: mark the batch PROCESSING, import the file   *)
(* in one transaction (the rows, and the ledger depletions they expand     *)
(* to), then mark it COMPLETED, or FAILED when anything threw.  The two    *)
(* marks are statements of their own, outside the transaction.             *)
(*                                                                         *)
(* The queue is BullMQ with its defaults: one attempt, and a job whose     *)
(* lock runs out is delivered again, MaxStalls = 1 times.                  *)
(***************************************************************************)
EXTENDS Integers, FiniteSets

CONSTANTS
  Requests,   \* the HTTP requests that can be in flight at once
  Workers,    \* the BullMQ workers of the API processes; each runs one job
  Batches,    \* the ids uuidv4() can draw
  NoBatch,    \* an actor with nothing to do
  NoWorker,   \* a job nobody holds the lock of
  MaxStalls,  \* maxStalledCount: how often a stalled job is delivered again
  MaxErrors,  \* bound: queries that fail, or whose answer is lost
  MaxOutages  \* bound: runs that die, or lose the lock of their job

ASSUME SalesAssumption ==
  /\ IsFiniteSet(Workers)
  /\ Requests \cap Workers = {}
  /\ NoBatch \notin Batches
  /\ NoWorker \notin Workers
  /\ MaxStalls \in Nat
  /\ MaxErrors \in Nat
  /\ MaxOutages \in Nat

Actors == Requests \union Workers

VARIABLES
  status,    \* sales_import_batches.status, "ABSENT" before the INSERT
  kind,      \* "pos" when storage_path is set, "queued" when it is null
  imported,  \* how many import transactions committed for the batch
  job,       \* the job of the batch: "none", "waiting", "active" or "ended"
  stalls,    \* how often that job was delivered again
  holder,    \* the worker that holds the lock of that job
  pc,        \* what each actor does next
  batch,     \* the batch it does it for
  errors, outages,
  alone      \* history: the batches no two requests have yet been at work on at once

table == <<status, kind, imported>>
queue == <<job, stalls, holder>>
vars == <<table, queue, pc, batch, errors, outages, alone>>

Init ==
  /\ status = [b \in Batches |-> "ABSENT"]
  /\ kind = [b \in Batches |-> "none"]
  /\ imported = [b \in Batches |-> 0]
  /\ job = [b \in Batches |-> "none"]
  /\ stalls = [b \in Batches |-> 0]
  /\ holder = [b \in Batches |-> NoWorker]
  /\ pc = [a \in Actors |-> "idle"]
  /\ batch = [a \in Actors |-> NoBatch]
  /\ errors = 0
  /\ outages = 0
  /\ alone = Batches

\* A request that goes on with a batch another one is at work on is not alone.
Meets(a, next, b) ==
  alone' = IF a \in Requests /\ next # "idle" /\ \E q \in Requests \ {a} : batch[q] = b
             THEN alone \ {b} ELSE alone

Continue(a, next, b) ==
  /\ pc' = [pc EXCEPT ![a] = next]
  /\ batch' = [batch EXCEPT ![a] = IF next = "idle" THEN NoBatch ELSE b]
  /\ Meets(a, next, b)

\* updateBatchStatus and updateBatchAfterUpload look at the id alone.
SetStatus(b, s) ==
  /\ status' = [status EXCEPT ![b] = s]
  /\ UNCHANGED <<kind, imported>>

-----------------------------------------------------------------------------
(* Uploads *)

\* createBatch.
Insert(b, k) ==
  /\ status[b] = "ABSENT"
  /\ status' = [status EXCEPT ![b] = "PENDING"]
  /\ kind' = [kind EXCEPT ![b] = k]
  /\ UNCHANGED imported

UploadSalesFile(r) ==
  /\ pc[r] = "idle"
  /\ \E b \in Batches : Insert(b, "queued") /\ Continue(r, "enqueue", b)
  /\ UNCHANGED <<queue, errors, outages>>

UploadPosFile(r) ==
  /\ pc[r] = "idle"
  /\ \E b \in Batches : Insert(b, "pos")
  /\ UNCHANGED <<queue, pc, batch, errors, outages, alone>>

Enqueue(r) ==
  /\ pc[r] = "enqueue"
  /\ job' = [job EXCEPT ![batch[r]] = "waiting"]
  /\ Continue(r, "idle", NoBatch)
  /\ UNCHANGED <<table, stalls, holder, errors, outages>>

-----------------------------------------------------------------------------
(* Runs *)

\* Faulty variant of PosCheck: used by no action.
PosCheckAny(r) ==
  /\ pc[r] = "idle"
  /\ \E b \in Batches : /\ status[b] \notin {"ABSENT", "COMPLETED"}
                        /\ Continue(r, "pos_mark", b)
  /\ UNCHANGED <<table, queue, errors, outages>>

\* processPosBatch reads the batch, whatever way it was uploaded.
PosCheck(r) ==
  /\ pc[r] = "idle"
  /\ \E b \in Batches : status[b] = "PENDING" /\ Continue(r, "pos_mark", b)
  /\ UNCHANGED <<table, queue, errors, outages>>

\* Faulty variant of PosMark: used by no action.
PosMarkAny(r) ==
  /\ pc[r] = "pos_mark"
  /\ SetStatus(batch[r], "PROCESSING")
  /\ Continue(r, "import", batch[r])
  /\ UNCHANGED <<queue, errors, outages>>

\* The throw for a batch without a storage path comes before the try: the batch
\* stays PROCESSING.
PosMark(r) ==
  /\ pc[r] = "pos_mark"
  /\ SetStatus(batch[r], "PROCESSING")
  /\ Continue(r, IF kind[batch[r]] = "pos" THEN "import" ELSE "idle", batch[r])
  /\ UNCHANGED <<queue, errors, outages>>

\* BullMQ gives a waiting job, and its lock, to a worker.
Take(w) ==
  /\ pc[w] = "idle"
  /\ \E b \in Batches :
       /\ job[b] = "waiting"
       /\ job' = [job EXCEPT ![b] = "active"]
       /\ holder' = [holder EXCEPT ![b] = w]
       /\ Continue(w, "mark", b)
  /\ UNCHANGED <<table, stalls, errors, outages>>

Mark(w) ==
  /\ pc[w] = "mark"
  /\ SetStatus(batch[w], "PROCESSING")
  /\ Continue(w, "import", batch[w])
  /\ UNCHANGED <<queue, errors, outages>>

\* The transaction commits.
AddImport(a) ==
  /\ imported' = [imported EXCEPT ![batch[a]] = @ + 1]
  /\ UNCHANGED <<status, kind>>

Import(a) ==
  /\ pc[a] = "import"
  /\ AddImport(a)
  /\ Continue(a, "complete", batch[a])
  /\ UNCHANGED <<queue, errors, outages>>

\* Faulty variant of Refuse: used by no action.
CompletedAnyway(a) ==
  /\ pc[a] = "import"
  /\ Continue(a, "complete", batch[a])
  /\ UNCHANGED <<table, queue, errors, outages>>

\* Faulty variant of Refuse: used by no action.
RefuseUnmarked(a) ==
  /\ pc[a] = "import"
  /\ Continue(a, IF a \in Workers THEN "ack" ELSE "idle", batch[a])
  /\ UNCHANGED <<table, queue, errors, outages>>

\* The file holds something the import refuses (no valid row, a quantity or a
\* recipe that expandBOM rejects): the transaction, if begun, rolls back.
Refuse(a) ==
  /\ pc[a] = "import"
  /\ Continue(a, "mark_failed", batch[a])
  /\ UNCHANGED <<table, queue, errors, outages>>

\* What a run does once it is through: a request has been answered, and a worker
\* tells the queue.
Through(a) == IF a \in Workers THEN "ack" ELSE "idle"

Complete(a) ==
  /\ pc[a] = "complete"
  /\ SetStatus(batch[a], "COMPLETED")
  /\ Continue(a, Through(a), batch[a])
  /\ UNCHANGED <<queue, errors, outages>>

MarkFailed(a) ==
  /\ pc[a] = "mark_failed"
  /\ SetStatus(batch[a], "FAILED")
  /\ Continue(a, Through(a), batch[a])
  /\ UNCHANGED <<queue, errors, outages>>

\* moveToCompleted or moveToFailed: refused when the lock has gone to another
\* delivery of the job.
Ack(w) ==
  LET b == batch[w] IN
  /\ pc[w] = "ack"
  /\ IF job[b] = "active" /\ holder[b] = w
       THEN /\ job' = [job EXCEPT ![b] = "ended"]
            /\ holder' = [holder EXCEPT ![b] = NoWorker]
       ELSE UNCHANGED <<job, holder>>
  /\ Continue(w, "idle", NoBatch)
  /\ UNCHANGED <<table, stalls, errors, outages>>

-----------------------------------------------------------------------------
(* What goes wrong *)

\* What the query an actor waits for writes.
Effect(a) ==
  \/ pc[a] \in {"pos_mark", "mark"} /\ SetStatus(batch[a], "PROCESSING")
  \/ pc[a] = "import" /\ AddImport(a)
  \/ pc[a] = "complete" /\ SetStatus(batch[a], "COMPLETED")
  \/ pc[a] = "mark_failed" /\ SetStatus(batch[a], "FAILED")

\* The query fails, or did its work but the answer is lost.  The try covers a
\* worker's first statement, not the one of processPosBatch, and not the update
\* in the catch.
QueryFails(a) ==
  /\ pc[a] \in {"enqueue", "pos_mark", "mark", "import", "complete", "mark_failed"}
  /\ errors < MaxErrors
  /\ errors' = errors + 1
  /\ Effect(a) \/ UNCHANGED table
  /\ Continue(a, CASE pc[a] \in {"enqueue", "pos_mark"} -> "idle"
                   [] pc[a] = "mark_failed" -> Through(a)
                   [] OTHER -> "mark_failed", batch[a])
  /\ UNCHANGED <<queue, outages>>

\* The API process that runs the handler dies.
Die(a) ==
  /\ pc[a] # "idle"
  /\ outages < MaxOutages
  /\ outages' = outages + 1
  /\ Continue(a, "idle", NoBatch)
  /\ UNCHANGED <<table, queue, errors>>

\* The lock of an active job has run out: it is delivered again, or given up.
Redeliver(b) ==
  /\ IF stalls[b] < MaxStalls
       THEN /\ job' = [job EXCEPT ![b] = "waiting"]
            /\ stalls' = [stalls EXCEPT ![b] = @ + 1]
       ELSE /\ job' = [job EXCEPT ![b] = "ended"]
            /\ UNCHANGED stalls
  /\ holder' = [holder EXCEPT ![b] = NoWorker]
  /\ UNCHANGED <<table, pc, batch, errors, alone>>

Runs(w, b) == w \in Workers /\ pc[w] # "idle" /\ batch[w] = b

\* The worker that held it is gone.
StalledDead(b) ==
  /\ job[b] = "active" /\ ~Runs(holder[b], b)
  /\ Redeliver(b)
  /\ UNCHANGED outages

\* The worker is alive and goes on, but was too busy to renew the lock: it reads
\* and parses the file synchronously.
StalledAlive(b) ==
  /\ job[b] = "active" /\ Runs(holder[b], b)
  /\ outages < MaxOutages
  /\ outages' = outages + 1
  /\ Redeliver(b)

-----------------------------------------------------------------------------
\* A run that has begun goes on.
Proceed(a) == Import(a) \/ Refuse(a) \/ Complete(a) \/ MarkFailed(a)

Next ==
  \/ \E r \in Requests :
       \/ UploadSalesFile(r)
       \/ UploadPosFile(r)
       \/ Enqueue(r)
       \/ PosCheck(r)
       \/ PosMark(r)
  \/ \E w \in Workers : Take(w) \/ Mark(w) \/ Ack(w)
  \/ \E a \in Actors : Proceed(a) \/ QueryFails(a) \/ Die(a)
  \/ \E b \in Batches : StalledDead(b) \/ StalledAlive(b)

Spec == Init /\ [][Next]_vars

\* A worker polls for jobs and gets through its run, and the check for stalled
\* jobs runs every 30 seconds.
FairSpec ==
  /\ Spec
  /\ \A w \in Workers : WF_vars(Take(w)) /\ WF_vars(Mark(w) \/ Proceed(w) \/ Ack(w))
  /\ \A b \in Batches : WF_vars(StalledDead(b))

-----------------------------------------------------------------------------
(* Properties *)

Statuses == {"ABSENT", "PENDING", "PROCESSING", "COMPLETED", "FAILED"}

RequestStates == {"idle", "enqueue", "pos_mark", "import", "complete", "mark_failed"}
WorkerStates == {"idle", "mark", "import", "complete", "mark_failed", "ack"}

ActorsOK ==
  /\ pc \in [Actors -> RequestStates \union WorkerStates]
  /\ \A r \in Requests : pc[r] \in RequestStates
  /\ \A w \in Workers : pc[w] \in WorkerStates
  /\ batch \in [Actors -> Batches \union {NoBatch}]
  /\ \A a \in Actors : pc[a] = "idle" <=> batch[a] = NoBatch
  /\ alone \subseteq Batches

\* Every variable has its type; an actor is busy exactly when it has a batch.
TypeOK ==
  /\ status \in [Batches -> Statuses]
  /\ kind \in [Batches -> {"none", "queued", "pos"}]
  /\ imported \in [Batches -> Nat]
  /\ job \in [Batches -> {"none", "waiting", "active", "ended"}]
  /\ stalls \in [Batches -> 0..MaxStalls]
  /\ holder \in [Batches -> Workers \union {NoWorker}]
  /\ ActorsOK
  /\ errors \in 0..MaxErrors
  /\ outages \in 0..MaxOutages

\* However runs race, die and are repeated, a batch shown as COMPLETED has had
\* its rows and depletions imported.
CompletedMeansImported ==
  \A b \in Batches : status[b] = "COMPLETED" => imported[b] > 0

\* A file uploaded for the queue is imported at most once per delivery of its
\* job, so at most 1 + MaxStalls times, whatever dies or loses its lock, and
\* although processPosBatch can be called for it too.
RedeliveriesBoundImports ==
  \A b \in Batches : kind[b] = "queued" => imported[b] =< 1 + MaxStalls

\* The inductive invariant behind the two.  A delivery that is still to import is
\* a job that waits (or is not yet there), or a worker that has not come to its
\* transaction.
YetToImport(b) == {w \in Workers : pc[w] \in {"mark", "import"} /\ batch[w] = b}

Undelivered(b) == IF job[b] \in {"none", "waiting"} THEN 1 ELSE 0

ImportsWithinDeliveries ==
  \A b \in Batches : kind[b] = "queued" =>
    imported[b] + Cardinality(YetToImport(b)) + Undelivered(b) =< 1 + stalls[b]

Knows(a) ==
  /\ pc[a] # "idle" => status[batch[a]] # "ABSENT"
  /\ pc[a] = "import" => status[batch[a]] # "PENDING"
  /\ pc[a] = "complete" => imported[batch[a]] > 0
  /\ a \in Workers /\ pc[a] # "idle" => kind[batch[a]] = "queued"
  /\ pc[a] = "enqueue" => kind[batch[a]] = "queued" /\ job[batch[a]] = "none"
  /\ a \in Requests /\ pc[a] \in {"import", "complete", "mark_failed"} =>
       kind[batch[a]] = "pos"

RunsKnowTheirBatch == \A a \in Actors : Knows(a)

\* A batch is enqueued by the one request that inserted it.
OneEnqueues ==
  \A q, r \in Requests :
    pc[q] = "enqueue" /\ pc[r] = "enqueue" /\ batch[q] = batch[r] => q = r

\* A job belongs to a batch uploaded for the queue, and nothing is imported for a
\* batch that no run has marked.
BatchesFit ==
  \A b \in Batches :
    /\ job[b] # "none" => kind[b] = "queued"
    /\ status[b] = "ABSENT" <=> kind[b] = "none"
    /\ status[b] \in {"ABSENT", "PENDING"} => imported[b] = 0

\* Every client request and worker: the invariant that is proved.
IInv ==
  /\ TypeOK
  /\ CompletedMeansImported
  /\ ImportsWithinDeliveries
  /\ RunsKnowTheirBatch
  /\ OneEnqueues
  /\ BatchesFit

\* 'should throw BadRequestException when batch is not PENDING': a POS file is
\* imported at most once, whatever fails, if the requests to process it never
\* overlapped.
PosImportedOnceUnlessRaced ==
  \A b \in alone : kind[b] = "pos" => imported[b] =< 1

\* What it rests on: until two requests have overlapped on a POS batch, the one at
\* work on it marks it while it is PENDING and imports it while nothing has been
\* imported for it.
SoleRequest(b) ==
  /\ \A q, r \in Requests : batch[q] = b /\ batch[r] = b => q = r
  /\ \A r \in Requests : batch[r] = b =>
       /\ pc[r] = "pos_mark" => status[b] = "PENDING"
       /\ pc[r] = "import" => imported[b] = 0
  /\ imported[b] =< 1

AloneInv == \A b \in alone : kind[b] = "pos" => SoleRequest(b)

\* As long as no query fails, and no more runs die than a job can be delivered
\* again, every job that is enqueued brings its batch to COMPLETED or FAILED.
JobsDecideTheirBatch ==
  \A b \in Batches :
    job[b] = "waiting" ~> \/ status[b] \in {"COMPLETED", "FAILED"}
                          \/ errors > 0
                          \/ outages > MaxStalls

-----------------------------------------------------------------------------
(* Why a job is not given up, proved in SalesImportProofs.                    *)

\* The safety behind JobsDecideTheirBatch: until more runs died or lost their lock than
\* a job is delivered again, a job ends only by the run that holds its lock, when it is
\* through; no delivery is given up, whatever fails and whoever else is at work.
NoJobIsGivenUp ==
  [][\A b \in Batches :
       job[b] = "active" /\ job'[b] = "ended" /\ outages' =< MaxStalls =>
         Runs(holder[b], b) /\ pc[holder[b]] = "ack"]_vars

\* The lock of an active job whose worker is gone will run out.
Abandoned(b) == IF job[b] = "active" /\ ~Runs(holder[b], b) THEN 1 ELSE 0

\* Each time a job is delivered again, or will be, a run of it has died or lost its lock.
StallsHaveCauses == \A b \in Batches : stalls[b] + Abandoned(b) =< outages
=============================================================================
