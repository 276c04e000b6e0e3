-------------------------- MODULE SalesImportProofs --------------------------
(***************************************************************************)
(* Theorems about SalesImport, for any number of requests, workers,        *)
(* batches, redeliveries, failing queries and outages.                     *)
(***************************************************************************)
EXTENDS SalesImport, FiniteSetTheorems, TLAPS

\* An actor's next step and its batch keep their types.
LEMMA ContinueType ==
  ASSUME TypeOK, NEW a \in Actors, NEW next, NEW b \in Batches \union {NoBatch},
         Continue(a, next, b),
         next # "idle" => b \in Batches,
         a \in Requests => next \in RequestStates,
         a \in Workers => next \in WorkerStates
  PROVE  ActorsOK'
<1>0. ActorsOK  BY DEF TypeOK
<1>1. /\ pc' = [pc EXCEPT ![a] = next]
      /\ batch' = [batch EXCEPT ![a] = IF next = "idle" THEN NoBatch ELSE b]
  BY DEF Continue
<1>2. alone' \subseteq Batches  BY <1>0 DEF ActorsOK, Continue, Meets
<1> QED  BY <1>0, <1>1, <1>2, SalesAssumption DEF ActorsOK, Actors

\* The workers yet to import for a batch are finitely many.
LEMMA YetFinite ==
  ASSUME NEW b
  PROVE  IsFiniteSet(YetToImport(b)) /\ Cardinality(YetToImport(b)) \in Nat
<1>1. YetToImport(b) \subseteq Workers  BY DEF YetToImport
<1>2. IsFiniteSet(Workers)  BY SalesAssumption
<1> QED  BY <1>1, <1>2, FS_Subset, FS_CardinalityType

\* An actor that goes on elsewhere than to "mark" or "import" is no more among
\* them; the others are.
LEMMA Leaves ==
  ASSUME TypeOK, NEW a \in Actors, NEW next, NEW b0, Continue(a, next, b0),
         next \notin {"mark", "import"}, NEW b \in Batches
  PROVE  /\ YetToImport(b)' = YetToImport(b) \ {a}
         /\ Cardinality(YetToImport(b)') \in Nat
         /\ Cardinality(YetToImport(b)') =< Cardinality(YetToImport(b))
         /\ a \in YetToImport(b) =>
              Cardinality(YetToImport(b)') = Cardinality(YetToImport(b)) - 1
<1>0. ActorsOK  BY DEF TypeOK
<1>1. /\ pc' = [pc EXCEPT ![a] = next]
      /\ batch' = [batch EXCEPT ![a] = IF next = "idle" THEN NoBatch ELSE b0]
  BY DEF Continue
<1>2. YetToImport(b)' = YetToImport(b) \ {a}
  BY <1>0, <1>1 DEF YetToImport, ActorsOK, Actors
<1>3. /\ IsFiniteSet(YetToImport(b))
      /\ Cardinality(YetToImport(b)) \in Nat
  BY YetFinite
<1>4. /\ IsFiniteSet(YetToImport(b) \ {a})
      /\ Cardinality(YetToImport(b) \ {a}) =
           IF a \in YetToImport(b) THEN Cardinality(YetToImport(b)) - 1
                                   ELSE Cardinality(YetToImport(b))
  BY <1>3, FS_RemoveElement
<1>5. Cardinality(YetToImport(b) \ {a}) \in Nat  BY <1>4, FS_CardinalityType
<1> QED  BY <1>2, <1>3, <1>4, <1>5

\* A step of a request leaves the workers where they are.
LEMMA RequestsDoNotCount ==
  ASSUME TypeOK, NEW r \in Requests, NEW next, NEW b0, Continue(r, next, b0),
         NEW b \in Batches
  PROVE  YetToImport(b)' = YetToImport(b)
<1>0. ActorsOK  BY DEF TypeOK
<1>1. \A w \in Workers : pc'[w] = pc[w] /\ batch'[w] = batch[w]
  BY <1>0, SalesAssumption DEF Continue, ActorsOK, Actors
<1> QED  BY <1>1 DEF YetToImport

\* What a step leaves to prove once the types are known: the facts that follow
\* by cases on the actor and the batch.
Facts == CompletedMeansImported /\ RunsKnowTheirBatch /\ OneEnqueues /\ BatchesFit

-----------------------------------------------------------------------------
(* Steps of requests *)

LEMMA UploadSalesFileStep ==
  ASSUME IInv, NEW r \in Requests, UploadSalesFile(r)
  PROVE  IInv'
<1> USE SalesAssumption
<1>0. TypeOK /\ ActorsOK /\ Facts /\ ImportsWithinDeliveries  BY DEF IInv, TypeOK, Facts
<1>1. PICK b \in Batches : Insert(b, "queued") /\ Continue(r, "enqueue", b)
  BY DEF UploadSalesFile
<1>2. UNCHANGED <<queue, errors, outages>>  BY DEF UploadSalesFile
<1>3. r \in Actors /\ pc[r] = "idle"  BY DEF Actors, UploadSalesFile
<1>4. ActorsOK'
  BY <1>0, <1>1, <1>3, ContinueType DEF RequestStates
<1>5. TypeOK'
  BY <1>0, <1>1, <1>2, <1>4 DEF TypeOK, Insert, queue, Statuses
<1>6. /\ \A a \in Actors : pc[a] # "idle" => batch[a] # b
      /\ status[b] = "ABSENT" /\ job[b] = "none" /\ imported[b] = 0
  BY <1>0, <1>1 DEF Facts, RunsKnowTheirBatch, Knows, BatchesFit, Insert
<1>7. Facts'
  BY <1>0, <1>1, <1>2, <1>3, <1>6
     DEF Facts, CompletedMeansImported, RunsKnowTheirBatch, Knows, OneEnqueues, BatchesFit,
         Insert, Continue, queue, TypeOK, ActorsOK, Actors
<1>8. ImportsWithinDeliveries'
  <2> SUFFICES ASSUME NEW c \in Batches, kind'[c] = "queued"
               PROVE  imported'[c] + Cardinality(YetToImport(c)') + Undelivered(c)'
                        =< 1 + stalls'[c]
    BY DEF ImportsWithinDeliveries
  <2>1. YetToImport(c)' = YetToImport(c)  BY <1>0, <1>1, RequestsDoNotCount
  <2>2. CASE c = b
    <3>1. YetToImport(c) = {}
      BY <1>6, <2>2 DEF YetToImport, Actors
    <3>2. Cardinality(YetToImport(c)') = 0  BY <2>1, <3>1, FS_EmptySet
    <3> QED  BY <1>0, <1>1, <1>2, <1>6, <2>2, <3>2 DEF Undelivered, queue, Insert, TypeOK
  <2>3. CASE c # b
    <3>1. kind[c] = "queued"  BY <1>0, <1>1, <2>3 DEF Insert, TypeOK
    <3>2. imported[c] + Cardinality(YetToImport(c)) + Undelivered(c) =< 1 + stalls[c]
      BY <1>0, <3>1 DEF ImportsWithinDeliveries
    <3>3. /\ imported'[c] = imported[c] /\ stalls'[c] = stalls[c]
          /\ Undelivered(c)' = Undelivered(c)
      BY <1>1, <1>2 DEF Insert, queue, Undelivered
    <3> QED  BY <2>1, <3>2, <3>3
  <2> QED  BY <2>2, <2>3
<1> QED  BY <1>5, <1>7, <1>8 DEF IInv, Facts

LEMMA UploadPosFileStep ==
  ASSUME IInv, NEW r \in Requests, UploadPosFile(r)
  PROVE  IInv'
<1> USE SalesAssumption
<1>0. TypeOK /\ Facts /\ ImportsWithinDeliveries  BY DEF IInv, Facts
<1>1. PICK b \in Batches : Insert(b, "pos")  BY DEF UploadPosFile
<1>2. UNCHANGED <<queue, pc, batch, errors, outages, alone>>  BY DEF UploadPosFile
<1>3. TypeOK'
  BY <1>0, <1>1, <1>2 DEF TypeOK, ActorsOK, Insert, queue, Statuses
<1>4. status[b] = "ABSENT" /\ job[b] = "none" /\ imported[b] = 0 /\ kind[b] = "none"
  BY <1>0, <1>1 DEF Facts, BatchesFit, Insert
<1>5. Facts'
  BY <1>0, <1>1, <1>2, <1>4
     DEF Facts, CompletedMeansImported, RunsKnowTheirBatch, Knows, OneEnqueues, BatchesFit,
         Insert, queue, TypeOK, ActorsOK
<1>6. ImportsWithinDeliveries'
  <2> SUFFICES ASSUME NEW c \in Batches, kind'[c] = "queued"
               PROVE  imported'[c] + Cardinality(YetToImport(c)') + Undelivered(c)'
                        =< 1 + stalls'[c]
    BY DEF ImportsWithinDeliveries
  <2>1. kind[c] = "queued"  BY <1>0, <1>1 DEF Insert, TypeOK
  <2>2. /\ imported'[c] = imported[c] /\ stalls'[c] = stalls[c]
        /\ Undelivered(c)' = Undelivered(c)
    BY <1>1, <1>2 DEF Insert, queue, Undelivered
  <2>3. YetToImport(c)' = YetToImport(c)  BY <1>2 DEF YetToImport
  <2> QED  BY <1>0, <2>1, <2>2, <2>3 DEF ImportsWithinDeliveries
<1> QED  BY <1>3, <1>5, <1>6 DEF IInv, Facts

LEMMA EnqueueStep ==
  ASSUME IInv, NEW r \in Requests, Enqueue(r)
  PROVE  IInv'
<1> USE SalesAssumption
<1>0. TypeOK /\ ActorsOK /\ Facts /\ ImportsWithinDeliveries  BY DEF IInv, TypeOK, Facts
<1>1. /\ job' = [job EXCEPT ![batch[r]] = "waiting"]
      /\ Continue(r, "idle", NoBatch)
      /\ UNCHANGED <<table, stalls, holder, errors, outages>>
      /\ pc[r] = "enqueue"
  BY DEF Enqueue
<1>2. r \in Actors  BY DEF Actors
<1>3. ActorsOK'  BY <1>0, <1>1, <1>2, ContinueType DEF RequestStates
<1>4. TypeOK'  BY <1>0, <1>1, <1>3 DEF TypeOK, table
<1>5. batch[r] \in Batches  BY <1>0, <1>1, <1>2 DEF ActorsOK
<1>6. kind[batch[r]] = "queued" /\ job[batch[r]] = "none"
  BY <1>0, <1>1, <1>2 DEF Facts, RunsKnowTheirBatch, Knows
<1>7. Facts'
  <2>1. /\ \A a \in Actors \ {r} : pc'[a] = pc[a] /\ batch'[a] = batch[a]
        /\ pc'[r] = "idle"
    BY <1>0, <1>1, <1>2 DEF Continue, ActorsOK
  <2>2. \A c \in Batches \ {batch[r]} : job'[c] = job[c]  BY <1>0, <1>1 DEF TypeOK
  <2>3. status' = status /\ kind' = kind /\ imported' = imported
    BY <1>1 DEF table
  <2>4. ASSUME NEW a \in Actors  PROVE Knows(a)'
    <3>1. CASE a = r  BY <2>1, <3>1, SalesAssumption DEF Knows
    <3>2. CASE a # r
      <4>1. Knows(a)  BY <1>0 DEF Facts, RunsKnowTheirBatch
      <4>2. pc'[a] = pc[a] /\ batch'[a] = batch[a]  BY <2>1, <3>2
      <4>3. pc[a] = "enqueue" => batch[a] \in Batches \ {batch[r]}
        <5>1. pc[a] = "enqueue" => a \in Requests
          BY <1>0 DEF ActorsOK, Actors, WorkerStates
        <5>2. pc[a] = "enqueue" => batch[a] # batch[r]
          BY <1>0, <1>1, <3>2, <5>1 DEF Facts, OneEnqueues
        <5> QED  BY <1>0, <5>2 DEF ActorsOK
      <4> QED  BY <2>2, <2>3, <4>1, <4>2, <4>3 DEF Knows
    <3> QED  BY <3>1, <3>2
  <2>5. CompletedMeansImported'  BY <1>0, <2>3 DEF Facts, CompletedMeansImported
  <2>6. OneEnqueues'  BY <1>0, <2>1 DEF Facts, OneEnqueues, Actors
  <2>7. BatchesFit'
    BY <1>0, <1>5, <1>6, <2>2, <2>3 DEF Facts, BatchesFit
  <2> QED  BY <2>4, <2>5, <2>6, <2>7 DEF Facts, RunsKnowTheirBatch, Knows
<1>8. ImportsWithinDeliveries'
  <2> SUFFICES ASSUME NEW c \in Batches, kind'[c] = "queued"
               PROVE  imported'[c] + Cardinality(YetToImport(c)') + Undelivered(c)'
                        =< 1 + stalls'[c]
    BY DEF ImportsWithinDeliveries
  <2>1. YetToImport(c)' = YetToImport(c)  BY <1>0, <1>1, RequestsDoNotCount
  <2>2. Undelivered(c)' = Undelivered(c)
    BY <1>0, <1>1, <1>5, <1>6 DEF Undelivered, TypeOK
  <2> QED  BY <1>0, <1>1, <2>1, <2>2 DEF ImportsWithinDeliveries, table
<1> QED  BY <1>4, <1>7, <1>8 DEF IInv, Facts

\* Steps of a request that write at most the status, to PROCESSING or to what it was.
LEMMA PosStep ==
  ASSUME IInv, NEW r \in Requests, PosCheck(r) \/ PosMark(r)
  PROVE  IInv'
<1> USE SalesAssumption
<1>0. TypeOK /\ ActorsOK /\ Facts /\ ImportsWithinDeliveries  BY DEF IInv, TypeOK, Facts
<1>1. r \in Actors  BY DEF Actors
<1>2. PICK b \in Batches, next \in {"pos_mark", "import", "idle"} :
        /\ Continue(r, next, b)
        /\ status[b] # "ABSENT"
        /\ next = "pos_mark" => pc[r] = "idle" /\ UNCHANGED status
        /\ next # "pos_mark" =>
             /\ pc[r] = "pos_mark" /\ batch[r] = b
             /\ status' = [status EXCEPT ![b] = "PROCESSING"]
        /\ next = "import" => kind[b] = "pos"
  <2>1. CASE PosCheck(r)
    <3>1. PICK b \in Batches : status[b] = "PENDING" /\ Continue(r, "pos_mark", b)
      BY <2>1 DEF PosCheck
    <3> QED  BY <2>1, <3>1 DEF PosCheck, table
  <2>2. CASE PosMark(r)
    <3>1. batch[r] \in Batches  BY <1>0, <1>1, <2>2 DEF PosMark, ActorsOK
    <3>2. status[batch[r]] # "ABSENT"
      BY <1>0, <1>1, <2>2 DEF PosMark, Facts, RunsKnowTheirBatch, Knows
    <3>3. CASE kind[batch[r]] = "pos"
      BY <2>2, <3>1, <3>2, <3>3 DEF PosMark, SetStatus
    <3>4. CASE kind[batch[r]] # "pos"
      BY <2>2, <3>1, <3>2, <3>4 DEF PosMark, SetStatus
    <3> QED  BY <3>3, <3>4
  <2> QED  BY <2>1, <2>2
<1>3. UNCHANGED <<kind, imported, queue, errors, outages>>
  BY DEF PosCheck, PosMark, SetStatus, table
<1>4. ActorsOK'  BY <1>0, <1>1, <1>2, ContinueType DEF RequestStates
<1>5. status' \in [Batches -> Statuses]
  BY <1>0, <1>2 DEF TypeOK, Statuses
<1>6. TypeOK'  BY <1>0, <1>3, <1>4, <1>5 DEF TypeOK, queue
<1>7. Facts'
  BY <1>0, <1>1, <1>2, <1>3
     DEF Facts, CompletedMeansImported, RunsKnowTheirBatch, Knows, OneEnqueues, BatchesFit,
         Continue, queue, TypeOK, ActorsOK, Actors
<1>8. ImportsWithinDeliveries'
  <2> SUFFICES ASSUME NEW c \in Batches, kind'[c] = "queued"
               PROVE  imported'[c] + Cardinality(YetToImport(c)') + Undelivered(c)'
                        =< 1 + stalls'[c]
    BY DEF ImportsWithinDeliveries
  <2>1. YetToImport(c)' = YetToImport(c)  BY <1>0, <1>2, RequestsDoNotCount
  <2>2. Undelivered(c)' = Undelivered(c)  BY <1>3 DEF Undelivered, queue
  <2> QED  BY <1>0, <1>3, <2>1, <2>2 DEF ImportsWithinDeliveries, queue
<1> QED  BY <1>6, <1>7, <1>8 DEF IInv, Facts

-----------------------------------------------------------------------------
(* Steps of a run *)

\* What every step of a run, and everything that can go wrong with one, does: it
\* takes one query further, or ends.
Onward(a, next) ==
  /\ pc[a] # "idle"
  /\ next \in {"idle", "import", "complete", "mark_failed", "ack"}
  /\ Continue(a, next, batch[a])
  /\ pc[a] \in {"enqueue", "pos_mark"} => next = "idle"
  /\ next = "import" => pc[a] = "mark" /\ status'[batch[a]] = "PROCESSING"
  /\ next = "complete" => imported'[batch[a]] > 0
  /\ next = "ack" => a \in Workers

\* What it writes.
Writes(a, next) ==
  \/ UNCHANGED <<status, imported>>
  \/ /\ pc[a] = "import" /\ next # "import"
     /\ imported' = [imported EXCEPT ![batch[a]] = @ + 1]
     /\ UNCHANGED status
  \/ /\ pc[a] # "enqueue"
     /\ \E s \in {"PROCESSING", "COMPLETED", "FAILED"} :
          /\ s = "COMPLETED" => pc[a] = "complete"
          /\ status' = [status EXCEPT ![batch[a]] = s]
     /\ UNCHANGED imported

\* What it does to the queue.
Ends ==
  /\ job' \in [Batches -> {"none", "waiting", "active", "ended"}]
  /\ \A c \in Batches : job'[c] = job[c] \/ (job[c] = "active" /\ job'[c] = "ended")
  /\ holder' \in [Batches -> Workers \union {NoWorker}]
  /\ UNCHANGED stalls

LEMMA RunStep ==
  ASSUME IInv, NEW a \in Actors, NEW next, Onward(a, next), Writes(a, next), Ends,
         UNCHANGED kind, errors' \in 0..MaxErrors, outages' \in 0..MaxOutages
  PROVE  IInv'
<1> USE SalesAssumption
<1>0. TypeOK /\ ActorsOK /\ Facts /\ ImportsWithinDeliveries  BY DEF IInv, TypeOK, Facts
<1> DEFINE b == batch[a]
<1>1. b \in Batches  BY <1>0 DEF Onward, ActorsOK
<1>2. Knows(a) /\ status[b] # "ABSENT"
  BY <1>0 DEF Facts, RunsKnowTheirBatch, Knows, Onward
<1>3. ActorsOK'
  <2>1. a \in Requests => next \in RequestStates
    BY SalesAssumption DEF Onward, RequestStates
  <2>2. a \in Workers => next \in WorkerStates  BY DEF Onward, WorkerStates
  <2> QED  BY <1>0, <1>1, <2>1, <2>2, ContinueType DEF Onward
<1>4. status' \in [Batches -> Statuses] /\ imported' \in [Batches -> Nat]
  BY <1>0, <1>1 DEF TypeOK, Writes, Statuses
<1>5. TypeOK'  BY <1>0, <1>3, <1>4 DEF TypeOK, Ends
<1>6. /\ \A c \in Batches \ {b} : status'[c] = status[c] /\ imported'[c] = imported[c]
      /\ status'[b] \in {status[b], "PROCESSING", "COMPLETED", "FAILED"}
      /\ status'[b] = "PENDING" => status[b] = "PENDING" /\ imported'[b] = imported[b]
      /\ status'[b] = "COMPLETED" => imported'[b] > 0
      /\ imported'[b] \in {imported[b], imported[b] + 1}
  <2>1. pc[a] = "import" => status[b] # "PENDING"  BY <1>2 DEF Knows
  <2>2. pc[a] = "complete" => imported[b] > 0  BY <1>2 DEF Knows
  <2>3. status[b] = "COMPLETED" => imported[b] > 0
    BY <1>0, <1>1 DEF Facts, CompletedMeansImported
  <2>4. CASE UNCHANGED <<status, imported>>  BY <2>3, <2>4
  <2>5. CASE /\ pc[a] = "import"
             /\ imported' = [imported EXCEPT ![b] = @ + 1]
             /\ UNCHANGED status
    BY <1>0, <1>1, <2>1, <2>5 DEF TypeOK
  <2>6. CASE \E s \in {"PROCESSING", "COMPLETED", "FAILED"} :
               /\ s = "COMPLETED" => pc[a] = "complete"
               /\ status' = [status EXCEPT ![b] = s]
               /\ UNCHANGED imported
    BY <1>0, <1>1, <2>2, <2>6 DEF TypeOK
  <2> QED  BY <2>4, <2>5, <2>6 DEF Writes
<1>7. /\ \A x \in Actors \ {a} : pc'[x] = pc[x] /\ batch'[x] = batch[x]
      /\ pc'[a] = next
      /\ next # "idle" => batch'[a] = b
  BY <1>0 DEF Onward, Continue, ActorsOK
<1>8. CompletedMeansImported'
  BY <1>0, <1>6 DEF Facts, CompletedMeansImported
<1>9. RunsKnowTheirBatch'
  <2> SUFFICES ASSUME NEW x \in Actors  PROVE Knows(x)'
    BY DEF RunsKnowTheirBatch
  <2>1. CASE x = a
    <3>1. status'[b] # "ABSENT"  BY <1>2, <1>6
    <3>2. a \in Requests /\ next \in {"complete", "mark_failed"} => kind[b] = "pos"
      <4>1. a \in Requests => pc[a] \in RequestStates \ {"idle"}
        BY <1>0 DEF ActorsOK, Onward
      <4> QED  BY <1>2, <4>1 DEF Knows, Onward, RequestStates
    <3>3. a \in Requests => next # "import"
      BY <1>0 DEF ActorsOK, Onward, RequestStates
    <3> QED  BY <1>2, <1>7, <2>1, <3>1, <3>2, <3>3 DEF Knows, Onward
  <2>2. CASE x # a
    <3>1. Knows(x) /\ pc'[x] = pc[x] /\ batch'[x] = batch[x]
      BY <1>0, <1>7, <2>2 DEF Facts, RunsKnowTheirBatch
    <3>2. pc[x] # "idle" => batch[x] \in Batches  BY <1>0 DEF ActorsOK
    <3>3. pc[x] # "idle" => status[batch[x]] # "ABSENT" /\ status'[batch[x]] # "ABSENT"
      BY <1>2, <1>6, <3>1, <3>2 DEF Knows
    <3>4. pc[x] = "import" => status'[batch[x]] # "PENDING"
      BY <1>6, <3>1, <3>2 DEF Knows
    <3>5. pc[x] = "complete" => imported'[batch[x]] > 0
      BY <1>0, <1>6, <3>1, <3>2 DEF Knows, TypeOK
    <3>6. pc[x] = "enqueue" => job'[batch[x]] = "none"
      BY <3>1, <3>2 DEF Knows, Ends
    <3> QED  BY <3>1, <3>3, <3>4, <3>5, <3>6 DEF Knows
  <2> QED  BY <2>1, <2>2
<1>10. OneEnqueues'
  <2>1. pc'[a] # "enqueue"  BY <1>7 DEF Onward
  <2> QED  BY <1>0, <1>7, <2>1 DEF Facts, OneEnqueues, Actors
<1>11. BatchesFit'
  <2> SUFFICES ASSUME NEW c \in Batches
               PROVE  /\ job'[c] # "none" => kind[c] = "queued"
                      /\ status'[c] = "ABSENT" <=> kind[c] = "none"
                      /\ status'[c] \in {"ABSENT", "PENDING"} => imported'[c] = 0
    BY DEF BatchesFit
  <2>1. /\ job[c] # "none" => kind[c] = "queued"
        /\ status[c] = "ABSENT" <=> kind[c] = "none"
        /\ status[c] \in {"ABSENT", "PENDING"} => imported[c] = 0
    BY <1>0 DEF Facts, BatchesFit
  <2>2. job'[c] # "none" => job[c] # "none"  BY DEF Ends
  <2>3. CASE c = b  BY <1>2, <1>6, <2>1, <2>2, <2>3
  <2>4. CASE c # b  BY <1>6, <2>1, <2>2, <2>4
  <2> QED  BY <2>3, <2>4
<1>12. ImportsWithinDeliveries'
  <2> SUFFICES ASSUME NEW c \in Batches, kind'[c] = "queued"
               PROVE  imported'[c] + Cardinality(YetToImport(c)') + Undelivered(c)'
                        =< 1 + stalls'[c]
    BY DEF ImportsWithinDeliveries
  <2>1. /\ imported[c] + Cardinality(YetToImport(c)) + Undelivered(c) =< 1 + stalls[c]
        /\ imported[c] \in Nat /\ imported'[c] \in Nat /\ stalls[c] \in Nat
    BY <1>0, <1>4 DEF ImportsWithinDeliveries, TypeOK
  <2>2. /\ Undelivered(c) \in 0..1 /\ Undelivered(c)' \in 0..1
        /\ Undelivered(c)' =< Undelivered(c)
    BY DEF Ends, Undelivered
  <2>3. Cardinality(YetToImport(c)) \in Nat  BY YetFinite
  <2>4. CASE next = "import"
    <3>1. pc[a] = "mark"  BY <2>4 DEF Onward
    <3>2. a \in Workers /\ batch'[a] = b
      <4>1. a \notin Requests  BY <1>0, <3>1 DEF ActorsOK, RequestStates
      <4> QED  BY <1>7, <2>4, <4>1 DEF Actors
    <3>3. YetToImport(c)' = YetToImport(c)
      BY <1>7, <2>4, <3>1, <3>2 DEF YetToImport, Actors
    <3>4. imported'[c] = imported[c]
      BY <1>0, <1>1, <2>4 DEF Writes, TypeOK
    <3> QED  BY <2>1, <2>2, <2>3, <3>3, <3>4 DEF Ends
  <2>5. CASE next # "import"
    <3>1. /\ Cardinality(YetToImport(c)') \in Nat
          /\ Cardinality(YetToImport(c)') =< Cardinality(YetToImport(c))
          /\ a \in YetToImport(c) =>
               Cardinality(YetToImport(c)') = Cardinality(YetToImport(c)) - 1
      <4>1. next \notin {"mark", "import"} /\ Continue(a, next, b)  BY <2>5 DEF Onward
      <4> QED  BY <1>0, <4>1, Leaves
    <3>2. imported'[c] = imported[c]
            \/ (a \in YetToImport(c) /\ imported'[c] = imported[c] + 1)
      <4>1. CASE imported' = imported  BY <4>1
      <4>2. CASE pc[a] = "import" /\ imported' = [imported EXCEPT ![b] = @ + 1]
        <5>1. CASE c # b  BY <1>0, <4>2, <5>1 DEF TypeOK
        <5>2. CASE c = b
          <6>1. a \notin Requests
            BY <1>2, <4>2, <5>2 DEF Knows
          <6> QED  BY <1>0, <1>1, <4>2, <5>2, <6>1 DEF TypeOK, YetToImport, Actors
        <5> QED  BY <5>1, <5>2
      <4> QED  BY <4>1, <4>2 DEF Writes
    <3> QED  BY <2>1, <2>2, <2>3, <3>1, <3>2 DEF Ends
  <2> QED  BY <2>4, <2>5
<1> QED  BY <1>5, <1>8, <1>9, <1>10, <1>11, <1>12 DEF IInv, Facts

\* A run's own steps.
LEMMA ProceedStep ==
  ASSUME IInv, NEW a \in Actors, (a \in Workers /\ (Mark(a) \/ Ack(a))) \/ Proceed(a)
  PROVE  IInv'
<1> USE SalesAssumption
<1>0. TypeOK /\ ActorsOK  BY DEF IInv, TypeOK
<1>1. pc[a] # "idle"
  BY DEF Mark, Ack, Proceed, Import, Refuse, Complete, MarkFailed
<1>2. batch[a] \in Batches  BY <1>0, <1>1 DEF ActorsOK
<1>3. imported[batch[a]] \in Nat  BY <1>0, <1>2 DEF TypeOK
<1>4. errors' \in 0..MaxErrors /\ outages' \in 0..MaxOutages
  BY <1>0 DEF TypeOK, Mark, Ack, Proceed, Import, Refuse, Complete, MarkFailed
<1>5. queue' = queue => Ends  BY <1>0 DEF TypeOK, queue, Ends
<1>6. CASE a \in Workers /\ Mark(a)
  <2>1. Onward(a, "import") /\ Writes(a, "import") /\ Ends /\ UNCHANGED kind
    BY <1>0, <1>2, <1>5, <1>6 DEF Mark, SetStatus, Onward, Writes, TypeOK
  <2> QED  BY <1>4, <2>1, RunStep
<1>7. CASE a \in Workers /\ Ack(a)
  <2>1. Onward(a, "idle") /\ Writes(a, "idle") /\ UNCHANGED kind
    BY <1>7 DEF Ack, table, Onward, Writes, Continue, Meets
  <2>2. Ends  BY <1>0, <1>2, <1>7 DEF Ack, Ends, TypeOK
  <2> QED  BY <1>4, <2>1, <2>2, RunStep
<1>8. CASE Import(a)
  <2>1. Onward(a, "complete") /\ Writes(a, "complete") /\ Ends /\ UNCHANGED kind
    BY <1>0, <1>2, <1>3, <1>5, <1>8 DEF Import, AddImport, Onward, Writes, TypeOK
  <2> QED  BY <1>4, <2>1, RunStep
<1>9. CASE Refuse(a)
  <2>1. Onward(a, "mark_failed") /\ Writes(a, "mark_failed") /\ Ends /\ UNCHANGED kind
    BY <1>5, <1>9 DEF Refuse, Onward, Writes, table
  <2> QED  BY <1>4, <2>1, RunStep
<1>10. CASE Complete(a)
  <2>1. Onward(a, Through(a)) /\ Writes(a, Through(a)) /\ Ends /\ UNCHANGED kind
    BY <1>5, <1>10 DEF Complete, SetStatus, Onward, Writes, Through
  <2> QED  BY <1>4, <2>1, RunStep
<1>11. CASE MarkFailed(a)
  <2>1. Onward(a, Through(a)) /\ Writes(a, Through(a)) /\ Ends /\ UNCHANGED kind
    BY <1>5, <1>11 DEF MarkFailed, SetStatus, Onward, Writes, Through
  <2> QED  BY <1>4, <2>1, RunStep
<1> QED  BY <1>6, <1>7, <1>8, <1>9, <1>10, <1>11 DEF Proceed

\* A query that fails, with or without effect, and a process that dies.
LEMMA FaultStep ==
  ASSUME IInv, NEW a \in Actors, QueryFails(a) \/ Die(a)
  PROVE  IInv'
<1> USE SalesAssumption
<1>0. TypeOK /\ ActorsOK  BY DEF IInv, TypeOK
<1>1. pc[a] # "idle"  BY DEF QueryFails, Die
<1>2. errors' \in 0..MaxErrors /\ outages' \in 0..MaxOutages
  BY <1>0 DEF TypeOK, QueryFails, Die
<1>3. queue' = queue /\ kind' = kind
  BY DEF QueryFails, Die, Effect, SetStatus, AddImport, table
<1>4. Ends  BY <1>0, <1>3 DEF TypeOK, queue, Ends
<1>5. CASE Die(a)
  <2>1. Onward(a, "idle") /\ Writes(a, "idle")
    BY <1>5 DEF Die, Onward, Writes, Continue, Meets, table
  <2> QED  BY <1>2, <1>3, <1>4, <2>1, RunStep
<1>6. CASE QueryFails(a)
  <2> DEFINE next == CASE pc[a] \in {"enqueue", "pos_mark"} -> "idle"
                       [] pc[a] = "mark_failed" -> Through(a)
                       [] OTHER -> "mark_failed"
  <2>1. Continue(a, next, batch[a])  BY <1>6 DEF QueryFails
  <2>2. /\ next \in {"idle", "mark_failed", "ack"}
        /\ next = "ack" => a \in Workers
        /\ pc[a] \in {"enqueue", "pos_mark"} => next = "idle"
    BY DEF Through
  <2> HIDE DEF next
  <2>3. Onward(a, next)  BY <1>1, <2>1, <2>2 DEF Onward
  <2>4. Writes(a, next)
    <3>1. CASE UNCHANGED table  BY <3>1 DEF table, Writes
    <3>2. CASE pc[a] = "import" /\ AddImport(a)
      BY <2>2, <3>2 DEF AddImport, Writes
    <3>3. CASE pc[a] \in {"pos_mark", "mark"} /\ SetStatus(batch[a], "PROCESSING")
      BY <3>3 DEF SetStatus, Writes
    <3>4. CASE pc[a] = "complete" /\ SetStatus(batch[a], "COMPLETED")
      BY <3>4 DEF SetStatus, Writes
    <3>5. CASE pc[a] = "mark_failed" /\ SetStatus(batch[a], "FAILED")
      BY <3>5 DEF SetStatus, Writes
    <3> QED  BY <1>6, <3>1, <3>2, <3>3, <3>4, <3>5 DEF QueryFails, Effect
  <2> QED  BY <1>2, <1>3, <1>4, <2>3, <2>4, RunStep
<1> QED  BY <1>5, <1>6

-----------------------------------------------------------------------------
(* Deliveries *)

LEMMA TakeStep ==
  ASSUME IInv, NEW w \in Workers, Take(w)
  PROVE  IInv'
<1> USE SalesAssumption
<1>0. TypeOK /\ ActorsOK /\ Facts /\ ImportsWithinDeliveries  BY DEF IInv, TypeOK, Facts
<1>1. PICK b \in Batches : /\ job[b] = "waiting"
                           /\ job' = [job EXCEPT ![b] = "active"]
                           /\ holder' = [holder EXCEPT ![b] = w]
                           /\ Continue(w, "mark", b)
  BY DEF Take
<1>2. UNCHANGED <<table, stalls, errors, outages>> /\ pc[w] = "idle"  BY DEF Take
<1>3. w \in Actors /\ w \notin Requests  BY DEF Actors
<1>4. ActorsOK'  BY <1>0, <1>1, <1>3, ContinueType DEF WorkerStates
<1>5. TypeOK'  BY <1>0, <1>1, <1>2, <1>4 DEF TypeOK, table
<1>6. kind[b] = "queued" /\ status[b] # "ABSENT"
  BY <1>0, <1>1 DEF Facts, BatchesFit
<1>7. /\ \A x \in Actors \ {w} : pc'[x] = pc[x] /\ batch'[x] = batch[x]
      /\ pc'[w] = "mark" /\ batch'[w] = b
  BY <1>0, <1>1, <1>3 DEF Continue, ActorsOK
<1>8. Facts'
  <2>1. \A c \in Batches : job'[c] # "none" <=> job[c] # "none"
    BY <1>0, <1>1 DEF TypeOK
  <2>2. ASSUME NEW x \in Actors  PROVE Knows(x)'
    <3>1. CASE x = w  BY <1>2, <1>3, <1>6, <1>7, <3>1 DEF Knows, table
    <3>2. CASE x # w
      <4>1. Knows(x) /\ (pc[x] # "idle" => batch[x] \in Batches)
        BY <1>0 DEF Facts, RunsKnowTheirBatch, ActorsOK
      <4> QED  BY <1>2, <1>7, <2>1, <3>2, <4>1 DEF Knows, table
    <3> QED  BY <3>1, <3>2
  <2>3. CompletedMeansImported'  BY <1>0, <1>2 DEF Facts, CompletedMeansImported, table
  <2>4. OneEnqueues'
    BY <1>0, <1>3, <1>7 DEF Facts, OneEnqueues, Actors
  <2>5. BatchesFit'  BY <1>0, <1>2, <2>1 DEF Facts, BatchesFit, table
  <2> QED  BY <2>2, <2>3, <2>4, <2>5 DEF Facts, RunsKnowTheirBatch
<1>9. ImportsWithinDeliveries'
  <2> SUFFICES ASSUME NEW c \in Batches, kind'[c] = "queued"
               PROVE  imported'[c] + Cardinality(YetToImport(c)') + Undelivered(c)'
                        =< 1 + stalls'[c]
    BY DEF ImportsWithinDeliveries
  <2>1. /\ imported[c] + Cardinality(YetToImport(c)) + Undelivered(c) =< 1 + stalls[c]
        /\ imported'[c] = imported[c] /\ stalls'[c] = stalls[c]
        /\ imported[c] \in Nat /\ stalls[c] \in Nat
    BY <1>0, <1>2 DEF ImportsWithinDeliveries, table, TypeOK
  <2>2. IsFiniteSet(YetToImport(c)) /\ Cardinality(YetToImport(c)) \in Nat
    BY YetFinite
  <2>3. CASE c = b
    <3>1. YetToImport(c)' = YetToImport(c) \union {w} /\ w \notin YetToImport(c)
      BY <1>2, <1>3, <1>7, <2>3 DEF YetToImport, Actors
    <3>2. Cardinality(YetToImport(c)') = Cardinality(YetToImport(c)) + 1
      BY <2>2, <3>1, FS_AddElement
    <3>3. Undelivered(c) = 1 /\ Undelivered(c)' = 0
      BY <1>0, <1>1, <2>3 DEF Undelivered, TypeOK
    <3> QED  BY <2>1, <2>2, <3>2, <3>3
  <2>4. CASE c # b
    <3>1. YetToImport(c)' = YetToImport(c)
      BY <1>2, <1>7, <2>4 DEF YetToImport, Actors
    <3>2. Undelivered(c)' = Undelivered(c)
      BY <1>0, <1>1, <2>4 DEF Undelivered, TypeOK
    <3> QED  BY <2>1, <3>1, <3>2
  <2> QED  BY <2>3, <2>4
<1> QED  BY <1>5, <1>8, <1>9 DEF IInv, Facts

LEMMA StalledStep ==
  ASSUME IInv, NEW b \in Batches, StalledDead(b) \/ StalledAlive(b)
  PROVE  IInv'
<1> USE SalesAssumption
<1>0. TypeOK /\ Facts /\ ImportsWithinDeliveries  BY DEF IInv, Facts
<1>1. Redeliver(b) /\ job[b] = "active" /\ outages' \in 0..MaxOutages
  BY <1>0 DEF StalledDead, StalledAlive, TypeOK
<1>2. UNCHANGED <<table, pc, batch, errors, alone>>  BY <1>1 DEF Redeliver
<1>3. PICK next \in {"waiting", "ended"} :
        /\ job' = [job EXCEPT ![b] = next]
        /\ next = "waiting" => /\ stalls[b] < MaxStalls
                               /\ stalls' = [stalls EXCEPT ![b] = @ + 1]
        /\ next = "ended" => UNCHANGED stalls
  BY <1>1 DEF Redeliver
<1>4. holder' = [holder EXCEPT ![b] = NoWorker]  BY <1>1 DEF Redeliver
<1>5. /\ job' \in [Batches -> {"none", "waiting", "active", "ended"}]
      /\ stalls' \in [Batches -> 0..MaxStalls]
      /\ holder' \in [Batches -> Workers \union {NoWorker}]
  BY <1>0, <1>3, <1>4 DEF TypeOK
<1>6. TypeOK'  BY <1>0, <1>1, <1>2, <1>5 DEF TypeOK, ActorsOK, table
<1>7. Facts'
  <2>1. \A c \in Batches : job'[c] # "none" <=> job[c] # "none"
    BY <1>0, <1>1, <1>3 DEF TypeOK
  <2>2. ASSUME NEW x \in Actors  PROVE Knows(x)'
    <3>1. Knows(x) /\ (pc[x] # "idle" => batch[x] \in Batches)
      BY <1>0 DEF Facts, RunsKnowTheirBatch, TypeOK, ActorsOK
    <3> QED  BY <1>2, <2>1, <3>1 DEF Knows, table
  <2>3. CompletedMeansImported'  BY <1>0, <1>2 DEF Facts, CompletedMeansImported, table
  <2>4. OneEnqueues'  BY <1>0, <1>2 DEF Facts, OneEnqueues
  <2>5. BatchesFit'  BY <1>0, <1>2, <2>1 DEF Facts, BatchesFit, table
  <2> QED  BY <2>2, <2>3, <2>4, <2>5 DEF Facts, RunsKnowTheirBatch
<1>8. ImportsWithinDeliveries'
  <2> SUFFICES ASSUME NEW c \in Batches, kind'[c] = "queued"
               PROVE  imported'[c] + Cardinality(YetToImport(c)') + Undelivered(c)'
                        =< 1 + stalls'[c]
    BY DEF ImportsWithinDeliveries
  <2>1. /\ imported[c] + Cardinality(YetToImport(c)) + Undelivered(c) =< 1 + stalls[c]
        /\ imported'[c] = imported[c]
        /\ imported[c] \in Nat /\ stalls[c] \in Nat
    BY <1>0, <1>2 DEF ImportsWithinDeliveries, table, TypeOK
  <2>2. Cardinality(YetToImport(c)) \in Nat  BY YetFinite
  <2>3. YetToImport(c)' = YetToImport(c)  BY <1>2 DEF YetToImport
  <2>4. \/ Undelivered(c)' = Undelivered(c) /\ stalls'[c] = stalls[c]
        \/ /\ Undelivered(c) = 0 /\ Undelivered(c)' = 1
           /\ stalls'[c] = stalls[c] + 1
    BY <1>0, <1>1, <1>3 DEF Undelivered, TypeOK
  <2> QED  BY <2>1, <2>2, <2>3, <2>4 DEF Undelivered
<1> QED  BY <1>6, <1>7, <1>8 DEF IInv, Facts

-----------------------------------------------------------------------------
(* The theorems *)

\* No batch is there, and nobody works on one.
THEOREM InitIInv == Init => IInv
<1> USE SalesAssumption
<1> SUFFICES ASSUME Init PROVE IInv  OBVIOUS
<1>1. TypeOK
  BY DEF Init, TypeOK, ActorsOK, Actors, Statuses, RequestStates, WorkerStates
<1>2. CompletedMeansImported /\ RunsKnowTheirBatch /\ OneEnqueues /\ BatchesFit
  BY DEF Init, CompletedMeansImported, RunsKnowTheirBatch, Knows, OneEnqueues,
         BatchesFit, Actors
<1>3. ImportsWithinDeliveries  BY DEF Init, ImportsWithinDeliveries
<1> QED  BY <1>1, <1>2, <1>3 DEF IInv

\* Every step keeps the inductive invariant.
THEOREM NextIInv == IInv /\ [Next]_vars => IInv'
<1> SUFFICES ASSUME IInv, [Next]_vars PROVE IInv'  OBVIOUS
<1>1. CASE Next
  <2>1. ASSUME NEW r \in Requests,
               UploadSalesFile(r) \/ UploadPosFile(r) \/ Enqueue(r)
                 \/ PosCheck(r) \/ PosMark(r)
        PROVE  IInv'
    BY <2>1, UploadSalesFileStep, UploadPosFileStep, EnqueueStep, PosStep
  <2>2. ASSUME NEW w \in Workers, Take(w) \/ Mark(w) \/ Ack(w)
        PROVE  IInv'
    BY <2>2, TakeStep, ProceedStep DEF Actors
  <2>3. ASSUME NEW a \in Actors, Proceed(a) \/ QueryFails(a) \/ Die(a)
        PROVE  IInv'
    BY <2>3, ProceedStep, FaultStep
  <2>4. ASSUME NEW b \in Batches, StalledDead(b) \/ StalledAlive(b)
        PROVE  IInv'
    BY <2>4, StalledStep
  <2> QED  BY <1>1, <2>1, <2>2, <2>3, <2>4 DEF Next
<1>2. CASE UNCHANGED vars
  <2>1. UNCHANGED <<status, kind, imported, job, stalls, holder, pc, batch, errors, outages,
                   alone>>
    BY <1>2 DEF vars, table, queue
  <2>2. \A c \in Batches : YetToImport(c)' = YetToImport(c)  BY <2>1 DEF YetToImport
  <2>3. ImportsWithinDeliveries'
    BY <2>1, <2>2 DEF IInv, ImportsWithinDeliveries, Undelivered
  <2> QED
    BY <2>1, <2>3 DEF IInv, TypeOK, ActorsOK, CompletedMeansImported, RunsKnowTheirBatch,
                      Knows, OneEnqueues, BatchesFit
<1> QED  BY <1>1, <1>2

\* The inductive invariant holds in every behaviour.
THEOREM Invariance == Spec => []IInv
BY InitIInv, NextIInv, PTL DEF Spec

\* Every variable keeps its type.
THEOREM TypeCorrect == Spec => []TypeOK
<1>1. IInv => TypeOK  BY DEF IInv
<1> QED  BY <1>1, Invariance, PTL

\* However runs race, die and are repeated, what is shown as COMPLETED was imported.
THEOREM CompletedWasImported == Spec => []CompletedMeansImported
<1>1. IInv => CompletedMeansImported  BY DEF IInv
<1> QED  BY <1>1, Invariance, PTL

\* A queued file is imported at most once for every time its job may be delivered.
THEOREM ImportsBounded == Spec => []RedeliveriesBoundImports
<1>1. IInv => RedeliveriesBoundImports
  <2> SUFFICES ASSUME IInv, NEW b \in Batches, kind[b] = "queued"
               PROVE  imported[b] =< 1 + MaxStalls
    BY DEF RedeliveriesBoundImports
  <2>1. imported[b] + Cardinality(YetToImport(b)) + Undelivered(b) =< 1 + stalls[b]
    BY DEF IInv, ImportsWithinDeliveries
  <2>2. imported[b] \in Nat /\ stalls[b] \in 0..MaxStalls /\ MaxStalls \in Nat
    BY SalesAssumption DEF IInv, TypeOK
  <2>3. Cardinality(YetToImport(b)) \in Nat  BY YetFinite
  <2>4. Undelivered(b) \in 0..1  BY DEF Undelivered
  <2> QED  BY <2>1, <2>2, <2>3, <2>4
<1> QED  BY <1>1, Invariance, PTL

-----------------------------------------------------------------------------
(* POS files whose requests have not overlapped *)

\* What is known of a batch alone is kept by a step that leaves its row alone and
\* gives it to no request.
LEMMA SoleKept ==
  ASSUME NEW b, SoleRequest(b), status'[b] = status[b], imported'[b] = imported[b],
         \A r \in Requests : batch'[r] = b => batch[r] = b /\ pc'[r] = pc[r]
  PROVE  SoleRequest(b)'
BY DEF SoleRequest

\* A request or worker goes on with the batch it has, or stops.
LEMMA WorkingAlone ==
  ASSUME IInv, AloneInv, NEW a \in Actors, NEW next, NEW c, pc[a] # "idle",
         Continue(a, next, c), next # "idle" => c = batch[a], next # "pos_mark",
         UNCHANGED kind,
         \A d \in Batches \ {batch[a]} : status'[d] = status[d] /\ imported'[d] = imported[d],
         \/ imported'[batch[a]] = imported[batch[a]]
         \/ /\ pc[a] = "import" /\ next # "import"
            /\ imported'[batch[a]] = imported[batch[a]] + 1,
         a \in Requests /\ next = "import" =>
           pc[a] = "pos_mark" /\ imported'[batch[a]] = imported[batch[a]]
  PROVE  AloneInv'
<1> SUFFICES ASSUME NEW b \in alone', kind'[b] = "pos"  PROVE SoleRequest(b)'
  BY DEF AloneInv
<1>0. TypeOK /\ ActorsOK /\ RunsKnowTheirBatch /\ BatchesFit  BY DEF IInv, TypeOK
<1>1. b \in alone  BY DEF Continue, Meets
<1>2. b \in Batches /\ kind[b] = "pos" /\ SoleRequest(b)
  BY <1>0, <1>1 DEF ActorsOK, AloneInv
<1>3. /\ \A q \in Requests \ {a} : pc'[q] = pc[q] /\ batch'[q] = batch[q]
      /\ pc'[a] = next /\ batch'[a] = IF next = "idle" THEN NoBatch ELSE c
  BY <1>0 DEF Continue, ActorsOK, Actors
<1>4. NoBatch # b  BY <1>2, SalesAssumption
<1>5. CASE batch[a] # b
  <2>1. batch'[a] # b  BY <1>3, <1>4, <1>5
  <2> QED  BY <1>2, <1>3, <1>5, <2>1, SoleKept
<1>6. CASE batch[a] = b
  <2>1. a \in Requests
    BY <1>0, <1>2, <1>6 DEF RunsKnowTheirBatch, Knows, Actors
  <2>2. imported[b] \in Nat  BY <1>0, <1>2 DEF TypeOK
  <2>3. imported'[b] =< 1  BY <1>2, <1>6, <2>1, <2>2 DEF SoleRequest
  <2>4. next = "import" => imported'[b] = 0
    BY <1>0, <1>2, <1>6, <2>1 DEF SoleRequest, BatchesFit
  <2>5. \A q \in Requests \ {a} : batch'[q] # b
    BY <1>2, <1>3, <1>6, <2>1 DEF SoleRequest
  <2> QED  BY <1>3, <2>3, <2>4, <2>5 DEF SoleRequest
<1> QED  BY <1>5, <1>6

\* A request takes up a batch, or makes one.
LEMMA BeginningAlone ==
  ASSUME IInv, AloneInv, NEW r \in Requests,
         UploadSalesFile(r) \/ UploadPosFile(r) \/ PosCheck(r)
  PROVE  AloneInv'
<1> SUFFICES ASSUME NEW b \in alone', kind'[b] = "pos"  PROVE SoleRequest(b)'
  BY DEF AloneInv
<1>0. TypeOK /\ ActorsOK /\ RunsKnowTheirBatch /\ BatchesFit  BY DEF IInv, TypeOK
<1>1. b \in alone
  BY DEF UploadSalesFile, UploadPosFile, PosCheck, Continue, Meets
<1>2. b \in Batches  BY <1>0, <1>1 DEF ActorsOK
<1>3. r \in Actors /\ NoBatch # b  BY <1>2, SalesAssumption DEF Actors
<1>4. CASE UploadSalesFile(r)
  <2>1. PICK d \in Batches : Insert(d, "queued") /\ Continue(r, "enqueue", d)
    BY <1>4 DEF UploadSalesFile
  <2>2. b # d /\ kind[b] = "pos"  BY <1>0, <1>2, <2>1 DEF Insert, TypeOK
  <2>3. SoleRequest(b)  BY <1>1, <2>2 DEF AloneInv
  <2>4. status'[b] = status[b] /\ imported'[b] = imported[b]
    BY <1>0, <1>2, <2>1, <2>2 DEF Insert, TypeOK
  <2>5. \A q \in Requests : batch'[q] = b => batch[q] = b /\ pc'[q] = pc[q]
    BY <1>0, <1>3, <2>1, <2>2 DEF Continue, ActorsOK, Actors
  <2> QED  BY <2>3, <2>4, <2>5, SoleKept
<1>5. CASE UploadPosFile(r)
  <2>1. PICK d \in Batches : Insert(d, "pos")  BY <1>5 DEF UploadPosFile
  <2>2. UNCHANGED <<pc, batch>>  BY <1>5 DEF UploadPosFile
  <2>3. CASE b = d
    <3>1. status[b] = "ABSENT" /\ imported'[b] = 0
      BY <1>0, <1>2, <2>1, <2>3 DEF Insert, BatchesFit
    <3>2. \A q \in Requests : batch[q] # b
      BY <1>0, <1>3, <3>1 DEF RunsKnowTheirBatch, Knows, ActorsOK, Actors
    <3> QED  BY <2>2, <3>1, <3>2 DEF SoleRequest
  <2>4. CASE b # d
    <3>1. kind[b] = "pos" /\ status'[b] = status[b] /\ imported'[b] = imported[b]
      BY <1>0, <1>2, <2>1, <2>4 DEF Insert, TypeOK
    <3> QED  BY <1>1, <2>2, <3>1, SoleKept DEF AloneInv
  <2> QED  BY <2>3, <2>4
<1>6. CASE PosCheck(r)
  <2>1. PICK d \in Batches : status[d] = "PENDING" /\ Continue(r, "pos_mark", d)
    BY <1>6 DEF PosCheck
  <2>2. UNCHANGED <<status, kind, imported>>  BY <1>6 DEF PosCheck, table
  <2>3. SoleRequest(b)  BY <1>1, <2>2 DEF AloneInv
  <2>4. /\ \A q \in Requests \ {r} : pc'[q] = pc[q] /\ batch'[q] = batch[q]
        /\ pc'[r] = "pos_mark" /\ batch'[r] = d
    BY <1>0, <1>3, <2>1 DEF Continue, ActorsOK, Actors
  <2>5. CASE b # d  BY <2>2, <2>3, <2>4, <2>5, SoleKept
  <2>6. CASE b = d
    <3>1. \A q \in Requests \ {r} : batch[q] # b
      BY <2>1, <2>6 DEF Continue, Meets
    <3> QED  BY <2>1, <2>2, <2>3, <2>4, <2>6, <3>1 DEF SoleRequest
  <2> QED  BY <2>5, <2>6
<1> QED  BY <1>4, <1>5, <1>6

\* A request's or a worker's own steps, and what goes wrong with them.
LEMMA GoingOnAlone ==
  ASSUME IInv, AloneInv, NEW a \in Actors,
         \/ a \in Requests /\ (Enqueue(a) \/ PosMark(a))
         \/ a \in Workers /\ (Mark(a) \/ Ack(a))
         \/ Proceed(a) \/ QueryFails(a) \/ Die(a)
  PROVE  AloneInv'
<1>0. TypeOK /\ ActorsOK /\ a \notin Requests \cap Workers
  BY SalesAssumption DEF IInv, TypeOK
<1>1. pc[a] # "idle"
  BY DEF Enqueue, PosMark, Mark, Ack, Proceed, Import, Refuse, Complete, MarkFailed,
         QueryFails, Die
<1>2. batch[a] \in Batches  BY <1>0, <1>1 DEF ActorsOK
<1>3. UNCHANGED kind
  BY DEF Enqueue, PosMark, Mark, Ack, Proceed, Import, Refuse, Complete, MarkFailed,
         QueryFails, Die, Effect, SetStatus, AddImport, table
<1>4. \A d \in Batches \ {batch[a]} : status'[d] = status[d] /\ imported'[d] = imported[d]
  BY <1>0, <1>2
     DEF Enqueue, PosMark, Mark, Ack, Proceed, Import, Refuse, Complete, MarkFailed,
         QueryFails, Die, Effect, SetStatus, AddImport, table, TypeOK
<1>5. CASE a \in Requests /\ Enqueue(a)
  BY <1>1, <1>3, <1>4, <1>5, WorkingAlone DEF Enqueue, table
<1>6. CASE a \in Requests /\ PosMark(a)
  <2>1. CASE kind[batch[a]] = "pos"
    BY <1>1, <1>3, <1>4, <1>6, <2>1, WorkingAlone DEF PosMark, SetStatus
  <2>2. CASE kind[batch[a]] # "pos"
    BY <1>1, <1>3, <1>4, <1>6, <2>2, WorkingAlone DEF PosMark, SetStatus
  <2> QED  BY <2>1, <2>2
<1>7. CASE a \in Workers /\ Mark(a)
  BY <1>0, <1>1, <1>3, <1>4, <1>7, WorkingAlone DEF Mark, SetStatus
<1>8. CASE a \in Workers /\ Ack(a)
  BY <1>1, <1>3, <1>4, <1>8, WorkingAlone DEF Ack, table
<1>9. CASE Import(a)
  <2>1. imported'[batch[a]] = imported[batch[a]] + 1
    BY <1>0, <1>2, <1>9 DEF Import, AddImport, TypeOK
  <2> QED  BY <1>1, <1>3, <1>4, <1>9, <2>1, WorkingAlone DEF Import
<1>10. CASE Refuse(a)
  BY <1>1, <1>3, <1>4, <1>10, WorkingAlone DEF Refuse, table
<1>11. CASE Complete(a) \/ MarkFailed(a)
  <2>1. Through(a) \notin {"pos_mark", "import"} /\ imported' = imported
    BY <1>11 DEF Through, Complete, MarkFailed, SetStatus
  <2>2. Continue(a, Through(a), batch[a])  BY <1>11 DEF Complete, MarkFailed
  <2> QED  BY <1>1, <1>3, <1>4, <2>1, <2>2, WorkingAlone
<1>12. CASE QueryFails(a)
  <2> DEFINE next == CASE pc[a] \in {"enqueue", "pos_mark"} -> "idle"
                       [] pc[a] = "mark_failed" -> Through(a)
                       [] OTHER -> "mark_failed"
  <2>1. Continue(a, next, batch[a])  BY <1>12 DEF QueryFails
  <2>2. next \in {"idle", "mark_failed", "ack"}  BY DEF Through
  <2>3. \/ imported'[batch[a]] = imported[batch[a]]
        \/ pc[a] = "import" /\ imported'[batch[a]] = imported[batch[a]] + 1
    BY <1>0, <1>2, <1>12 DEF QueryFails, Effect, SetStatus, AddImport, table, TypeOK
  <2> HIDE DEF next
  <2> QED  BY <1>1, <1>3, <1>4, <2>1, <2>2, <2>3, WorkingAlone
<1>13. CASE Die(a)
  BY <1>1, <1>3, <1>4, <1>13, WorkingAlone DEF Die, table
<1> QED  BY <1>5, <1>6, <1>7, <1>8, <1>9, <1>10, <1>11, <1>12, <1>13 DEF Proceed

\* A step of the queue changes no row and no request.
LEMMA QueueAlone ==
  ASSUME IInv, AloneInv,
         \/ \E w \in Workers : Take(w)
         \/ \E b \in Batches : StalledDead(b) \/ StalledAlive(b)
         \/ UNCHANGED vars
  PROVE  AloneInv'
<1>1. UNCHANGED <<status, kind, imported>> /\ alone' \subseteq alone
  BY DEF Take, StalledDead, StalledAlive, Redeliver, vars, table, Continue, Meets
<1>2. \A r \in Requests : pc'[r] = pc[r] /\ batch'[r] = batch[r]
  BY SalesAssumption
     DEF IInv, TypeOK, ActorsOK, Actors, Take, StalledDead, StalledAlive, Redeliver, vars,
         Continue
<1> QED  BY <1>1, <1>2 DEF AloneInv, SoleRequest

\* What is known of batches alone holds in every behaviour.
THEOREM AloneInvariance == Spec => [](IInv /\ AloneInv)
<1>1. Init => AloneInv  BY DEF Init, AloneInv
<1>2. IInv /\ AloneInv /\ [Next]_vars => AloneInv'
  <2> SUFFICES ASSUME IInv, AloneInv, [Next]_vars  PROVE AloneInv'  OBVIOUS
  <2>1. ASSUME NEW r \in Requests,
               UploadSalesFile(r) \/ UploadPosFile(r) \/ Enqueue(r)
                 \/ PosCheck(r) \/ PosMark(r)
        PROVE  AloneInv'
    <3>1. r \in Actors  BY DEF Actors
    <3> QED  BY <2>1, <3>1, BeginningAlone, GoingOnAlone
  <2>2. ASSUME NEW w \in Workers, Take(w) \/ Mark(w) \/ Ack(w)
        PROVE  AloneInv'
    <3>1. w \in Actors  BY DEF Actors
    <3> QED  BY <2>2, <3>1, QueueAlone, GoingOnAlone
  <2>3. ASSUME NEW a \in Actors, Proceed(a) \/ QueryFails(a) \/ Die(a)
        PROVE  AloneInv'
    BY <2>3, GoingOnAlone
  <2> QED  BY <2>1, <2>2, <2>3, QueueAlone DEF Next
<1> QED  BY InitIInv, NextIInv, <1>1, <1>2, PTL DEF Spec

\* 'should throw BadRequestException when batch is not PENDING': whatever fails or
\* dies, a POS file is imported once at most if no two requests overlapped on it.
THEOREM PosImportedOnce == Spec => []PosImportedOnceUnlessRaced
<1>1. AloneInv => PosImportedOnceUnlessRaced
  BY DEF AloneInv, SoleRequest, PosImportedOnceUnlessRaced
<1> QED  BY <1>1, AloneInvariance, PTL

-----------------------------------------------------------------------------
(* Jobs that end *)

\* An actor goes on with its batch, to a query or to the queue: what is active and run
\* stays so, unless the actor ends; only a run that ends may abandon a job.
LEMMA GoingOnAbandonsNone ==
  ASSUME TypeOK, StallsHaveCauses, NEW a \in Actors, NEW next, NEW b \in Batches,
         Continue(a, next, b), next # "idle", pc[a] # "idle" => batch[a] = b,
         UNCHANGED <<queue, outages>>
  PROVE  StallsHaveCauses'
<1> SUFFICES ASSUME NEW c \in Batches PROVE stalls'[c] + Abandoned(c)' =< outages'
  BY DEF StallsHaveCauses
<1>1. /\ \A x \in Actors \ {a} : pc'[x] = pc[x] /\ batch'[x] = batch[x]
      /\ pc'[a] = next /\ batch'[a] = b
  BY DEF Continue, TypeOK, ActorsOK
<1>2. Runs(holder[c], c) => Runs(holder[c], c)'
  BY <1>1 DEF Runs, queue, Actors
<1>3. Abandoned(c)' \in {0, 1} /\ Abandoned(c) \in {0, 1} /\ Abandoned(c)' =< Abandoned(c)
  BY <1>2 DEF Abandoned, queue
<1>4. stalls[c] + Abandoned(c) =< outages  BY DEF StallsHaveCauses
<1> QED  BY <1>3, <1>4 DEF queue, TypeOK

\* Requests hold no job, wherever they go on.
LEMMA RequestsAbandonNone ==
  ASSUME TypeOK, StallsHaveCauses, NEW r \in Requests, NEW next, NEW b,
         Continue(r, next, b), UNCHANGED <<queue, outages>>
  PROVE  StallsHaveCauses'
<1>1. \A w \in Workers : pc'[w] = pc[w] /\ batch'[w] = batch[w]
  BY SalesAssumption DEF Continue, TypeOK, ActorsOK, Actors
<1> QED  BY <1>1 DEF StallsHaveCauses, Abandoned, Runs, queue

\* A run that dies abandons the job of its batch at most, and one outage more is known.
LEMMA DeathIsCause ==
  ASSUME TypeOK, StallsHaveCauses, NEW a \in Actors, Die(a)
  PROVE  StallsHaveCauses'
<1> SUFFICES ASSUME NEW c \in Batches PROVE stalls'[c] + Abandoned(c)' =< outages'
  BY DEF StallsHaveCauses
<1>1. /\ stalls' = stalls /\ job' = job /\ holder' = holder /\ outages' = outages + 1
      /\ outages \in Nat /\ stalls[c] \in Nat
  BY DEF Die, queue, TypeOK
<1>2. Abandoned(c)' \in {0, 1} /\ Abandoned(c) \in {0, 1}  BY DEF Abandoned
<1>3. stalls[c] + Abandoned(c) =< outages  BY DEF StallsHaveCauses
<1> QED  BY <1>1, <1>2, <1>3

\* A job that is not redelivered keeps its count; if it is active, its holder runs it.
LEMMA QueueMoves ==
  ASSUME TypeOK, StallsHaveCauses, NEW b \in Batches, outages' \in Nat,
         outages' >= outages,
         \A c \in Batches \ {b} : Abandoned(c)' = Abandoned(c) /\ stalls'[c] = stalls[c],
         Abandoned(b)' = 0, stalls'[b] =< outages', stalls'[b] \in Nat
  PROVE  StallsHaveCauses'
<1> SUFFICES ASSUME NEW c \in Batches PROVE stalls'[c] + Abandoned(c)' =< outages'
  BY DEF StallsHaveCauses
<1>1. CASE c = b  BY <1>1
<1>2. CASE c # b
  <2>1. stalls[c] + Abandoned(c) =< outages  BY DEF StallsHaveCauses
  <2>2. stalls[c] \in Nat /\ outages \in Nat /\ Abandoned(c) \in {0, 1}
    BY DEF TypeOK, Abandoned
  <2> QED  BY <1>2, <2>1, <2>2
<1> QED  BY <1>1, <1>2

\* A worker takes a job only when it runs no other.
LEMMA TakeKeepsCauses ==
  ASSUME TypeOK, StallsHaveCauses, NEW w \in Workers, Take(w)
  PROVE  StallsHaveCauses'
<1>1. PICK b \in Batches : /\ job[b] = "waiting" /\ job' = [job EXCEPT ![b] = "active"]
                           /\ holder' = [holder EXCEPT ![b] = w] /\ Continue(w, "mark", b)
  BY DEF Take
<1>2. /\ \A x \in Actors \ {w} : pc'[x] = pc[x] /\ batch'[x] = batch[x]
      /\ pc'[w] = "mark" /\ batch'[w] = b /\ w \in Actors /\ pc[w] = "idle"
      /\ stalls' = stalls /\ outages' = outages
  BY <1>1 DEF Continue, TypeOK, ActorsOK, Actors, Take
<1>3. /\ \A c \in Batches \ {b} : job'[c] = job[c] /\ holder'[c] = holder[c]
      /\ job'[b] = "active" /\ holder'[b] = w
  BY <1>1 DEF TypeOK
<1>4. Abandoned(b)' = 0  BY <1>2, <1>3 DEF Abandoned, Runs
<1>5. \A c \in Batches \ {b} : Abandoned(c)' = Abandoned(c)
  BY <1>2, <1>3 DEF Abandoned, Runs, Actors
<1>6. stalls[b] + Abandoned(b) =< outages /\ Abandoned(b) \in {0, 1}
  BY DEF StallsHaveCauses, Abandoned
<1> QED  BY <1>2, <1>4, <1>5, <1>6, QueueMoves DEF TypeOK

\* The holder of the lock ends its job before it takes another.
LEMMA AckKeepsCauses ==
  ASSUME IInv, StallsHaveCauses, NEW w \in Workers, Ack(w)
  PROVE  StallsHaveCauses'
<1>1. TypeOK /\ w \in Actors /\ pc[w] = "ack"  BY DEF IInv, Actors, Ack
<1>2. PICK b \in Batches : b = batch[w]  BY <1>1 DEF TypeOK, ActorsOK
<1>3. /\ \A x \in Actors \ {w} : pc'[x] = pc[x] /\ batch'[x] = batch[x]
      /\ pc'[w] = "idle" /\ stalls' = stalls /\ outages' = outages
  BY <1>1 DEF Continue, TypeOK, ActorsOK, Ack
<1>4. /\ \A c \in Batches \ {b} : job'[c] = job[c] /\ holder'[c] = holder[c]
      /\ ~(job'[b] = "active" /\ holder'[b] = w)
      /\ holder[b] # w => job'[b] = job[b] /\ holder'[b] = holder[b]
      /\ job'[b] = "active" => job[b] = "active" /\ holder'[b] = holder[b]
  BY <1>1, <1>2 DEF TypeOK, Ack
<1>5. \A c \in Batches : Abandoned(c)' =< Abandoned(c)
  <2> TAKE c \in Batches
  <2>1. CASE c = b
    <3>1. job'[b] = "active" => holder'[b] # w  BY <1>4
    <3>2. job'[b] = "active" => (Runs(holder[b], b) => Runs(holder[b], b)')
      BY <1>3, <1>4, <3>1 DEF Runs, Actors
    <3> QED  BY <1>4, <2>1, <3>2 DEF Abandoned
  <2>2. CASE c # b
    <3>1. Runs(holder[c], c) => Runs(holder[c], c)'
      BY <1>2, <1>3, <1>4, <2>2 DEF Runs, Actors
    <3> QED  BY <1>4, <2>2, <3>1 DEF Abandoned
  <2> QED  BY <2>1, <2>2
<1> SUFFICES ASSUME NEW c \in Batches PROVE stalls'[c] + Abandoned(c)' =< outages'
  BY DEF StallsHaveCauses
<1>6. stalls[c] + Abandoned(c) =< outages  BY DEF StallsHaveCauses
<1>7. Abandoned(c)' \in {0, 1} /\ Abandoned(c) \in {0, 1}  BY DEF Abandoned
<1>8. stalls[c] \in Nat /\ outages \in Nat  BY <1>1 DEF TypeOK
<1> QED  BY <1>3, <1>5, <1>6, <1>7, <1>8

\* A job is delivered again for the run that died, or for the lock that ran out now.
LEMMA StallKeepsCauses ==
  ASSUME TypeOK, StallsHaveCauses, NEW b \in Batches, StalledDead(b) \/ StalledAlive(b)
  PROVE  StallsHaveCauses' /\ (stalls[b] = MaxStalls => outages' > MaxStalls)
<1>1. /\ job[b] = "active" /\ Redeliver(b)
      /\ \/ ~Runs(holder[b], b) /\ outages' = outages
         \/ Runs(holder[b], b) /\ outages' = outages + 1
  BY DEF StalledDead, StalledAlive
<1>2. Abandoned(b) = IF Runs(holder[b], b) THEN 0 ELSE 1  BY <1>1 DEF Abandoned
<1>3. stalls[b] + Abandoned(b) =< outages  BY DEF StallsHaveCauses
<1>4. stalls[b] \in 0..MaxStalls /\ outages \in Nat /\ MaxStalls \in Nat
  BY SalesAssumption DEF TypeOK
<1>5. outages' \in Nat /\ outages' >= outages /\ stalls[b] + 1 =< outages'
  BY <1>1, <1>2, <1>3, <1>4
<1>6. /\ \A c \in Batches \ {b} :
           job'[c] = job[c] /\ holder'[c] = holder[c] /\ stalls'[c] = stalls[c]
      /\ job'[b] # "active" /\ stalls'[b] \in {stalls[b], stalls[b] + 1}
      /\ pc' = pc /\ batch' = batch
  BY <1>1 DEF Redeliver, TypeOK
<1>7. Abandoned(b)' = 0  BY <1>6 DEF Abandoned
<1>8. \A c \in Batches \ {b} : Abandoned(c)' = Abandoned(c)  BY <1>6 DEF Abandoned, Runs
<1>9. StallsHaveCauses'  BY <1>4, <1>5, <1>6, <1>7, <1>8, QueueMoves
<1> QED  BY <1>4, <1>5, <1>9

\* Every step: each redelivery has a cause.
LEMMA NextKeepsCauses == IInv /\ StallsHaveCauses /\ [Next]_vars => StallsHaveCauses'
<1> SUFFICES ASSUME IInv, StallsHaveCauses, [Next]_vars PROVE StallsHaveCauses'  OBVIOUS
<1>0. TypeOK /\ ActorsOK  BY DEF IInv, TypeOK
<1>1. ASSUME NEW r \in Requests, UploadSalesFile(r) \/ PosCheck(r) \/ PosMark(r)
      PROVE  StallsHaveCauses'
  BY <1>0, <1>1, RequestsAbandonNone DEF UploadSalesFile, PosCheck, PosMark
<1>2. ASSUME NEW r \in Requests, UploadPosFile(r) PROVE StallsHaveCauses'
  BY <1>2 DEF UploadPosFile, queue, StallsHaveCauses, Abandoned, Runs
<1>3. ASSUME NEW r \in Requests, Enqueue(r) PROVE StallsHaveCauses'
  <2>1. r \in Actors /\ pc[r] = "enqueue"  BY <1>3 DEF Enqueue, Actors
  <2>2. PICK b \in Batches : b = batch[r]  BY <1>0, <2>1 DEF ActorsOK
  <2>3. /\ job' = [job EXCEPT ![b] = "waiting"] /\ Continue(r, "idle", NoBatch)
        /\ UNCHANGED <<stalls, holder, outages>>
    BY <1>3, <2>2 DEF Enqueue
  <2>4. \A w \in Workers : pc'[w] = pc[w] /\ batch'[w] = batch[w]
    BY <1>0, <2>3, SalesAssumption DEF Continue, ActorsOK, Actors
  <2>5. Abandoned(b)' = 0  BY <1>0, <2>3 DEF Abandoned, TypeOK
  <2>6. \A c \in Batches \ {b} : Abandoned(c)' = Abandoned(c)
    BY <1>0, <2>3, <2>4 DEF Abandoned, Runs, TypeOK
  <2>7. /\ stalls[b] + Abandoned(b) =< outages /\ stalls[b] \in Nat
        /\ outages \in Nat /\ Abandoned(b) \in {0, 1}
    BY <1>0 DEF StallsHaveCauses, TypeOK, Abandoned
  <2>8. /\ stalls'[b] =< outages' /\ stalls'[b] \in Nat /\ outages' \in Nat
        /\ outages' >= outages /\ stalls' = stalls
    BY <2>3, <2>7
  <2> QED  BY <1>0, <2>5, <2>6, <2>8, QueueMoves
<1>4. ASSUME NEW w \in Workers, Take(w) \/ Ack(w) PROVE StallsHaveCauses'
  BY <1>0, <1>4, TakeKeepsCauses, AckKeepsCauses
<1>5. ASSUME NEW a \in Actors, a \notin Workers,
             Proceed(a) \/ QueryFails(a)
      PROVE  StallsHaveCauses'
  <2>1. a \in Requests  BY <1>5 DEF Actors
  <2>2. \E next, b : Continue(a, next, b)
    BY <1>5 DEF Proceed, Import, Refuse, Complete, MarkFailed, QueryFails
  <2>3. UNCHANGED <<queue, outages>>
    BY <1>5 DEF Proceed, Import, Refuse, Complete, MarkFailed, QueryFails
  <2> QED  BY <1>0, <2>1, <2>2, <2>3, RequestsAbandonNone
<1>6. ASSUME NEW w \in Workers, Mark(w) \/ Proceed(w) \/ QueryFails(w)
      PROVE  StallsHaveCauses'
  <2>1. w \in Actors /\ pc[w] \in WorkerStates  BY <1>0 DEF Actors, ActorsOK
  <2>2. \E next : next # "idle" /\ Continue(w, next, batch[w])
    BY <1>6, <2>1
       DEF WorkerStates, Mark, Proceed, Import, Refuse, Complete, MarkFailed, QueryFails, Through
  <2>3. UNCHANGED <<queue, outages>> /\ pc[w] # "idle"
    BY <1>6 DEF Mark, Proceed, Import, Refuse, Complete, MarkFailed, QueryFails
  <2>4. batch[w] \in Batches  BY <1>0, <2>1, <2>3 DEF ActorsOK
  <2> QED  BY <1>0, <2>1, <2>2, <2>3, <2>4, GoingOnAbandonsNone
<1>7. ASSUME NEW a \in Actors, Die(a) PROVE StallsHaveCauses'
  BY <1>0, <1>7, DeathIsCause
<1>8. ASSUME NEW b \in Batches, StalledDead(b) \/ StalledAlive(b) PROVE StallsHaveCauses'
  BY <1>0, <1>8, StallKeepsCauses
<1>9. CASE UNCHANGED vars
  BY <1>9 DEF vars, queue, StallsHaveCauses, Abandoned, Runs
<1> QED
  BY <1>1, <1>2, <1>3, <1>4, <1>5, <1>6, <1>7, <1>8, <1>9 DEF Next, Actors

\* A job ends by the run that holds it, or because it was delivered as often as it may be.
LEMMA EndsHaveCauses ==
  ASSUME IInv, StallsHaveCauses, [Next]_vars, NEW b \in Batches, job[b] = "active",
         job'[b] = "ended", outages' =< MaxStalls
  PROVE  Runs(holder[b], b) /\ pc[holder[b]] = "ack"
<1>0. TypeOK /\ ActorsOK  BY DEF IInv, TypeOK
<1>1. CASE \E w \in Workers : Ack(w)
  <2>1. PICK w \in Workers : Ack(w)  BY <1>1
  <2>2. batch[w] = b /\ holder[b] = w /\ pc[w] = "ack"  BY <1>0, <2>1 DEF Ack, TypeOK
  <2> QED  BY <2>2 DEF Runs
<1>2. ASSUME NEW c \in Batches, StalledDead(c) \/ StalledAlive(c) PROVE FALSE
  <2>1. Redeliver(c)  BY <1>2 DEF StalledDead, StalledAlive
  <2>2. c = b /\ ~(stalls[b] < MaxStalls)  BY <1>0, <2>1 DEF Redeliver, TypeOK
  <2>3. stalls[b] \in 0..MaxStalls /\ MaxStalls \in Nat  BY <1>0, SalesAssumption DEF TypeOK
  <2>4. stalls[b] = MaxStalls  BY <2>2, <2>3
  <2>5. outages' > MaxStalls /\ outages' \in Nat
    <3>1. outages' \in {outages, outages + 1}  BY <1>2 DEF StalledDead, StalledAlive
    <3> QED  BY <1>0, <1>2, <2>2, <2>4, <3>1, StallKeepsCauses DEF TypeOK
  <2> QED  BY <2>3, <2>5
<1>3. ASSUME NEW w \in Workers, Take(w) PROVE FALSE
  BY <1>0, <1>3 DEF Take, TypeOK
<1>4. ASSUME NEW r \in Requests, Enqueue(r) PROVE FALSE
  BY <1>0, <1>4 DEF Enqueue, TypeOK
<1>5. CASE job' = job  BY <1>5
<1>6. \/ \E w \in Workers : Ack(w) \/ Take(w)
      \/ \E c \in Batches : StalledDead(c) \/ StalledAlive(c)
      \/ \E r \in Requests : Enqueue(r)
      \/ job' = job
  BY DEF Next, vars, queue, UploadSalesFile, UploadPosFile, PosCheck, PosMark, Mark, Proceed,
         Import, Refuse, Complete, MarkFailed, QueryFails, Die
<1> QED  BY <1>1, <1>2, <1>3, <1>4, <1>5, <1>6

\* What BullMQ's maxStalledCount gives an import: however requests, workers and failing
\* queries interleave, its job is not given up before more runs died or lost their lock
\* than it is delivered again.
THEOREM JobsAreNotGivenUp == Spec => NoJobIsGivenUp
<1>1. Init => StallsHaveCauses
  BY DEF Init, StallsHaveCauses, Abandoned
<1>2. Spec => []StallsHaveCauses
  BY <1>1, Invariance, NextKeepsCauses, PTL DEF Spec
<1>3. IInv /\ StallsHaveCauses /\ [Next]_vars =>
        [\A b \in Batches :
           job[b] = "active" /\ job'[b] = "ended" /\ outages' =< MaxStalls =>
             Runs(holder[b], b) /\ pc[holder[b]] = "ack"]_vars
  BY EndsHaveCauses
<1> QED  BY <1>2, <1>3, Invariance, PTL DEF Spec, NoJobIsGivenUp
=============================================================================
