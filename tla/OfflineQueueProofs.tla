-------------------------- MODULE OfflineQueueProofs --------------------------
(***************************************************************************)
(* Theorems about OfflineQueue for any number of tabs, calls, mutations,   *)
(* drops, reloads and failures, with and without Web Locks.                *)
(***************************************************************************)
EXTENDS OfflineQueue, FiniteSetTheorems, WellFoundedInduction, TLAPS

\* What the variables of the bodies and of the browser keep, whoever steps.
ReadersTyped ==
  /\ webLocks \in BOOLEAN
  /\ readers \subseteq Handlers
  /\ copy \in [Handlers -> SUBSET Entry]
  /\ overwritten \subseteq Mutations
BodiesGoOn == ReadersTyped' /\ ReadersAreSound' /\ webLocks' = webLocks

\* What a step leaves of what mattered: a mutation saved or evicted stays so, and
\* an entry that goes leaves its mutation safe.
Onward ==
  /\ \A m \in Mutations : saved[m] > 0 => saved'[m] > 0
  /\ evicted \subseteq evicted' /\ refused \subseteq refused'
  /\ overwritten \subseteq overwritten'
  /\ \A f \in store :
       \/ \E g \in store' : g.id = f.id /\ g.mutation = f.mutation
       \/ KeptAfter(f.mutation, f.id)'

\* The entries known after a step are those known before it, and the one pushed.
SeenBefore(m) ==
  \A e \in Seen' :
    \/ \E f \in Seen : f.id = e.id /\ f.mutation = e.mutation
    \/ nextId' = nextId + 1 /\ e.id = nextId /\ e.mutation = m

LEMMA OnwardKeeps ==
  ASSUME TypeOK, TypeOK', Onward, NEW m \in Mutations, NEW i \in Int, KeptAfter(m, i)
  PROVE  KeptAfter(m, i)'
<1>1. CASE saved[m] > 0  BY <1>1 DEF Onward, KeptAfter
<1>2. CASE m \in evicted  BY <1>2 DEF Onward, KeptAfter
<1>4. CASE m \in refused \union overwritten  BY <1>4 DEF Onward, KeptAfter
<1>3. CASE \E f \in store : f.mutation = m /\ f.id > i
  <2>1. PICK f \in store : f.mutation = m /\ f.id > i  BY <1>3
  <2>2. CASE \E g \in store' : g.id = f.id /\ g.mutation = f.mutation
    BY <2>1, <2>2 DEF KeptAfter
  <2>3. CASE KeptAfter(f.mutation, f.id)'
    <3>1. f.id \in Nat /\ \A g \in store' : g.id \in Nat  BY DEF TypeOK, Entry
    <3> QED  BY <2>1, <2>3, <3>1 DEF KeptAfter
  <2> QED  BY <2>1, <2>2, <2>3 DEF Onward
<1> QED  BY <1>1, <1>2, <1>3, <1>4 DEF KeptAfter

LEMMA IdsOnward ==
  ASSUME TypeOK, TypeOK', IdsAreUnique, NEW m, SeenBefore(m), nextId' >= nextId
  PROVE  IdsAreUnique'
<1>1. \A e \in Seen' : e.id \in Nat
  BY DEF Seen, Listed, TypeOK, Entry
<1>2. \A e \in Seen : e.id \in Nat
  BY DEF Seen, Listed, TypeOK, Entry
<1>3. nextId \in Nat /\ nextId' \in Nat  BY DEF TypeOK
<1>4. \A e \in Seen' : e.id < nextId'
  BY <1>1, <1>2, <1>3 DEF IdsAreUnique, SeenBefore
<1>5. ASSUME NEW e \in Seen', NEW f \in Seen', e.id = f.id
      PROVE  e.mutation = f.mutation
  BY <1>1, <1>2, <1>3, <1>5 DEF IdsAreUnique, SeenBefore
<1> QED  BY <1>4, <1>5 DEF IdsAreUnique

\* A step that keeps what mattered, brings no call to the removal of an entry still
\* needed, and tells nobody "queued" without an entry, preserves the invariant.
LEMMA SafeStep ==
  ASSUME IInv, TypeOK', BodiesGoOn, Onward, NEW m0, SeenBefore(m0), nextId' >= nextId,
         CallsAreSound',
         \A g \in Handlers : pc'[g] = "dequeue" =>
           \/ pc[g] = "dequeue" /\ rest'[g] = rest[g]
           \/ \A e \in rest'[g] : IsNext(g, e)' => KeptAfter(e.mutation, e.id)',
         \A m \in Mutations : told'[m] = "queued" =>
           told[m] = "queued" \/ m \in refused' \/ \E e \in store' : e.mutation = m
  PROVE  IInv'
<1>0. TypeOK /\ IdsAreUnique /\ RemovedIsKept /\ QueuedIsKept  BY DEF IInv
<1>1. IdsAreUnique'  BY <1>0, IdsOnward
<1>2. RemovedIsKept'
  <2> SUFFICES ASSUME NEW g \in Handlers, pc'[g] = "dequeue",
                      NEW e \in rest'[g], IsNext(g, e)'
               PROVE  KeptAfter(e.mutation, e.id)'
    BY DEF RemovedIsKept
  <2>1. CASE pc[g] = "dequeue" /\ rest'[g] = rest[g]
    <3>1. e \in rest[g] /\ IsNext(g, e)  BY <2>1 DEF IsNext
    <3>2. KeptAfter(e.mutation, e.id)  BY <1>0, <2>1, <3>1 DEF RemovedIsKept
    <3>3. e.mutation \in Mutations /\ e.id \in Int  BY <1>0, <3>1 DEF TypeOK, Entry
    <3> QED  BY <1>0, <3>2, <3>3, OnwardKeeps
  <2> QED  BY <2>1
<1>3. QueuedIsKept'
  <2> SUFFICES ASSUME NEW m \in Mutations \ refused', told'[m] = "queued"
               PROVE  \/ \E e \in store' : e.mutation = m
                      \/ saved'[m] > 0
                      \/ m \in evicted'
                      \/ m \in overwritten'
    BY DEF QueuedIsKept, BodiesGoOn, ReadersAreSound
  <2>1. CASE told[m] = "queued"
    <3>1. \A e \in store : e.id > -1  BY <1>0 DEF TypeOK, Entry
    <3>2. KeptAfter(m, -1)  BY <1>0, <2>1, <3>1 DEF QueuedIsKept, KeptAfter
    <3>3. KeptAfter(m, -1)'  BY <1>0, <3>2, OnwardKeeps
    <3> QED  BY <3>3 DEF KeptAfter
  <2> QED  BY <2>1
<1> QED  BY <1>1, <1>2, <1>3 DEF IInv, BodiesGoOn

\* The last two lemmas' hypotheses for a step that leaves the list, the server and
\* the mutations given up as they are.
LEMMA QuietStep ==
  ASSUME IInv, TypeOK', BodiesGoOn,
         UNCHANGED <<store, nextId, refused, overwritten, saved, evicted>>,
         CallsAreSound', Listed' \subseteq Listed,
         \A g \in Handlers : rest'[g] \subseteq Seen,
         \A g \in Handlers : pc'[g] = "dequeue" => pc[g] = "dequeue" /\ rest'[g] = rest[g],
         \A m \in Mutations : told'[m] = "queued" => told[m] = "queued"
  PROVE  IInv'
<1>0. TypeOK  BY DEF IInv
<1>1. Onward  BY DEF Onward
<1>2. Seen' \subseteq Seen  BY DEF Seen
<1>3. SeenBefore(NoMutation)  BY <1>2 DEF SeenBefore
<1>4. nextId' >= nextId  BY <1>0 DEF TypeOK
<1> QED  BY <1>1, <1>3, <1>4, SafeStep

\* The list is as it was.
LEMMA SameList ==
  ASSUME UNCHANGED queue
  PROVE  /\ UNCHANGED <<store, nextId, refused, overwritten>> /\ Listed' \subseteq Listed
         /\ Listed' = Listed
BY DEF queue, Listed

\* Saving more keeps what mattered.
LEMMA SavingIsOnward ==
  ASSUME TypeOK, NEW m \in Mutations, Saves(m) \/ Fails(m),
         UNCHANGED <<store, evicted, refused, overwritten>>
  PROVE  /\ Onward
         /\ saved' \in [Mutations -> Nat] /\ failures' \in 0..MaxFailures
         /\ Saves(m) => saved'[m] > 0
<1> USE OfflineAssumption
<1>1. saved' = saved \/ saved' = [saved EXCEPT ![m] = @ + 1]  BY DEF Saves, Fails
<1>2. saved' \in [Mutations -> Nat]  BY <1>1 DEF TypeOK
<1>3. \A k \in Mutations : saved[k] > 0 => saved'[k] > 0  BY <1>1 DEF TypeOK
<1>4. failures' \in 0..MaxFailures  BY DEF Saves, Fails, TypeOK
<1>5. Saves(m) => saved'[m] > 0  BY DEF Saves, TypeOK
<1> QED  BY <1>2, <1>3, <1>4, <1>5 DEF Onward

-----------------------------------------------------------------------------
(* Reading and writing the list *)

\* A body works on entries that were seen.
LEMMA ListIsSeen ==
  ASSUME TypeOK, NEW h \in Handlers
  PROVE  List(h) \subseteq Entry /\ List(h) \subseteq Listed /\ List(h) \subseteq Seen
BY DEF List, Listed, Seen, TypeOK

\* A body that ends leaves the copies of the others.
LEMMA OverLeavesOthers ==
  ASSUME TypeOK, NEW h \in Handlers, ReadOver(h), store' \subseteq Listed
  PROVE  Listed' \subseteq Listed
<1>1. \A g \in Handlers : copy'[g] \subseteq copy[g]  BY DEF ReadOver, TypeOK
<1> QED  BY <1>1 DEF Listed

\* Who has read the list to write it is in its body, alone in its tab, and in a browser
\* without Web Locks: each step starts or ends a body, or leaves it.
LEMMA BodiesStep ==
  ASSUME TypeOK, CallsAreSound, ReadersAreSound, [Next]_vars
  PROVE  BodiesGoOn
<1>0. /\ pc \in [Handlers -> States] /\ copy \in [Handlers -> SUBSET Entry]
      /\ readers \subseteq Handlers /\ store \subseteq Entry /\ overwritten \subseteq Mutations
      /\ webLocks \in BOOLEAN
  BY DEF TypeOK
<1>1. \A g, h \in Handlers : g \in readers /\ h \in readers /\ TabOf[g] = TabOf[h] => g = h
  BY DEF ReadersAreSound, TabFree
<1>2. ASSUME NEW h \in Handlers, UNCHANGED <<webLocks, readers, copy, overwritten>>,
             \A g \in readers : pc'[g] = pc[g]
      PROVE  BodiesGoOn
  BY <1>0, <1>2 DEF BodiesGoOn, ReadersTyped, ReadersAreSound, AtBody, TabFree
<1>3. ASSUME NEW h \in Handlers, ReadOver(h), webLocks' = webLocks,
             overwritten' \subseteq Mutations, webLocks => overwritten' = {},
             \A g \in Handlers \ {h} : pc'[g] = pc[g]
      PROVE  BodiesGoOn
  <2>1. /\ readers' = readers \ {h} /\ copy'[h] = {}
        /\ \A g \in Handlers \ {h} : copy'[g] = copy[g]
        /\ copy' \in [Handlers -> SUBSET Entry]
    BY <1>0, <1>3 DEF ReadOver
  <2> QED
    BY <1>0, <1>3, <2>1 DEF BodiesGoOn, ReadersTyped, ReadersAreSound, AtBody, TabFree
<1>4. ASSUME NEW h \in Handlers, NEW list, Writes(h, list)
      PROVE  overwritten' \subseteq Mutations /\ (webLocks => overwritten' = {})
  <2>1. overwritten' = overwritten \union
          {f.mutation : f \in {g \in store : \A e \in List(h) : e.id # g.id}}
    BY <1>4 DEF Writes
  <2>2. \A f \in store : f.mutation \in Mutations  BY <1>0 DEF Entry
  <2>3. webLocks => {g \in store : \A e \in List(h) : e.id # g.id} = {}  BY DEF List
  <2> QED  BY <1>0, <2>1, <2>2, <2>3 DEF ReadersAreSound
<1>5. ASSUME NEW h \in Handlers, TabFree(h), Submit(h) \/ FlushAsk(h) \/ Proceed(h)
      PROVE  BodiesGoOn
  <2>1. CASE Submit(h) \/ FlushAsk(h) \/ Send(h) \/ FlushRead(h) \/ FlushItem(h) \/ FlushSend(h)
    <3>1. /\ UNCHANGED <<webLocks, readers, copy, overwritten>>
          /\ pc[h] \notin {"enqueue", "flush_enqueue", "dequeue", "increment"}
          /\ \E next : pc' = [pc EXCEPT ![h] = next]
      BY <2>1 DEF Submit, FlushAsk, Send, FlushRead, FlushItem, FlushSend, Goto, Done, queue
    <3>2. h \notin readers  BY <3>1 DEF ReadersAreSound, AtBody
    <3> QED  BY <1>0, <1>2, <3>1, <3>2
  <2>2. CASE Read(h)
    <3>1. /\ AtBody(h) /\ ~webLocks /\ readers' = readers \union {h}
          /\ copy' = [copy EXCEPT ![h] = store]
          /\ UNCHANGED <<webLocks, overwritten, pc>>
      BY <2>2 DEF Read, locals
    <3>2. \A g \in readers \ {h} : TabOf[g] # TabOf[h]  BY <1>5 DEF TabFree
    <3> QED
      BY <1>0, <3>1, <3>2 DEF BodiesGoOn, ReadersTyped, ReadersAreSound, AtBody, TabFree
  <2>3. CASE Enqueue(h) \/ FlushEnqueue(h)
    <3>1. \E m : Push(h, m)  BY <2>3 DEF Enqueue, FlushEnqueue
    <3>2. ReadOver(h) /\ (UNCHANGED overwritten \/ \E list : Writes(h, list))
      BY <3>1 DEF Push, Writes
    <3>3. webLocks' = webLocks /\ \A g \in Handlers \ {h} : pc'[g] = pc[g]
      BY <1>0, <2>3 DEF Enqueue, FlushEnqueue, Goto, Done
    <3> QED  BY <1>0, <1>3, <1>4, <3>2, <3>3 DEF ReadersAreSound
  <2>4. CASE Dequeue(h) \/ IncrementRetry(h)
    <3>1. PICK e \in rest[h] : (\E list : Rewrites(h, list)) /\ Loop(h, rest[h] \ {e})
      BY <2>4 DEF Dequeue, IncrementRetry
    <3>2. ReadOver(h) /\ (UNCHANGED overwritten \/ \E list : Writes(h, list))
      BY <3>1 DEF Rewrites, Writes
    <3>3. webLocks' = webLocks /\ \A g \in Handlers \ {h} : pc'[g] = pc[g]
      BY <1>0, <2>4, <3>1 DEF Dequeue, IncrementRetry, Loop
    <3> QED  BY <1>0, <1>3, <1>4, <3>2, <3>3 DEF ReadersAreSound
  <2> QED  BY <1>5, <2>1, <2>2, <2>3, <2>4 DEF Proceed
<1>6. ASSUME NEW t \in Tabs, Reload(t)
      PROVE  BodiesGoOn
  <2> DEFINE its == {h \in Handlers : TabOf[h] = t}
  <2>1. /\ readers' = readers \ its
        /\ copy' = [h \in Handlers |-> IF h \in its THEN {} ELSE copy[h]]
        /\ \A h \in Handlers \ its : pc'[h] = pc[h]
        /\ UNCHANGED <<webLocks, overwritten>>
    BY <1>6 DEF Reload
  <2> QED  BY <1>0, <2>1 DEF BodiesGoOn, ReadersTyped, ReadersAreSound, AtBody, TabFree
<1>7. CASE GoOffline \/ GoOnline \/ UNCHANGED vars
  <2>1. UNCHANGED <<webLocks, readers, copy, overwritten, pc>>
    BY <1>7 DEF GoOffline, GoOnline, vars, queue, locals
  <2> QED  BY <1>0, <2>1 DEF BodiesGoOn, ReadersTyped, ReadersAreSound, AtBody, TabFree
<1> QED  BY <1>5, <1>6, <1>7 DEF Next

\* A body writes the list it read, in which each entry is still there or safe: what was
\* not in it is overwritten.
LEMMA WritingIsOnward ==
  ASSUME TypeOK, IdsAreUnique, NEW h \in Handlers, NEW list,
         Writes(h, list) \/ (UNCHANGED <<store, overwritten>>),
         \A m \in Mutations : saved[m] > 0 => saved'[m] > 0,
         evicted \subseteq evicted', refused \subseteq refused',
         Writes(h, list) => \A e \in List(h) :
           \/ \E g \in list : g.id = e.id /\ g.mutation = e.mutation
           \/ KeptAfter(e.mutation, e.id)'
  PROVE  Onward
<1>1. CASE UNCHANGED <<store, overwritten>>  BY <1>1 DEF Onward
<1>2. CASE Writes(h, list)
  <2>1. /\ store' = list
        /\ overwritten' = overwritten \union
             {f.mutation : f \in {g \in store : \A e \in List(h) : e.id # g.id}}
    BY <1>2 DEF Writes
  <2>2. ASSUME NEW f \in store
        PROVE  \/ \E g \in store' : g.id = f.id /\ g.mutation = f.mutation
               \/ KeptAfter(f.mutation, f.id)'
    <3>1. CASE \A e \in List(h) : e.id # f.id
      <4>1. f.mutation \in overwritten'  BY <2>1, <2>2, <3>1
      <4> QED  BY <4>1 DEF KeptAfter
    <3>2. CASE \E e \in List(h) : e.id = f.id
      <4>1. PICK e \in List(h) : e.id = f.id  BY <3>2
      <4>2. e.mutation = f.mutation
        BY <4>1, ListIsSeen DEF IdsAreUnique, Seen, Listed
      <4> QED  BY <1>2, <2>1, <4>1, <4>2
    <3> QED  BY <3>1, <3>2
  <2> QED  BY <2>1, <2>2 DEF Onward
<1> QED  BY <1>1, <1>2

-----------------------------------------------------------------------------
(* Users *)

LEMMA ReadStep ==
  ASSUME IInv, BodiesGoOn, NEW h \in Handlers, Read(h)
  PROVE  IInv'
<1>0. TypeOK /\ CallsAreSound  BY DEF IInv
<1>1. /\ copy' = [copy EXCEPT ![h] = store]
      /\ UNCHANGED <<webLocks, network, store, nextId, refused, overwritten, owner, locals, told,
                     server, evicted, reloads, alone>>
  BY DEF Read
<1>2. TypeOK'
  BY <1>0, <1>1 DEF TypeOK, BodiesGoOn, ReadersTyped, network, server, locals, States
<1>3. CallsAreSound'  BY <1>0, <1>1 DEF CallsAreSound, locals
<1>4. \A g \in Handlers : pc'[g] = pc[g] /\ rest'[g] = rest[g]  BY <1>1 DEF locals
<1>5. Listed' \subseteq Listed  BY <1>0, <1>1 DEF Listed, TypeOK
<1>6. \A g \in Handlers : rest[g] \subseteq Seen  BY DEF Seen
<1> QED  BY <1>1, <1>2, <1>3, <1>4, <1>5, <1>6, QuietStep DEF server

LEMMA SubmitStep ==
  ASSUME IInv, BodiesGoOn, NEW h \in Handlers, Submit(h)
  PROVE  IInv'
<1>0. TypeOK /\ CallsAreSound  BY DEF IInv
<1>1. /\ pc[h] = "idle"
      /\ \/ pc' = [pc EXCEPT ![h] = "send"]
         \/ pc' = [pc EXCEPT ![h] = "enqueue"]
      /\ \E m \in Mutations : work' = [work EXCEPT ![h] = m]
      /\ \E m \in Mutations : told' = [told EXCEPT ![m] = "pending"]
  BY DEF Submit
<1>2. UNCHANGED <<webLocks, network, queue, owner, rest, server, evicted, reloads>>
      /\ alone' \in BOOLEAN
  BY DEF Submit, Starts
<1>3. TypeOK'  BY <1>0, <1>1, <1>2 DEF TypeOK, BodiesGoOn, ReadersTyped, network, server, queue, States
<1>4. CallsAreSound'  BY <1>0, <1>1, <1>2 DEF CallsAreSound, Flushing, TypeOK, BodiesGoOn
<1>5. \A g \in Handlers : pc'[g] = "dequeue" => pc[g] = "dequeue"
  BY <1>0, <1>1 DEF TypeOK
<1>6. \A m \in Mutations : told'[m] = "queued" => told[m] = "queued"
  BY <1>0, <1>1 DEF TypeOK
<1>7. \A g \in Handlers : rest[g] \subseteq Seen  BY DEF Seen, Listed
<1> QED  BY <1>2, <1>3, <1>4, <1>5, <1>6, <1>7, QuietStep, SameList DEF server

\* The entry pushed joins the list, and what goes was overwritten.
LEMMA PushIsOnward ==
  ASSUME IInv, BodiesGoOn, NEW h \in Handlers, NEW m \in Mutations, Push(h, m),
         UNCHANGED <<saved, evicted, rest>>
  PROVE  /\ Onward /\ SeenBefore(m)
         /\ nextId' \in Nat /\ nextId' >= nextId
         /\ store' \subseteq Entry /\ refused' \subseteq Mutations
         /\ m \in refused' \/ \E e \in store' : e.mutation = m /\ e.id = nextId
<1> DEFINE new == [id |-> nextId, mutation |-> m, tries |-> 0]
<1>0. /\ TypeOK /\ IdsAreUnique
      /\ nextId \in Nat /\ store \subseteq Entry /\ refused \subseteq Mutations
  BY DEF IInv, TypeOK
<1>1. List(h) \subseteq Entry /\ List(h) \subseteq Listed  BY <1>0, ListIsSeen
<1>2. CASE refused' = refused \union {m} /\ ReadOver(h) /\ UNCHANGED <<store, nextId, overwritten>>
  <2>1. Listed' \subseteq Listed  BY <1>0, <1>2, OverLeavesOthers DEF Listed
  <2>2. Seen' \subseteq Seen  BY <2>1 DEF Seen
  <2> QED  BY <1>0, <1>2, <2>2 DEF Onward, SeenBefore
<1>3. CASE Writes(h, List(h) \union {new}) /\ nextId' = nextId + 1 /\ UNCHANGED refused
  <2>1. nextId' \in Nat /\ nextId' >= nextId  BY <1>0, <1>3
  <2>2. new \in Entry  BY OfflineAssumption, <1>0 DEF Entry
  <2>3. new.id = nextId /\ new.mutation = m  OBVIOUS
  <2>4. store' = List(h) \union {new} /\ ReadOver(h)  BY <1>3 DEF Writes
  <2> HIDE DEF new
  <2>5. Onward
    BY <1>0, <1>3, WritingIsOnward
  <2>6. \A g \in Handlers : copy'[g] \subseteq copy[g]  BY <1>0, <2>4 DEF ReadOver, TypeOK
  <2>7. Listed' \subseteq Listed \union {new}  BY <1>1, <2>4, <2>6 DEF Listed
  <2>8. Seen' \subseteq Seen \union {new}  BY <2>7 DEF Seen
  <2>9. SeenBefore(m)  BY <1>3, <2>3, <2>8 DEF SeenBefore
  <2> QED  BY <1>0, <1>1, <1>3, <2>1, <2>2, <2>3, <2>4, <2>5, <2>9
<1> QED  BY <1>2, <1>3 DEF Push

LEMMA EnqueueStep ==
  ASSUME IInv, BodiesGoOn, NEW h \in Handlers, Enqueue(h)
  PROVE  IInv'
<1>0. TypeOK /\ CallsAreSound  BY DEF IInv
<1>1. /\ pc[h] = "enqueue" /\ Push(h, work[h]) /\ Done(h)
      /\ told' = [told EXCEPT ![work[h]] = "queued"]
      /\ UNCHANGED <<webLocks, network, server, evicted, reloads, alone>>
  BY DEF Enqueue
<1>2. /\ pc' = [pc EXCEPT ![h] = "idle"]
      /\ work' = [work EXCEPT ![h] = NoMutation]
      /\ UNCHANGED <<rest, owner>>
  BY <1>1 DEF Done
<1>3. work[h] \in Mutations  BY <1>0, <1>1 DEF CallsAreSound
<1>4. /\ Onward /\ SeenBefore(work[h])
      /\ nextId' \in Nat /\ nextId' >= nextId
      /\ store' \subseteq Entry /\ refused' \subseteq Mutations
      /\ work[h] \in refused' \/ \E e \in store' : e.mutation = work[h]
  BY <1>0, <1>1, <1>2, <1>3, PushIsOnward DEF server
<1>5. TypeOK'
  BY <1>0, <1>1, <1>2, <1>3, <1>4 DEF TypeOK, BodiesGoOn, ReadersTyped, network, server, queue, States
<1>6. CallsAreSound'  BY <1>0, <1>2 DEF CallsAreSound, Flushing, TypeOK, BodiesGoOn
<1>7. \A g \in Handlers : pc'[g] = "dequeue" => pc[g] = "dequeue" /\ rest'[g] = rest[g]
  BY <1>0, <1>2 DEF TypeOK
<1>8. \A m \in Mutations : told'[m] = "queued" =>
        told[m] = "queued" \/ m \in refused' \/ \E e \in store' : e.mutation = m
  BY <1>0, <1>1, <1>4 DEF TypeOK
<1> QED  BY <1>4, <1>5, <1>6, <1>7, <1>8, SafeStep

LEMMA SendStep ==
  ASSUME IInv, BodiesGoOn, NEW h \in Handlers, Send(h)
  PROVE  IInv'
<1>0. TypeOK /\ CallsAreSound  BY DEF IInv
<1>1. /\ pc[h] = "send" /\ Done(h)
      /\ Saves(work[h]) \/ Fails(work[h])
      /\ \/ told' = [told EXCEPT ![work[h]] = "saved"]
         \/ told' = [told EXCEPT ![work[h]] = "failed"]
      /\ UNCHANGED <<webLocks, network, queue, evicted, reloads, alone>>
  BY DEF Send
<1>2. /\ pc' = [pc EXCEPT ![h] = "idle"]
      /\ work' = [work EXCEPT ![h] = NoMutation]
      /\ UNCHANGED <<rest, owner>>
  BY <1>1 DEF Done
<1>3. work[h] \in Mutations  BY <1>0, <1>1 DEF CallsAreSound
<1>4. Onward /\ saved' \in [Mutations -> Nat] /\ failures' \in 0..MaxFailures
  BY <1>0, <1>1, <1>3, SavingIsOnward DEF queue
<1>5. TypeOK'
  BY <1>0, <1>1, <1>2, <1>3, <1>4 DEF TypeOK, BodiesGoOn, ReadersTyped, network, queue, States
<1>6. CallsAreSound'  BY <1>0, <1>2 DEF CallsAreSound, Flushing, TypeOK, BodiesGoOn
<1>7. \A g \in Handlers : pc'[g] = "dequeue" => pc[g] = "dequeue" /\ rest'[g] = rest[g]
  BY <1>0, <1>2 DEF TypeOK
<1>8. \A m \in Mutations : told'[m] = "queued" => told[m] = "queued"
  BY <1>0, <1>1 DEF TypeOK
<1>9. SeenBefore(NoMutation) /\ nextId' >= nextId
  BY <1>0, <1>1, <1>2 DEF SeenBefore, Seen, Listed, TypeOK, queue
<1> QED  BY <1>4, <1>5, <1>6, <1>7, <1>8, <1>9, SafeStep

-----------------------------------------------------------------------------
(* Flushes *)

LEMMA FlushAskStep ==
  ASSUME IInv, BodiesGoOn, NEW h \in Handlers, FlushAsk(h)
  PROVE  IInv'
<1>0. TypeOK /\ CallsAreSound  BY DEF IInv
<1>1. /\ signalled' \subseteq signalled
      /\ pc' = [pc EXCEPT ![h] = "flush_ask"]
      /\ UNCHANGED <<work, rest, owner>>
      /\ UNCHANGED <<webLocks, online, drops, queue, told, server, evicted, reloads>>
      /\ alone' \in BOOLEAN
  BY DEF FlushAsk, Goto, Starts
<1>2. TypeOK'  BY <1>0, <1>1 DEF TypeOK, BodiesGoOn, ReadersTyped, server, queue, States
<1>3. CallsAreSound'  BY <1>0, <1>1 DEF CallsAreSound, Flushing, TypeOK, BodiesGoOn
<1>4. \A g \in Handlers : pc'[g] = "dequeue" => pc[g] = "dequeue"
  BY <1>0, <1>1 DEF TypeOK
<1>5. \A g \in Handlers : rest[g] \subseteq Seen  BY DEF Seen, Listed
<1> QED  BY <1>1, <1>2, <1>3, <1>4, <1>5, QuietStep, SameList DEF server

LEMMA FlushReadStep ==
  ASSUME IInv, BodiesGoOn, NEW h \in Handlers, FlushRead(h)
  PROVE  IInv'
<1>0. TypeOK /\ CallsAreSound  BY DEF IInv
<1>1. /\ pc[h] = "flush_ask" /\ LockFree
      /\ rest' = [rest EXCEPT ![h] = store]
      /\ pc' = [pc EXCEPT ![h] = IF store = {} THEN "idle" ELSE "flush_item"]
      /\ owner' = IF webLocks /\ store # {} THEN h ELSE owner
      /\ UNCHANGED <<webLocks, network, queue, work, told, server, evicted, reloads, alone>>
  BY DEF FlushRead
<1>2. TypeOK'  BY <1>0, <1>1 DEF TypeOK, BodiesGoOn, ReadersTyped, network, server, queue, States
<1>3. CallsAreSound'
  BY <1>0, <1>1, OfflineAssumption DEF CallsAreSound, LockFree, Flushing, TypeOK
<1>4. \A g \in Handlers : pc'[g] = "dequeue" => pc[g] = "dequeue" /\ rest'[g] = rest[g]
  BY <1>0, <1>1 DEF TypeOK
<1>5. \A g \in Handlers : rest'[g] \subseteq Seen  BY <1>0, <1>1 DEF Seen, Listed, TypeOK
<1> QED  BY <1>1, <1>2, <1>3, <1>4, <1>5, QuietStep, SameList DEF server

LEMMA FlushItemStep ==
  ASSUME IInv, BodiesGoOn, NEW h \in Handlers, FlushItem(h)
  PROVE  IInv'
<1>0. TypeOK /\ CallsAreSound  BY DEF IInv
<1>1. PICK next \in {"increment", "flush_enqueue", "flush_send"} : Goto(h, next)
  <2>1. PICK e \in rest[h] :
          Goto(h, CASE KindOf[e.mutation] = "scan" -> "increment"
                    [] KindOf[e.mutation] # "scan" /\ ~online -> "flush_enqueue"
                    [] KindOf[e.mutation] # "scan" /\ online -> "flush_send")
    BY DEF FlushItem
  <2> QED  BY <2>1
<1>2. /\ pc[h] = "flush_item"
      /\ pc' = [pc EXCEPT ![h] = next]
      /\ UNCHANGED <<work, rest, owner>>
      /\ UNCHANGED <<webLocks, network, queue, told, server, evicted, reloads, alone>>
  BY <1>1 DEF FlushItem, Goto
<1>3. TypeOK'  BY <1>0, <1>2 DEF TypeOK, BodiesGoOn, ReadersTyped, network, server, queue, States
<1>4. CallsAreSound'  BY <1>0, <1>2 DEF CallsAreSound, Flushing, TypeOK, BodiesGoOn
<1>5. \A g \in Handlers : pc'[g] = "dequeue" => pc[g] = "dequeue"
  BY <1>0, <1>2 DEF TypeOK
<1>6. \A g \in Handlers : rest[g] \subseteq Seen  BY DEF Seen, Listed
<1> QED  BY <1>2, <1>3, <1>4, <1>5, <1>6, QuietStep, SameList DEF server

\* Two entries that are both the next of a flush have one id, and one mutation.
LEMMA NextIsOne ==
  ASSUME TypeOK, IdsAreUnique, NEW h \in Handlers, NEW e \in rest[h], NEW f \in rest[h],
         IsNext(h, e), IsNext(h, f)
  PROVE  e.id = f.id /\ e.mutation = f.mutation
<1>1. e.id \in Nat /\ f.id \in Nat  BY DEF TypeOK, Entry
<1>2. e.id = f.id  BY <1>1 DEF IsNext
<1>3. e \in Seen /\ f \in Seen  BY DEF Seen, Listed
<1> QED  BY <1>2, <1>3 DEF IdsAreUnique

LEMMA FlushEnqueueStep ==
  ASSUME IInv, BodiesGoOn, NEW h \in Handlers, FlushEnqueue(h)
  PROVE  IInv'
<1>0. TypeOK /\ CallsAreSound /\ IdsAreUnique  BY DEF IInv
<1>1. PICK e \in rest[h] : IsNext(h, e) /\ Push(h, e.mutation)  BY DEF FlushEnqueue
<1>2. /\ pc[h] = "flush_enqueue"
      /\ pc' = [pc EXCEPT ![h] = "dequeue"]
      /\ UNCHANGED <<work, rest, owner>>
      /\ UNCHANGED <<webLocks, network, told, server, evicted, reloads, alone>>
  BY DEF FlushEnqueue, Goto
<1>3. e \in Seen /\ e.mutation \in Mutations /\ e.id \in Nat
  BY <1>0 DEF Seen, Listed, TypeOK, Entry
<1>4. /\ Onward /\ SeenBefore(e.mutation)
      /\ nextId' \in Nat /\ nextId' >= nextId
      /\ store' \subseteq Entry /\ refused' \subseteq Mutations
      /\ \/ e.mutation \in refused'
         \/ \E f \in store' : f.mutation = e.mutation /\ f.id = nextId
  BY <1>0, <1>1, <1>2, <1>3, PushIsOnward DEF server
<1>5. TypeOK'
  BY <1>0, <1>2, <1>4 DEF TypeOK, BodiesGoOn, ReadersTyped, network, server, queue, States
<1>6. CallsAreSound'  BY <1>0, <1>2 DEF CallsAreSound, Flushing, TypeOK, BodiesGoOn
<1>7. \A f \in rest'[h] : IsNext(h, f)' => KeptAfter(f.mutation, f.id)'
  <2> SUFFICES ASSUME NEW f \in rest'[h], IsNext(h, f)'
               PROVE  KeptAfter(f.mutation, f.id)'
    OBVIOUS
  <2>1. f \in rest[h] /\ IsNext(h, f)  BY <1>2 DEF IsNext
  <2>2. f.id = e.id /\ f.mutation = e.mutation  BY <1>0, <1>1, <2>1, NextIsOne
  <2>3. e.id < nextId  BY <1>0, <1>3 DEF IdsAreUnique
  <2> QED  BY <1>4, <2>2, <2>3 DEF KeptAfter
<1>8. \A g \in Handlers : pc'[g] = "dequeue" =>
        \/ pc[g] = "dequeue" /\ rest'[g] = rest[g]
        \/ \A f \in rest'[g] : IsNext(g, f)' => KeptAfter(f.mutation, f.id)'
  BY <1>0, <1>2, <1>7 DEF TypeOK
<1> QED  BY <1>2, <1>4, <1>5, <1>6, <1>8, SafeStep

LEMMA FlushSendStep ==
  ASSUME IInv, BodiesGoOn, NEW h \in Handlers, FlushSend(h)
  PROVE  IInv'
<1>0. TypeOK /\ CallsAreSound /\ IdsAreUnique  BY DEF IInv
<1>1. PICK e \in rest[h] :
        /\ IsNext(h, e)
        /\ \/ Saves(e.mutation) /\ Goto(h, "dequeue")
           \/ Fails(e.mutation) /\ Goto(h, "increment")
  BY DEF FlushSend
<1>2. pc[h] = "flush_send" /\ UNCHANGED <<webLocks, network, queue, told, evicted, reloads, alone>>
  BY DEF FlushSend
<1>3. UNCHANGED <<work, rest, owner>>  BY <1>1 DEF Goto
<1>4. e.mutation \in Mutations  BY <1>0 DEF TypeOK, Entry
<1>5. /\ Onward
      /\ saved' \in [Mutations -> Nat] /\ failures' \in 0..MaxFailures
      /\ Saves(e.mutation) => saved'[e.mutation] > 0
  BY <1>0, <1>1, <1>2, <1>4, SavingIsOnward DEF queue
<1>6. PICK next \in {"dequeue", "increment"} :
        pc' = [pc EXCEPT ![h] = next] /\ (next = "dequeue" => Saves(e.mutation))
  BY <1>1 DEF Goto
<1>7. TypeOK'
  BY <1>0, <1>2, <1>3, <1>5, <1>6 DEF TypeOK, BodiesGoOn, ReadersTyped, network, queue, States
<1>8. CallsAreSound'  BY <1>0, <1>2, <1>3, <1>6 DEF CallsAreSound, Flushing, TypeOK, BodiesGoOn
<1>9. next = "dequeue" => \A f \in rest'[h] : IsNext(h, f)' => KeptAfter(f.mutation, f.id)'
  <2> SUFFICES ASSUME next = "dequeue", NEW f \in rest'[h], IsNext(h, f)'
               PROVE  KeptAfter(f.mutation, f.id)'
    OBVIOUS
  <2>1. f \in rest[h] /\ IsNext(h, f)  BY <1>3 DEF IsNext
  <2>2. f.mutation = e.mutation  BY <1>0, <1>1, <2>1, NextIsOne
  <2> QED  BY <1>5, <1>6, <2>2 DEF KeptAfter
<1>10. \A g \in Handlers : pc'[g] = "dequeue" =>
         \/ pc[g] = "dequeue" /\ rest'[g] = rest[g]
         \/ \A f \in rest'[g] : IsNext(g, f)' => KeptAfter(f.mutation, f.id)'
  BY <1>0, <1>3, <1>6, <1>9 DEF TypeOK
<1>11. SeenBefore(NoMutation) /\ nextId' >= nextId
  BY <1>0, <1>2, <1>3 DEF SeenBefore, Seen, Listed, TypeOK, queue
<1> QED  BY <1>2, <1>5, <1>7, <1>8, <1>10, <1>11, SafeStep

\* The flush goes on with fewer entries, or ends and gives the lock back.
LEMMA LoopGoesOn ==
  ASSUME TypeOK, CallsAreSound, BodiesGoOn, NEW h \in Handlers, pc[h] \in Flushing,
         NEW left, left \subseteq rest[h], Loop(h, left)
  PROVE  /\ CallsAreSound'
         /\ pc' \in [Handlers -> States] /\ rest' \in [Handlers -> SUBSET Entry]
         /\ owner' \in Handlers \union {NoHandler} /\ work' = work
         /\ \A g \in Handlers : rest'[g] \subseteq rest[g]
         /\ \A g \in Handlers : pc'[g] = "dequeue" => pc[g] = "dequeue" /\ rest'[g] = rest[g]
<1>1. /\ rest' = [rest EXCEPT ![h] = left]
      /\ pc' = [pc EXCEPT ![h] = IF left = {} THEN "idle" ELSE "flush_item"]
      /\ owner' = IF left = {} /\ owner = h THEN NoHandler ELSE owner
      /\ work' = work
  BY DEF Loop
<1>2. /\ pc' \in [Handlers -> States] /\ rest' \in [Handlers -> SUBSET Entry]
      /\ owner' \in Handlers \union {NoHandler}
      /\ \A g \in Handlers : rest'[g] \subseteq rest[g]
  BY <1>1 DEF TypeOK, States
<1>3. CallsAreSound'
  BY <1>1 DEF CallsAreSound, Flushing, TypeOK, BodiesGoOn
<1>4. \A g \in Handlers : pc'[g] = "dequeue" => pc[g] = "dequeue" /\ rest'[g] = rest[g]
  BY <1>1 DEF TypeOK
<1> QED  BY <1>1, <1>2, <1>3, <1>4

\* What a rewrite leaves of what was seen: entries it had read, or made of them.
LEMMA RewriteSeen ==
  ASSUME TypeOK, NEW h \in Handlers, NEW list, Rewrites(h, list), nextId' = nextId,
         \A g \in Handlers : rest'[g] \subseteq rest[g],
         \A g \in list : \E f \in List(h) : f.id = g.id /\ f.mutation = g.mutation
  PROVE  SeenBefore(NoMutation)
<1>1. store' = store \/ store' = list  BY DEF Rewrites, Writes
<1>2. ReadOver(h)  BY DEF Rewrites, Writes
<1>3. \A g \in Handlers : copy'[g] \subseteq copy[g]  BY <1>2 DEF ReadOver, TypeOK
<1>4. ASSUME NEW g \in Seen'
      PROVE  g \in Seen \/ g \in list
  BY <1>1, <1>3 DEF Seen, Listed
<1>5. List(h) \subseteq Seen  BY ListIsSeen
<1> QED  BY <1>4, <1>5 DEF SeenBefore

LEMMA DequeueStep ==
  ASSUME IInv, BodiesGoOn, NEW h \in Handlers, Dequeue(h)
  PROVE  IInv'
<1>0. TypeOK /\ CallsAreSound /\ IdsAreUnique /\ RemovedIsKept  BY DEF IInv
<1>1. PICK e \in rest[h] :
        /\ IsNext(h, e)
        /\ Rewrites(h, {f \in List(h) : f.id # e.id})
        /\ Loop(h, rest[h] \ {e})
  BY DEF Dequeue
<1> DEFINE list == {f \in List(h) : f.id # e.id}
<1>2. /\ pc[h] = "dequeue"
      /\ UNCHANGED <<webLocks, network, nextId, refused, told, server, evicted, reloads, alone>>
  BY DEF Dequeue
<1>3. /\ CallsAreSound'
      /\ pc' \in [Handlers -> States] /\ rest' \in [Handlers -> SUBSET Entry]
      /\ owner' \in Handlers \union {NoHandler} /\ work' = work
      /\ \A g \in Handlers : rest'[g] \subseteq rest[g]
      /\ \A g \in Handlers : pc'[g] = "dequeue" => pc[g] = "dequeue" /\ rest'[g] = rest[g]
  BY <1>0, <1>1, <1>2, LoopGoesOn DEF Flushing
<1>4. List(h) \subseteq Entry /\ List(h) \subseteq Seen  BY <1>0, ListIsSeen
<1>5. Writes(h, list) \/ UNCHANGED <<store, overwritten>>  BY <1>1 DEF Rewrites
<1>6. store' \subseteq Entry  BY <1>0, <1>4, <1>5 DEF Writes, TypeOK
<1>7. TypeOK'
  BY <1>0, <1>2, <1>3, <1>6 DEF TypeOK, BodiesGoOn, ReadersTyped, network, server
<1>8. UNCHANGED <<saved, evicted, refused>>  BY <1>2 DEF server
<1>9. Onward
  <2>1. ASSUME Writes(h, list), NEW f \in List(h)
        PROVE  \/ \E g \in list : g.id = f.id /\ g.mutation = f.mutation
               \/ KeptAfter(f.mutation, f.id)'
    <3>1. CASE f.id # e.id  BY <3>1
    <3>2. CASE f.id = e.id
      <4>1. KeptAfter(e.mutation, e.id)  BY <1>0, <1>1, <1>2 DEF RemovedIsKept
      <4>2. f.mutation = e.mutation  BY <1>0, <1>4, <3>2 DEF IdsAreUnique, Seen
      <4>3. /\ store' = list
            /\ overwritten' = overwritten \union
                 {g.mutation : g \in {k \in store : \A d \in List(h) : d.id # k.id}}
        BY <2>1 DEF Writes
      <4>4. ASSUME NEW k \in store, k.mutation = e.mutation, k.id > e.id
            PROVE  KeptAfter(e.mutation, e.id)'
        <5>1. CASE \A d \in List(h) : d.id # k.id
          <6>1. e.mutation \in overwritten'  BY <4>3, <4>4, <5>1
          <6> QED  BY <6>1 DEF KeptAfter
        <5>2. CASE \E d \in List(h) : d.id = k.id
          <6>1. PICK d \in List(h) : d.id = k.id  BY <5>2
          <6>2. d.mutation = k.mutation  BY <1>0, <1>4, <6>1 DEF IdsAreUnique, Seen, Listed
          <6>3. k.id \in Nat /\ e.id \in Nat  BY <1>0 DEF TypeOK, Entry
          <6>4. d \in store'  BY <4>3, <4>4, <6>1, <6>3
          <6> QED  BY <4>4, <6>1, <6>2, <6>4 DEF KeptAfter
        <5> QED  BY <5>1, <5>2
      <4> QED  BY <1>8, <3>2, <4>1, <4>2, <4>3, <4>4 DEF KeptAfter
    <3> QED  BY <3>1, <3>2
  <2> HIDE DEF list
  <2> QED  BY <1>0, <1>5, <1>8, <2>1, WritingIsOnward
<1>10. \A g \in list : \E f \in List(h) : f.id = g.id /\ f.mutation = g.mutation  OBVIOUS
<1>11. SeenBefore(NoMutation) /\ nextId' >= nextId
  <2>1. Rewrites(h, list) /\ nextId' = nextId  BY <1>1, <1>2
  <2> HIDE DEF list
  <2> QED  BY <1>0, <1>3, <1>10, <2>1, RewriteSeen DEF TypeOK
<1> QED  BY <1>2, <1>3, <1>7, <1>9, <1>11, SafeStep

LEMMA IncrementRetryStep ==
  ASSUME IInv, BodiesGoOn, NEW h \in Handlers, IncrementRetry(h)
  PROVE  IInv'
<1> USE OfflineAssumption
<1>0. TypeOK /\ CallsAreSound /\ IdsAreUnique  BY DEF IInv
<1>1. PICK e \in rest[h] :
        LET others == {f \in List(h) : f.id # e.id}
            its == {f \in List(h) : f.id = e.id}
            gone == {f \in its : Spent(f)}
        IN  /\ Rewrites(h, others \union {Retried(f) : f \in its \ gone})
            /\ evicted' = evicted \union {f.mutation : f \in gone}
            /\ Loop(h, rest[h] \ {e})
  BY DEF IncrementRetry
<1> DEFINE others == {f \in List(h) : f.id # e.id}
           its == {f \in List(h) : f.id = e.id}
           gone == {f \in its : Spent(f)}
           list == others \union {Retried(f) : f \in its \ gone}
<1>2. /\ pc[h] = "increment"
      /\ UNCHANGED <<webLocks, network, nextId, refused, told, server, reloads, alone>>
  BY DEF IncrementRetry
<1>3. /\ CallsAreSound'
      /\ pc' \in [Handlers -> States] /\ rest' \in [Handlers -> SUBSET Entry]
      /\ owner' \in Handlers \union {NoHandler} /\ work' = work
      /\ \A g \in Handlers : rest'[g] \subseteq rest[g]
      /\ \A g \in Handlers : pc'[g] = "dequeue" => pc[g] = "dequeue" /\ rest'[g] = rest[g]
  BY <1>0, <1>1, <1>2, LoopGoesOn DEF Flushing
<1>4. List(h) \subseteq Entry  BY <1>0, ListIsSeen
<1>5. \A f \in List(h) : /\ f \in Entry
                         /\ Retried(f).id = f.id /\ Retried(f).mutation = f.mutation
                         /\ ~Spent(f) => Retried(f) \in Entry
  BY <1>4 DEF Entry, Retried, Spent
<1>6. /\ list \subseteq Entry
      /\ \A g \in list : \E f \in List(h) : f.id = g.id /\ f.mutation = g.mutation
      /\ \A f \in List(h) : \/ \E g \in list : g.id = f.id /\ g.mutation = f.mutation
                            \/ f \in gone
  BY <1>5
<1>7. Rewrites(h, list) /\ evicted' = evicted \union {f.mutation : f \in gone}  BY <1>1
<1>8. evicted' \subseteq Mutations /\ evicted \subseteq evicted'
  BY <1>0, <1>4, <1>7 DEF TypeOK, Entry
<1>9. \A f \in gone : KeptAfter(f.mutation, f.id)'  BY <1>7 DEF KeptAfter
<1> HIDE DEF list, gone
<1>10. Writes(h, list) \/ UNCHANGED <<store, overwritten>>  BY <1>7 DEF Rewrites
<1>11. store' \subseteq Entry  BY <1>0, <1>6, <1>10 DEF Writes, TypeOK
<1>12. TypeOK'
  BY <1>0, <1>2, <1>3, <1>8, <1>11 DEF TypeOK, BodiesGoOn, ReadersTyped, network, server
<1>13. UNCHANGED <<saved, refused>>  BY <1>2 DEF server
<1>14. Onward
  <2>1. \A f \in List(h) : \/ \E g \in list : g.id = f.id /\ g.mutation = f.mutation
                         \/ KeptAfter(f.mutation, f.id)'
    BY <1>6, <1>9
  <2>2. \A m \in Mutations : saved[m] > 0 => saved'[m] > 0  BY <1>13
  <2>3. refused \subseteq refused'  BY <1>13
  <2> QED  BY <1>0, <1>8, <1>10, <2>1, <2>2, <2>3, WritingIsOnward
<1>15. SeenBefore(NoMutation) /\ nextId' >= nextId
  BY <1>0, <1>2, <1>3, <1>6, <1>7, RewriteSeen DEF TypeOK
<1> QED  BY <1>2, <1>3, <1>12, <1>14, <1>15, SafeStep

-----------------------------------------------------------------------------
(* The browser *)

LEMMA NetworkStep ==
  ASSUME IInv, BodiesGoOn, GoOffline \/ GoOnline
  PROVE  IInv'
<1>0. TypeOK /\ CallsAreSound  BY DEF IInv
<1>1. UNCHANGED <<webLocks, queue, owner, locals, told, server, evicted, reloads, alone>>
  BY DEF GoOffline, GoOnline
<1>2. online' \in BOOLEAN /\ signalled' \subseteq Tabs /\ drops' \in 0..MaxDrops
  <2>1. MaxDrops \in Nat  BY OfflineAssumption
  <2>2. CASE GoOffline
    <3>1. /\ online' = FALSE /\ signalled' = signalled
          /\ drops < MaxDrops /\ drops' = drops + 1
      BY <2>2 DEF GoOffline
    <3>2. drops \in 0..MaxDrops /\ signalled \subseteq Tabs  BY <1>0 DEF TypeOK
    <3>3. drops' \in 0..MaxDrops  BY <2>1, <3>1, <3>2
    <3> QED  BY <3>1, <3>2, <3>3
  <2>3. CASE GoOnline  BY <1>0, <2>3 DEF GoOnline, TypeOK
  <2> QED  BY <2>2, <2>3
<1>3. TypeOK'  BY <1>0, <1>1, <1>2 DEF TypeOK, BodiesGoOn, ReadersTyped, locals, server, queue
<1>4. CallsAreSound'  BY <1>0, <1>1 DEF CallsAreSound, locals
<1>5. \A g \in Handlers : rest[g] \subseteq Seen  BY DEF Seen
<1> QED  BY <1>1, <1>3, <1>4, <1>5, QuietStep, SameList DEF locals, server

LEMMA ReloadStep ==
  ASSUME IInv, BodiesGoOn, NEW t \in Tabs, Reload(t)
  PROVE  IInv'
<1> DEFINE its == {h \in Handlers : TabOf[h] = t}
<1>0. TypeOK /\ CallsAreSound  BY DEF IInv
<1>1. /\ pc' = [h \in Handlers |-> IF h \in its THEN "idle" ELSE pc[h]]
      /\ work' = [h \in Handlers |-> IF h \in its THEN NoMutation ELSE work[h]]
      /\ rest' = [h \in Handlers |-> IF h \in its THEN {} ELSE rest[h]]
      /\ owner' = IF owner \in its THEN NoHandler ELSE owner
      /\ signalled' = signalled \ {t}
      /\ reloads < MaxReloads /\ reloads' = reloads + 1
      /\ copy' = [h \in Handlers |-> IF h \in its THEN {} ELSE copy[h]]
      /\ UNCHANGED <<webLocks, online, drops, store, nextId, refused, overwritten, told, server,
                     evicted, alone>>
  BY DEF Reload
<1>2. TypeOK'  BY <1>0, <1>1, OfflineAssumption DEF TypeOK, BodiesGoOn, ReadersTyped, server, queue, States
<1>3. CallsAreSound'  BY <1>0, <1>1 DEF CallsAreSound, Flushing, TypeOK, BodiesGoOn
<1>4. \A g \in Handlers : pc'[g] = "dequeue" => pc[g] = "dequeue" /\ rest'[g] = rest[g]
  BY <1>1
<1>5. \A g \in Handlers : rest'[g] \subseteq Seen  BY <1>1 DEF Seen
<1>6. Listed' \subseteq Listed  BY <1>1 DEF Listed
<1> QED  BY <1>1, <1>2, <1>3, <1>4, <1>5, <1>6, QuietStep DEF server

-----------------------------------------------------------------------------
(* The theorems *)

THEOREM InitIInv == Init => IInv
<1> SUFFICES ASSUME Init PROVE IInv  OBVIOUS
<1> USE OfflineAssumption DEF Init
<1>1. TypeOK  BY DEF TypeOK, States
<1>2. IdsAreUnique  BY DEF IdsAreUnique, Seen, Listed
<1>3. RemovedIsKept /\ CallsAreSound /\ ReadersAreSound /\ QueuedIsKept
  BY DEF RemovedIsKept, CallsAreSound, ReadersAreSound, Flushing, QueuedIsKept
<1> QED  BY <1>1, <1>2, <1>3 DEF IInv

THEOREM NextIInv == IInv /\ [Next]_vars => IInv'
<1> SUFFICES ASSUME IInv, [Next]_vars PROVE IInv'  OBVIOUS
<1>0. BodiesGoOn  BY BodiesStep DEF IInv
<1>1. ASSUME NEW h \in Handlers, Submit(h) \/ FlushAsk(h) \/ Proceed(h)
      PROVE  IInv'
  BY <1>0, <1>1, SubmitStep, FlushAskStep, ReadStep, EnqueueStep, SendStep, FlushReadStep,
     FlushItemStep, FlushEnqueueStep, FlushSendStep, DequeueStep, IncrementRetryStep DEF Proceed
<1>2. CASE GoOffline \/ GoOnline  BY <1>0, <1>2, NetworkStep
<1>3. CASE \E t \in Tabs : Reload(t)  BY <1>0, <1>3, ReloadStep
<1>4. CASE UNCHANGED vars
  <2>1. UNCHANGED <<webLocks, online, signalled, drops, queue, owner, pc, work, rest,
                    told, saved, failures, evicted, reloads, alone>>
    BY <1>4 DEF vars, network, locals, server
  <2>2. TypeOK' /\ CallsAreSound'  BY <2>1 DEF IInv, TypeOK, CallsAreSound, queue
  <2>3. \A g \in Handlers : rest[g] \subseteq Seen  BY DEF Seen
  <2> QED  BY <1>0, <2>1, <2>2, <2>3, QuietStep, SameList
<1> QED  BY <1>1, <1>2, <1>3, <1>4 DEF Next

\* The inductive invariant holds throughout.
THEOREM Invariance == Spec => []IInv
<1>1. Init => IInv  BY InitIInv
<1>2. IInv /\ [Next]_vars => IInv'  BY NextIInv
<1> QED  BY <1>1, <1>2, PTL DEF Spec

\* Every variable keeps its type, for any tabs, calls, mutations and bounds.
THEOREM TypeCorrect == Spec => []TypeOK
<1>1. IInv => TypeOK  BY DEF IInv
<1> QED  BY <1>1, Invariance, PTL

\* Whatever tabs, drops, reloads and failing calls do: what a user was told is queued is in
\* the list, or saved, or was evicted, unless localStorage refused it.  Where the browser has
\* no Web Locks, two tabs can each read the list and then write it, and only an entry that
\* was queued between the two of another tab is exempt.
THEOREM QueuedIsNotLost == Spec => []QueuedIsKept
<1>1. Spec => []IInv  BY Invariance
<1>2. IInv => QueuedIsKept  BY DEF IInv
<1> QED  BY <1>1, <1>2, PTL

\* Where the browser has Web Locks, no two calls flush at a time, in whatever tabs.
THEOREM OneFlushAtATime == Spec => []OneTabFlushes
<1>1. Spec => []IInv  BY Invariance
<1>2. IInv => OneTabFlushes  BY DEF IInv, CallsAreSound, OneTabFlushes
<1> QED  BY <1>1, <1>2, PTL

\* Where the browser has Web Locks, a flush that has an entry holds the lock that its
\* end waits for: no step but a reload ends it.
THEOREM FlushWaitsForReload == Spec => FlushNeedsReload
<1>1. IInv /\ [Next]_vars =>
        \A h \in Handlers :
          webLocks /\ pc[h] \in Flushing /\ pc'[h] \notin Flushing => reloads' > reloads
  <2> SUFFICES ASSUME IInv, [Next]_vars, NEW h \in Handlers, webLocks, pc[h] \in Flushing,
                      pc'[h] \notin Flushing
               PROVE  reloads' > reloads
    OBVIOUS
  <2>1. owner = h /\ h # NoHandler /\ ~LockFree
    BY OfflineAssumption DEF IInv, CallsAreSound, LockFree
  <2>2. pc \in [Handlers -> States] /\ reloads \in Nat  BY OfflineAssumption DEF IInv, TypeOK
  <2>3. pc'[h] # pc[h]  OBVIOUS
  <2>4. ASSUME NEW g \in Handlers, Submit(g) \/ FlushAsk(g) \/ Send(g)  PROVE FALSE
    BY <2>2, <2>3, <2>4 DEF Submit, FlushAsk, Send, Done, Goto, Flushing
  <2>5. ASSUME NEW g \in Handlers, FlushItem(g) \/ FlushSend(g)  PROVE FALSE
    BY <2>2, <2>3, <2>5 DEF FlushItem, FlushSend, Goto, Flushing
  <2>6. ASSUME NEW g \in Handlers,
               Enqueue(g) \/ FlushRead(g) \/ FlushEnqueue(g) \/ Dequeue(g) \/ IncrementRetry(g)
        PROVE  FALSE
    BY <2>1, <2>6 DEF Enqueue, FlushRead, FlushEnqueue, Dequeue, IncrementRetry
  <2>7. ASSUME NEW t \in Tabs, Reload(t)  PROVE reloads' > reloads
    BY <2>2, <2>7 DEF Reload
  <2>8. CASE GoOffline \/ GoOnline \/ UNCHANGED vars \/ \E g \in Handlers : Read(g)
    BY <2>3, <2>8 DEF GoOffline, GoOnline, Read, vars, locals
  <2> QED  BY <2>4, <2>5, <2>6, <2>7, <2>8 DEF Next, Proceed
<1> QED  BY <1>1, Invariance, PTL DEF Spec, FlushNeedsReload

-----------------------------------------------------------------------------
(* Evictions: each failure of the server is counted at most once *)

\* The calls about to count a failure are finitely many.
LEMMA AtIncrementFinite ==
  ASSUME NEW i
  PROVE  IsFiniteSet(AtIncrement(i)) /\ IsFiniteSet(AtIncrement(i)')
<1>1. IsFiniteSet(Handlers)  BY OfflineAssumption
<1>2. AtIncrement(i) \subseteq Handlers /\ AtIncrement(i)' \subseteq Handlers
  BY DEF AtIncrement
<1> QED  BY <1>1, <1>2, FS_Subset

\* A step that brings nobody to counting brings nobody to counting this entry.
LEMMA NoneArrive ==
  ASSUME NEW i,
         \A g \in Handlers : pc'[g] = "increment" => pc[g] = "increment" /\ rest'[g] = rest[g]
  PROVE  AtIncrement(i)' \subseteq AtIncrement(i)
BY DEF AtIncrement, IsNext

LEMMA ListedTyped == TypeOK => Listed \subseteq Entry /\ \A e \in Listed : e.tries \in Nat
BY OfflineAssumption DEF TypeOK, Listed, Entry

\* A step that evicts nothing, and leaves of each entry's failures no more to count.
LEMMA CountedStep ==
  ASSUME IInv, TypeOK', FailuresCounted, EvictedAfterFailures,
         failures' >= failures, evicted' = evicted,
         \A f \in Listed' : KindOf[f.mutation] # "scan" =>
           \/ f \in Listed /\ AtIncrement(f.id)' \subseteq AtIncrement(f.id)
           \/ f.tries = 0 /\ AtIncrement(f.id)' = {}
  PROVE  FailuresCounted' /\ EvictedAfterFailures'
<1>0. TypeOK  BY DEF IInv
<1>1. failures \in Nat /\ failures' \in Nat /\ MaxRetry \in Nat
  BY <1>0, OfflineAssumption DEF TypeOK
<1>2. EvictedAfterFailures'  BY <1>1 DEF EvictedAfterFailures
<1>3. ASSUME NEW f \in Listed', KindOf[f.mutation] # "scan"
      PROVE  f.tries + Cardinality(AtIncrement(f.id)') =< failures'
  <2>1. CASE f \in Listed /\ AtIncrement(f.id)' \subseteq AtIncrement(f.id)
    <3>1. Cardinality(AtIncrement(f.id)') =< Cardinality(AtIncrement(f.id))
      BY <2>1, AtIncrementFinite, FS_Subset
    <3>2. Cardinality(AtIncrement(f.id)') \in Nat /\ Cardinality(AtIncrement(f.id)) \in Nat
      BY AtIncrementFinite, FS_CardinalityType
    <3>3. f.tries + Cardinality(AtIncrement(f.id)) =< failures
      BY <1>3, <2>1 DEF FailuresCounted
    <3>4. f.tries \in Nat  BY <1>0, <2>1, ListedTyped DEF Entry
    <3> QED  BY <1>1, <3>1, <3>2, <3>3, <3>4
  <2>2. CASE f.tries = 0 /\ AtIncrement(f.id)' = {}
    BY <1>1, <2>2, FS_EmptySet
  <2> QED  BY <1>3, <2>1, <2>2
<1>4. FailuresCounted'
  <2>1. \A f \in Listed' : KindOf[f.mutation] # "scan" =>
          f.tries + Cardinality(AtIncrement(f.id)') =< failures'
    BY <1>3
  <2> QED  BY <2>1 DEF FailuresCounted
<1> QED  BY <1>2, <1>4

\* A step of a call that leaves the queue as it is, and counts nothing.
LEMMA CountedQuiet ==
  ASSUME IInv, TypeOK', FailuresCounted, EvictedAfterFailures,
         failures' >= failures, evicted' = evicted, Listed' \subseteq Listed,
         \A g \in Handlers : pc'[g] = "increment" => pc[g] = "increment" /\ rest'[g] = rest[g]
  PROVE  FailuresCounted' /\ EvictedAfterFailures'
<1>1. \A f \in Listed' : f \in Listed /\ AtIncrement(f.id)' \subseteq AtIncrement(f.id)
  BY NoneArrive
<1> QED  BY <1>1, CountedStep

\* The list and its copies gain the entry pushed, and nothing else.
LEMMA PushListed ==
  ASSUME TypeOK, NEW h \in Handlers, NEW m, Push(h, m)
  PROVE  Listed' \subseteq Listed \union {[id |-> nextId, mutation |-> m, tries |-> 0]}
<1>1. ReadOver(h)  BY DEF Push, Writes
<1>2. \A g \in Handlers : copy'[g] \subseteq copy[g]  BY <1>1 DEF ReadOver, TypeOK
<1>3. List(h) \subseteq Listed  BY ListIsSeen
<1>4. store' = store \/ store' = List(h) \union {[id |-> nextId, mutation |-> m, tries |-> 0]}
  BY DEF Push, Writes
<1> QED  BY <1>2, <1>3, <1>4 DEF Listed

\* The entry pushed has an id no call has read.
LEMMA CountedPush ==
  ASSUME IInv, TypeOK', FailuresCounted, EvictedAfterFailures,
         NEW h \in Handlers, NEW m \in Mutations, Push(h, m), failures' = failures, evicted' = evicted, rest' = rest,
         \A g \in Handlers : pc'[g] = "increment" => pc[g] = "increment"
  PROVE  FailuresCounted' /\ EvictedAfterFailures'
<1>0. TypeOK /\ IdsAreUnique  BY DEF IInv
<1>1. \A i : AtIncrement(i)' \subseteq AtIncrement(i)  BY NoneArrive
<1>2. nextId \in Nat /\ failures \in Nat  BY <1>0, OfflineAssumption DEF TypeOK
<1>3. AtIncrement(nextId) = {}
  <2>1. ASSUME NEW g \in Handlers, NEW e \in rest[g]
        PROVE  e.id # nextId
    <3>1. e \in Seen /\ e.id \in Nat  BY <1>0 DEF Seen, Listed, TypeOK, Entry
    <3> QED  BY <1>0, <1>2, <3>1 DEF IdsAreUnique
  <2> QED  BY <2>1 DEF AtIncrement
<1>4. ASSUME NEW f \in Listed'
      PROVE  \/ f \in Listed /\ AtIncrement(f.id)' \subseteq AtIncrement(f.id)
             \/ f.tries = 0 /\ AtIncrement(f.id)' = {}
  <2>1. CASE f \in Listed  BY <1>1, <2>1
  <2>2. CASE f = [id |-> nextId, mutation |-> m, tries |-> 0]
    <3>1. f.id = nextId /\ f.tries = 0  BY <2>2
    <3>2. AtIncrement(f.id) = {}  BY <1>3, <3>1
    <3>3. AtIncrement(f.id)' \subseteq AtIncrement(f.id)  BY <1>1
    <3>4. AtIncrement(f.id)' = {}  BY <3>2, <3>3
    <3> QED  BY <3>1, <3>4
  <2> QED  BY <1>0, <2>1, <2>2, PushListed
<1> QED  BY <1>2, <1>4, CountedStep

\* A call of the server fails on one entry: one failure more, and one call more
\* that is to count it.
LEMMA CountedSend ==
  ASSUME IInv, TypeOK', FailuresCounted, EvictedAfterFailures,
         NEW h \in Handlers, FlushSend(h)
  PROVE  FailuresCounted' /\ EvictedAfterFailures'
<1>0. TypeOK  BY DEF IInv
<1>1. PICK e \in rest[h] :
        \/ Saves(e.mutation) /\ Goto(h, "dequeue")
        \/ Fails(e.mutation) /\ Goto(h, "increment")
  BY DEF FlushSend
<1>2. Listed' = Listed /\ evicted' = evicted /\ rest' = rest
  BY <1>1, SameList DEF FlushSend, Goto
<1>3. failures \in Nat /\ failures' \in Nat /\ MaxRetry \in Nat
  BY <1>0, OfflineAssumption DEF TypeOK
<1>4. CASE Saves(e.mutation) /\ Goto(h, "dequeue")
  <2>1. failures' = failures  BY <1>4 DEF Saves
  <2>2. \A g \in Handlers : pc'[g] = "increment" => pc[g] = "increment"
    BY <1>0, <1>4 DEF Goto, TypeOK
  <2> QED  BY <1>2, <1>3, <2>1, <2>2, CountedQuiet
<1>5. CASE Fails(e.mutation) /\ Goto(h, "increment")
  <2>1. failures' = failures + 1  BY <1>5 DEF Fails
  <2>2. \A g \in Handlers \ {h} : pc'[g] = pc[g]  BY <1>0, <1>5 DEF Goto, TypeOK
  <2>3. ASSUME NEW f \in Listed, KindOf[f.mutation] # "scan"
        PROVE  f.tries + Cardinality(AtIncrement(f.id)') =< failures'
    <3> DEFINE before == AtIncrement(f.id)
    <3>1. AtIncrement(f.id)' \subseteq before \union {h}
      BY <1>2, <2>2 DEF AtIncrement, IsNext
    <3>2. IsFiniteSet(before) /\ Cardinality(before) \in Nat
      BY AtIncrementFinite, FS_CardinalityType
    <3>3. /\ IsFiniteSet(before \union {h})
          /\ Cardinality(before \union {h}) \in Nat
          /\ Cardinality(before \union {h}) =< Cardinality(before) + 1
      <4>1. /\ IsFiniteSet(before \union {h})
            /\ Cardinality(before \union {h}) =
                 IF h \in before THEN Cardinality(before) ELSE Cardinality(before) + 1
        BY <3>2, FS_AddElement
      <4> HIDE DEF before
      <4> QED  BY <3>2, <4>1
    <3>4. /\ Cardinality(AtIncrement(f.id)') =< Cardinality(before \union {h})
          /\ Cardinality(AtIncrement(f.id)') \in Nat
      BY <3>1, <3>3, AtIncrementFinite, FS_Subset, FS_CardinalityType
    <3>5. f.tries + Cardinality(before) =< failures  BY <2>3 DEF FailuresCounted
    <3>6. f.tries \in Nat  BY <1>0, ListedTyped
    <3> HIDE DEF before
    <3> QED  BY <1>3, <2>1, <3>2, <3>3, <3>4, <3>5, <3>6
  <2>4. FailuresCounted'
    <3>1. \A f \in Listed' : KindOf[f.mutation] # "scan" =>
            f.tries + Cardinality(AtIncrement(f.id)') =< failures'
      BY <1>2, <2>3
    <3> QED  BY <3>1 DEF FailuresCounted
  <2>5. EvictedAfterFailures'  BY <1>2, <1>3, <2>1 DEF EvictedAfterFailures
  <2> QED  BY <2>4, <2>5
<1> QED  BY <1>1, <1>4, <1>5

\* A scan of a flush goes to counting, and its id is no other mutation's.
LEMMA CountedItem ==
  ASSUME IInv, TypeOK', FailuresCounted, EvictedAfterFailures,
         NEW h \in Handlers, FlushItem(h)
  PROVE  FailuresCounted' /\ EvictedAfterFailures'
<1>0. TypeOK /\ IdsAreUnique  BY DEF IInv
<1>1. PICK e \in rest[h] :
        /\ IsNext(h, e)
        /\ Goto(h, CASE KindOf[e.mutation] = "scan" -> "increment"
                     [] KindOf[e.mutation] # "scan" /\ ~online -> "flush_enqueue"
                     [] KindOf[e.mutation] # "scan" /\ online -> "flush_send")
  BY DEF FlushItem
<1>2. Listed' = Listed /\ UNCHANGED <<evicted, failures, rest>>
  BY <1>1, SameList DEF FlushItem, server, Goto
<1>3. failures \in Nat  BY <1>0, OfflineAssumption DEF TypeOK
<1>4. \A g \in Handlers \ {h} : pc'[g] = pc[g]  BY <1>0, <1>1 DEF Goto, TypeOK
<1>5. KindOf[e.mutation] # "scan" => pc'[h] # "increment"
  <2>1. online \in BOOLEAN  BY <1>0 DEF TypeOK
  <2>2. KindOf[e.mutation] # "scan" => Goto(h, "flush_enqueue") \/ Goto(h, "flush_send")
    BY <1>1, <2>1
  <2> QED  BY <1>0, <2>2 DEF Goto, TypeOK
<1>6. ASSUME NEW f \in Listed, KindOf[f.mutation] # "scan"
      PROVE  AtIncrement(f.id)' \subseteq AtIncrement(f.id)
  <2> SUFFICES ASSUME NEW g \in AtIncrement(f.id)'
               PROVE  g \in AtIncrement(f.id)
    OBVIOUS
  <2>1. g \in Handlers /\ pc'[g] = "increment"  BY DEF AtIncrement
  <2>2. PICK d \in rest[g] : IsNext(g, d) /\ d.id = f.id  BY <1>2 DEF AtIncrement, IsNext
  <2>3. CASE g # h  BY <1>4, <2>1, <2>2, <2>3 DEF AtIncrement
  <2>4. CASE g = h
    <3>1. d.mutation = e.mutation  BY <1>0, <1>1, <2>2, <2>4, NextIsOne
    <3>2. d.mutation = f.mutation  BY <1>0, <2>1, <2>2 DEF IdsAreUnique, Seen, Listed
    <3> QED  BY <1>5, <1>6, <2>1, <2>4, <3>1, <3>2
  <2> QED  BY <2>3, <2>4
<1> QED  BY <1>2, <1>3, <1>6, CountedStep

\* A failure is counted: one call less is to count it, and the entry shows one try
\* more, or is evicted for it.
LEMMA CountedIncrement ==
  ASSUME IInv, TypeOK', FailuresCounted, EvictedAfterFailures,
         NEW h \in Handlers, IncrementRetry(h)
  PROVE  FailuresCounted' /\ EvictedAfterFailures'
<1>0. TypeOK /\ CallsAreSound  BY DEF IInv
<1>1. PICK e \in rest[h] :
        LET others == {f \in List(h) : f.id # e.id}
            its == {f \in List(h) : f.id = e.id}
            gone == {f \in its : Spent(f)}
        IN  /\ IsNext(h, e)
            /\ Rewrites(h, others \union {Retried(f) : f \in its \ gone})
            /\ evicted' = evicted \union {f.mutation : f \in gone}
            /\ Loop(h, rest[h] \ {e})
  BY DEF IncrementRetry
<1>2. pc[h] = "increment" /\ failures' = failures  BY DEF IncrementRetry, server
<1>3. failures \in Nat /\ MaxRetry \in Nat  BY <1>0, OfflineAssumption DEF TypeOK
<1>4. /\ pc'[h] # "increment"
      /\ \A g \in Handlers \ {h} : pc'[g] = pc[g] /\ rest'[g] = rest[g]
  BY <1>0, <1>1 DEF Loop, TypeOK
<1>5. \A i : AtIncrement(i)' \subseteq AtIncrement(i) \ {h}
  BY <1>4 DEF AtIncrement, IsNext
<1>6. ASSUME NEW f \in Listed, f.id = e.id, KindOf[f.mutation] # "scan"
      PROVE  /\ f.tries \in Nat
             /\ f.tries + 1 + Cardinality(AtIncrement(f.id)') =< failures
             /\ f.tries + 1 =< failures
  <2> DEFINE before == AtIncrement(f.id)
  <2>1. h \in before  BY <1>1, <1>2, <1>6 DEF AtIncrement
  <2>2. IsFiniteSet(before) /\ Cardinality(before) \in Nat
    BY AtIncrementFinite, FS_CardinalityType
  <2>3. IsFiniteSet(before \ {h}) /\ Cardinality(before \ {h}) = Cardinality(before) - 1
    BY <2>1, <2>2, FS_RemoveElement
  <2>4. /\ Cardinality(AtIncrement(f.id)') =< Cardinality(before \ {h})
        /\ Cardinality(AtIncrement(f.id)') \in Nat
    BY <1>5, <2>3, AtIncrementFinite, FS_Subset, FS_CardinalityType
  <2>5. f.tries + Cardinality(before) =< failures  BY <1>6 DEF FailuresCounted
  <2>6. f.tries \in Nat  BY <1>0, ListedTyped
  <2> HIDE DEF before
  <2> QED  BY <1>3, <2>2, <2>3, <2>4, <2>5, <2>6
<1>7. EvictedAfterFailures'
  <2> SUFFICES ASSUME NEW m \in evicted', KindOf[m] # "scan"
               PROVE  failures' >= MaxRetry
    BY DEF EvictedAfterFailures
  <2>1. CASE m \in evicted  BY <1>2, <2>1 DEF EvictedAfterFailures
  <2>2. CASE \E f \in Listed : f.id = e.id /\ Spent(f) /\ m = f.mutation
    BY <1>2, <1>3, <1>6, <2>2 DEF Spent
  <2>3. List(h) \subseteq Listed  BY <1>0, ListIsSeen
  <2> QED  BY <1>1, <2>1, <2>2, <2>3
<1>10. ASSUME NEW f \in Listed'
       PROVE  f \in Listed \/ \E g \in Listed : g.id = e.id /\ f = Retried(g)
  <2>1. ReadOver(h)  BY <1>1 DEF Rewrites, Writes
  <2>2. \A g \in Handlers : copy'[g] \subseteq copy[g]  BY <1>0, <2>1 DEF ReadOver, TypeOK
  <2>3. List(h) \subseteq Listed  BY <1>0, ListIsSeen
  <2>4. \A g \in store' : g \in store \/ g \in List(h)
                          \/ \E k \in List(h) : k.id = e.id /\ g = Retried(k)
    BY <1>1 DEF Rewrites, Writes
  <2> QED  BY <2>2, <2>3, <2>4 DEF Listed
<1>8. ASSUME NEW f \in Listed', KindOf[f.mutation] # "scan"
      PROVE  f.tries + Cardinality(AtIncrement(f.id)') =< failures'
  <2>1. CASE f \in Listed
    <3>1. AtIncrement(f.id)' \subseteq AtIncrement(f.id)  BY <1>5
    <3>2. Cardinality(AtIncrement(f.id)') =< Cardinality(AtIncrement(f.id))
      BY <3>1, AtIncrementFinite, FS_Subset
    <3>3. Cardinality(AtIncrement(f.id)') \in Nat /\ Cardinality(AtIncrement(f.id)) \in Nat
      BY AtIncrementFinite, FS_CardinalityType
    <3>4. f.tries + Cardinality(AtIncrement(f.id)) =< failures
      BY <1>8, <2>1 DEF FailuresCounted
    <3>5. f.tries \in Nat  BY <1>0, <2>1, ListedTyped
    <3> QED  BY <1>2, <1>3, <3>2, <3>3, <3>4, <3>5
  <2>2. CASE \E g \in Listed : g.id = e.id /\ f = Retried(g)
    <3>1. PICK g \in Listed : g.id = e.id /\ f = Retried(g)  BY <2>2
    <3>2. f.id = g.id /\ f.mutation = g.mutation /\ f.tries = g.tries + 1
      BY <3>1 DEF Retried
    <3>3. g.tries + 1 + Cardinality(AtIncrement(g.id)') =< failures
      BY <1>6, <1>8, <3>1, <3>2
    <3> QED  BY <1>2, <3>2, <3>3
  <2> QED  BY <1>10, <2>1, <2>2
<1>9. FailuresCounted'
  <2>1. \A f \in Listed' : KindOf[f.mutation] # "scan" =>
          f.tries + Cardinality(AtIncrement(f.id)') =< failures'
    BY <1>8
  <2> QED  BY <2>1 DEF FailuresCounted
<1> QED  BY <1>7, <1>9

LEMMA CountedNext ==
  ASSUME IInv, TypeOK', [Next]_vars, FailuresCounted, EvictedAfterFailures
  PROVE  FailuresCounted' /\ EvictedAfterFailures'
<1>0. TypeOK /\ CallsAreSound  BY DEF IInv
<1>1. failures \in Nat /\ failures' \in Nat  BY <1>0, OfflineAssumption DEF TypeOK
<1>2. ASSUME NEW h \in Handlers, Submit(h)
      PROVE  FailuresCounted' /\ EvictedAfterFailures'
  <2>1. /\ pc' = [pc EXCEPT ![h] = "send"] \/ pc' = [pc EXCEPT ![h] = "enqueue"]
        /\ Listed' \subseteq Listed /\ UNCHANGED <<rest, failures, evicted>>
    BY <1>2, SameList DEF Submit, server
  <2>2. \A g \in Handlers : pc'[g] = "increment" => pc[g] = "increment"
    BY <1>0, <2>1 DEF TypeOK
  <2> QED  BY <1>1, <2>1, <2>2, CountedQuiet
<1>3. ASSUME NEW h \in Handlers, FlushAsk(h)
      PROVE  FailuresCounted' /\ EvictedAfterFailures'
  <2>1. /\ pc' = [pc EXCEPT ![h] = "flush_ask"]
        /\ Listed' \subseteq Listed /\ UNCHANGED <<rest, failures, evicted>>
    BY <1>3, SameList DEF FlushAsk, Goto, server
  <2>2. \A g \in Handlers : pc'[g] = "increment" => pc[g] = "increment"
    BY <1>0, <2>1 DEF TypeOK
  <2> QED  BY <1>1, <2>1, <2>2, CountedQuiet
<1>4. ASSUME NEW h \in Handlers, Enqueue(h)
      PROVE  FailuresCounted' /\ EvictedAfterFailures'
  <2>1. /\ pc[h] = "enqueue" /\ Push(h, work[h]) /\ pc' = [pc EXCEPT ![h] = "idle"]
        /\ UNCHANGED <<rest, failures, evicted>>
    BY <1>4 DEF Enqueue, Done, server
  <2>2. work[h] \in Mutations  BY <1>0, <2>1 DEF CallsAreSound
  <2>3. \A g \in Handlers : pc'[g] = "increment" => pc[g] = "increment"
    BY <1>0, <2>1 DEF TypeOK
  <2> QED  BY <2>1, <2>2, <2>3, CountedPush
<1>5. ASSUME NEW h \in Handlers, Send(h)
      PROVE  FailuresCounted' /\ EvictedAfterFailures'
  <2>1. /\ pc' = [pc EXCEPT ![h] = "idle"]
        /\ Listed' \subseteq Listed /\ UNCHANGED <<rest, evicted>>
        /\ failures' >= failures
    BY <1>1, <1>5, SameList DEF Send, Done, Saves, Fails
  <2>2. \A g \in Handlers : pc'[g] = "increment" => pc[g] = "increment"
    BY <1>0, <2>1 DEF TypeOK
  <2> QED  BY <2>1, <2>2, CountedQuiet
<1>6. ASSUME NEW h \in Handlers, FlushRead(h)
      PROVE  FailuresCounted' /\ EvictedAfterFailures'
  <2>1. /\ rest' = [rest EXCEPT ![h] = store]
        /\ pc' = [pc EXCEPT ![h] = IF store = {} THEN "idle" ELSE "flush_item"]
        /\ Listed' \subseteq Listed /\ UNCHANGED <<failures, evicted>>
    BY <1>6, SameList DEF FlushRead, server
  <2>2. \A g \in Handlers : pc'[g] = "increment" => pc[g] = "increment" /\ rest'[g] = rest[g]
    BY <1>0, <2>1 DEF TypeOK
  <2> QED  BY <1>1, <2>1, <2>2, CountedQuiet
<1>7. ASSUME NEW h \in Handlers, FlushEnqueue(h)
      PROVE  FailuresCounted' /\ EvictedAfterFailures'
  <2>1. PICK e \in rest[h] : Push(h, e.mutation)  BY <1>7 DEF FlushEnqueue
  <2>2. /\ pc' = [pc EXCEPT ![h] = "dequeue"]
        /\ UNCHANGED <<rest, failures, evicted>>
    BY <1>7 DEF FlushEnqueue, Goto, server
  <2>3. e.mutation \in Mutations  BY <1>0 DEF TypeOK, Entry
  <2>4. \A g \in Handlers : pc'[g] = "increment" => pc[g] = "increment"
    BY <1>0, <2>2 DEF TypeOK
  <2> QED  BY <2>1, <2>2, <2>3, <2>4, CountedPush
<1>8. ASSUME NEW h \in Handlers, Dequeue(h)
      PROVE  FailuresCounted' /\ EvictedAfterFailures'
  <2>1. PICK e \in rest[h] :
          Rewrites(h, {f \in List(h) : f.id # e.id}) /\ Loop(h, rest[h] \ {e})
    BY <1>8 DEF Dequeue
  <2>2. UNCHANGED <<failures, evicted>>  BY <1>8 DEF Dequeue, server
  <2>3. \A g \in Handlers : pc'[g] = "increment" => pc[g] = "increment" /\ rest'[g] = rest[g]
    BY <1>0, <2>1 DEF Loop, TypeOK
  <2>4. List(h) \subseteq Listed  BY <1>0, ListIsSeen
  <2>5. ReadOver(h) /\ store' \subseteq Listed
    BY <2>1, <2>4 DEF Rewrites, Writes, Listed
  <2> QED  BY <1>0, <1>1, <2>2, <2>3, <2>5, OverLeavesOthers, CountedQuiet
<1>9. CASE GoOffline \/ GoOnline
  <2>1. Listed' \subseteq Listed /\ UNCHANGED <<failures, evicted, pc, rest>>
    BY <1>9, SameList DEF GoOffline, GoOnline, server, locals
  <2> QED  BY <1>1, <2>1, CountedQuiet
<1>10. CASE \E t \in Tabs : Reload(t)
  <2>1. PICK t \in Tabs : Reload(t)  BY <1>10
  <2>2. UNCHANGED <<failures, evicted>>  BY <2>1 DEF Reload, server
  <2>4. Listed' \subseteq Listed  BY <2>1 DEF Reload, Listed
  <2>3. \A g \in Handlers : pc'[g] = "increment" => pc[g] = "increment" /\ rest'[g] = rest[g]
    BY <2>1 DEF Reload
  <2> QED  BY <1>1, <2>2, <2>3, <2>4, CountedQuiet
<1>11. CASE UNCHANGED vars
  <2>1. Listed' \subseteq Listed /\ UNCHANGED <<failures, evicted, pc, rest>>
    BY <1>11, SameList DEF vars, server, locals
  <2> QED  BY <1>1, <2>1, CountedQuiet
<1>12. ASSUME NEW h \in Handlers, Read(h)
       PROVE  FailuresCounted' /\ EvictedAfterFailures'
  <2>1. copy' = [copy EXCEPT ![h] = store] /\ UNCHANGED <<store, failures, evicted, pc, rest>>
    BY <1>12 DEF Read, server, locals
  <2>2. Listed' \subseteq Listed  BY <1>0, <2>1 DEF Listed, TypeOK
  <2> QED  BY <1>1, <2>1, <2>2, CountedQuiet
<1> QED  BY <1>2, <1>3, <1>4, <1>5, <1>6, <1>7, <1>8, <1>9, <1>10, <1>11, <1>12,
             CountedSend, CountedItem, CountedIncrement DEF Next, Proceed

\* Whatever tabs, drops and reloads do, with and without Web Locks, a transaction or a
\* receipt is given up only when the server's calls have failed MAX_RETRY times:
\* two flushes that count the same entry count two failures, never one twice.
THEOREM EvictedJustly == Spec => []EvictedAfterFailures
<1>1. Init => FailuresCounted /\ EvictedAfterFailures
  BY DEF Init, FailuresCounted, EvictedAfterFailures, Listed
<1>2. IInv /\ IInv' /\ [Next]_vars /\ FailuresCounted /\ EvictedAfterFailures
        => FailuresCounted' /\ EvictedAfterFailures'
  BY CountedNext DEF IInv
<1>3. Spec => []IInv  BY Invariance
<1> QED  BY <1>1, <1>2, <1>3, PTL DEF Spec

-----------------------------------------------------------------------------
(* Mutations: what a user's call works on, nobody else does *)

\* A step that adds entries of m0 only, saves only m0 or what has an entry, tells of m0
\* only, and brings no other call to work on m0.
LEMMA OwnStep ==
  ASSUME IInv, IInv', CallsOwnMutations, NEW m0, SeenBefore(m0),
         \A m \in Mutations : m # m0 => told'[m] = told[m]
           /\ ((\A e \in Seen : e.mutation # m) => saved'[m] = saved[m]),
         m0 \in Mutations => told'[m0] # "nothing",
         \A g \in Handlers : pc'[g] \in {"enqueue", "send"} =>
           pc[g] \in {"enqueue", "send"} /\ work'[g] = work[g] /\ work[g] # m0
  PROVE  CallsOwnMutations'
<1>1. \A m \in Mutations : m # m0 /\ (\A e \in Seen : e.mutation # m) =>
        \A e \in Seen' : e.mutation # m
  BY DEF SeenBefore
<1>2. ASSUME NEW m \in Mutations, told'[m] = "nothing"
      PROVE  saved'[m] = 0 /\ \A e \in Seen' : e.mutation # m
  BY <1>1, <1>2 DEF CallsOwnMutations
<1>3. ASSUME NEW h \in Handlers, pc'[h] \in {"enqueue", "send"}
      PROVE  /\ told'[work'[h]] = "pending" /\ saved'[work'[h]] = 0
             /\ \A e \in Seen' : e.mutation # work'[h]
             /\ \A g \in Handlers :
                  pc'[g] \in {"enqueue", "send"} /\ work'[g] = work'[h] => g = h
  <2>1. pc[h] \in {"enqueue", "send"} /\ work'[h] = work[h] /\ work[h] # m0  BY <1>3
  <2>2. work[h] \in Mutations  BY <2>1 DEF IInv, CallsAreSound
  <2>3. /\ told[work[h]] = "pending" /\ saved[work[h]] = 0
        /\ \A e \in Seen : e.mutation # work[h]
    BY <2>1 DEF CallsOwnMutations
  <2>4. /\ told'[work[h]] = "pending" /\ saved'[work[h]] = 0
        /\ \A e \in Seen' : e.mutation # work[h]
    BY <1>1, <2>1, <2>2, <2>3
  <2>5. \A g \in Handlers :
          pc'[g] \in {"enqueue", "send"} /\ work'[g] = work'[h] => g = h
    BY <2>1 DEF CallsOwnMutations
  <2> QED  BY <2>1, <2>4, <2>5
<1> QED  BY <1>2, <1>3 DEF CallsOwnMutations

\* A step that saves nothing, queues nothing of its own and tells nothing.
LEMMA OwnQuiet ==
  ASSUME IInv, IInv', CallsOwnMutations, UNCHANGED <<told, saved>>, SeenBefore(NoMutation),
         nextId' = nextId,
         \A g \in Handlers : pc'[g] \in {"enqueue", "send"} =>
           pc[g] \in {"enqueue", "send"} /\ work'[g] = work[g]
  PROVE  CallsOwnMutations'
<1>1. \A g \in Handlers : pc[g] \in {"enqueue", "send"} => work[g] # NoMutation
  BY OfflineAssumption DEF IInv, CallsAreSound
<1>2. NoMutation \notin Mutations  BY OfflineAssumption
<1> QED  BY <1>1, <1>2, OwnStep

LEMMA OwnSubmit ==
  ASSUME IInv, IInv', CallsOwnMutations, NEW h \in Handlers, Submit(h)
  PROVE  CallsOwnMutations'
<1>0. TypeOK  BY DEF IInv
<1>1. PICK m \in Mutations :
        /\ told[m] = "nothing" /\ told' = [told EXCEPT ![m] = "pending"]
        /\ work' = [work EXCEPT ![h] = m]
        /\ pc' = [pc EXCEPT ![h] = IF online THEN "send" ELSE "enqueue"]
  BY DEF Submit
<1>2. UNCHANGED <<rest, saved>> /\ pc[h] = "idle"  BY DEF Submit, server
<1>3. Seen' = Seen  BY <1>2, SameList DEF Submit, Seen
<1>4. saved[m] = 0 /\ \A e \in Seen : e.mutation # m  BY <1>1 DEF CallsOwnMutations
<1>5. /\ told'[m] = "pending" /\ work'[h] = m
      /\ \A k \in Mutations : k # m => told'[k] = told[k]
      /\ \A g \in Handlers : g # h => pc'[g] = pc[g] /\ work'[g] = work[g]
  BY <1>0, <1>1 DEF TypeOK
<1>6. \A g \in Handlers : g # h /\ pc[g] \in {"enqueue", "send"} =>
        work[g] # m /\ work[g] \in Mutations
  BY <1>1 DEF CallsOwnMutations, IInv, CallsAreSound
<1>7. \A k \in Mutations : told'[k] = "nothing" =>
        saved'[k] = 0 /\ \A e \in Seen' : e.mutation # k
  BY <1>2, <1>3, <1>5 DEF CallsOwnMutations
<1>8. ASSUME NEW g \in Handlers, pc'[g] \in {"enqueue", "send"}
      PROVE  /\ told'[work'[g]] = "pending" /\ saved'[work'[g]] = 0
             /\ \A e \in Seen' : e.mutation # work'[g]
             /\ \A f \in Handlers :
                  pc'[f] \in {"enqueue", "send"} /\ work'[f] = work'[g] => f = g
  <2>1. CASE g = h  BY <1>2, <1>3, <1>4, <1>5, <1>6, <2>1
  <2>2. CASE g # h  BY <1>2, <1>3, <1>5, <1>6, <1>8, <2>2 DEF CallsOwnMutations
  <2> QED  BY <2>1, <2>2
<1> QED  BY <1>7, <1>8 DEF CallsOwnMutations

\* Pushing m is pushing an entry of m, or refusing it.
LEMMA PushSeen ==
  ASSUME TypeOK, NEW h \in Handlers, NEW m \in Mutations, Push(h, m), rest' = rest
  PROVE  SeenBefore(m)
<1> DEFINE new == [id |-> nextId, mutation |-> m, tries |-> 0]
<1>1. Listed' \subseteq Listed \union {new}  BY PushListed
<1>2. CASE nextId' = nextId + 1
  <2>1. Seen' \subseteq Seen \union {new}  BY <1>1 DEF Seen
  <2>2. new.id = nextId /\ new.mutation = m  OBVIOUS
  <2> HIDE DEF new
  <2> QED  BY <1>2, <2>1, <2>2 DEF SeenBefore
<1>3. CASE ReadOver(h) /\ store' = store
  <2>1. Listed' \subseteq Listed  BY <1>3, OverLeavesOthers DEF Listed
  <2> QED  BY <2>1 DEF SeenBefore, Seen
<1> QED  BY <1>2, <1>3 DEF Push

\* A step that leaves the list, and reads nothing new to send.
LEMMA SeenAsBefore ==
  ASSUME NEW m, Listed' \subseteq Listed,
         \A g \in Handlers : rest'[g] \subseteq rest[g] \union Listed
  PROVE  SeenBefore(m)
BY DEF SeenBefore, Seen

LEMMA OwnEnqueue ==
  ASSUME IInv, IInv', CallsOwnMutations, NEW h \in Handlers, Enqueue(h)
  PROVE  CallsOwnMutations'
<1>0. TypeOK  BY DEF IInv
<1>1. /\ pc[h] = "enqueue" /\ Push(h, work[h]) /\ told' = [told EXCEPT ![work[h]] = "queued"]
      /\ pc' = [pc EXCEPT ![h] = "idle"] /\ work' = [work EXCEPT ![h] = NoMutation]
      /\ UNCHANGED <<rest, saved>>
  BY DEF Enqueue, Done, server
<1>2. work[h] \in Mutations  BY <1>1 DEF IInv, CallsAreSound
<1>3. SeenBefore(work[h])  BY <1>0, <1>1, <1>2, PushSeen
<1>4. /\ told'[work[h]] # "nothing"
      /\ \A m \in Mutations : m # work[h] => told'[m] = told[m]
  BY <1>0, <1>1, <1>2 DEF TypeOK
<1>5. \A g \in Handlers : pc'[g] \in {"enqueue", "send"} =>
        pc[g] \in {"enqueue", "send"} /\ work'[g] = work[g] /\ work[g] # work[h]
  BY <1>0, <1>1 DEF TypeOK, CallsOwnMutations
<1> QED  BY <1>1, <1>3, <1>4, <1>5, OwnStep

LEMMA OwnSend ==
  ASSUME IInv, IInv', CallsOwnMutations, NEW h \in Handlers, Send(h)
  PROVE  CallsOwnMutations'
<1>0. TypeOK  BY DEF IInv
<1>1. /\ pc[h] = "send" /\ (Saves(work[h]) \/ Fails(work[h]))
      /\ told' = [told EXCEPT ![work[h]] = "saved"] \/ told' = [told EXCEPT ![work[h]] = "failed"]
      /\ pc' = [pc EXCEPT ![h] = "idle"] /\ work' = [work EXCEPT ![h] = NoMutation]
      /\ UNCHANGED rest /\ Listed' \subseteq Listed
  BY SameList DEF Send, Done
<1>2. work[h] \in Mutations  BY <1>1 DEF IInv, CallsAreSound
<1>3. SeenBefore(work[h])  BY <1>1, SeenAsBefore
<1>4. /\ told'[work[h]] # "nothing"
      /\ \A m \in Mutations : m # work[h] => told'[m] = told[m] /\ saved'[m] = saved[m]
  BY <1>0, <1>1, <1>2 DEF TypeOK, Saves, Fails
<1>5. \A g \in Handlers : pc'[g] \in {"enqueue", "send"} =>
        pc[g] \in {"enqueue", "send"} /\ work'[g] = work[g] /\ work[g] # work[h]
  BY <1>0, <1>1 DEF TypeOK, CallsOwnMutations
<1> QED  BY <1>3, <1>4, <1>5, OwnStep

\* A step of a flush works on what has an entry, which no user's call works on.
LEMMA OwnFlush ==
  ASSUME IInv, IInv', CallsOwnMutations, NEW h \in Handlers, NEW e \in rest[h],
         SeenBefore(e.mutation), UNCHANGED <<told, work>>,
         \A m \in Mutations : m # e.mutation => saved'[m] = saved[m],
         \A g \in Handlers : pc'[g] \in {"enqueue", "send"} => pc[g] \in {"enqueue", "send"}
  PROVE  CallsOwnMutations'
<1>1. e \in Seen  BY DEF Seen, Listed
<1>2. e.mutation \in Mutations  BY DEF IInv, TypeOK, Entry
<1>3. told[e.mutation] # "nothing"  BY <1>1, <1>2 DEF CallsOwnMutations
<1>4. \A g \in Handlers : pc[g] \in {"enqueue", "send"} => work[g] # e.mutation
  BY <1>1 DEF CallsOwnMutations
<1> QED  BY <1>3, <1>4, OwnStep

LEMMA OwnNext ==
  ASSUME IInv, IInv', CallsOwnMutations, [Next]_vars
  PROVE  CallsOwnMutations'
<1>0. TypeOK  BY DEF IInv
<1>1. ASSUME NEW h \in Handlers, FlushAsk(h)
      PROVE  CallsOwnMutations'
  <2>1. /\ pc' = [pc EXCEPT ![h] = "flush_ask"]
        /\ Listed' \subseteq Listed /\ UNCHANGED <<nextId, rest, work, saved, told>>
    BY <1>1, SameList DEF FlushAsk, Goto, server
  <2>2. SeenBefore(NoMutation)  BY <2>1, SeenAsBefore
  <2> QED  BY <1>0, <2>1, <2>2, OwnQuiet DEF TypeOK
<1>2. ASSUME NEW h \in Handlers, FlushRead(h)
      PROVE  CallsOwnMutations'
  <2>1. /\ pc' = [pc EXCEPT ![h] = IF store = {} THEN "idle" ELSE "flush_item"]
        /\ rest' = [rest EXCEPT ![h] = store]
        /\ Listed' \subseteq Listed /\ UNCHANGED <<nextId, work, saved, told>>
    BY <1>2, SameList DEF FlushRead, server
  <2>2. \A g \in Handlers : rest'[g] \subseteq rest[g] \union Listed
    BY <1>0, <2>1 DEF Listed, TypeOK
  <2>3. SeenBefore(NoMutation)  BY <2>1, <2>2, SeenAsBefore
  <2> QED  BY <1>0, <2>1, <2>3, OwnQuiet DEF TypeOK
<1>3. ASSUME NEW h \in Handlers, FlushItem(h)
      PROVE  CallsOwnMutations'
  <2>1. PICK next \in {"increment", "flush_enqueue", "flush_send"} : Goto(h, next)
    <3>1. PICK e \in rest[h] :
            Goto(h, CASE KindOf[e.mutation] = "scan" -> "increment"
                      [] KindOf[e.mutation] # "scan" /\ ~online -> "flush_enqueue"
                      [] KindOf[e.mutation] # "scan" /\ online -> "flush_send")
      BY <1>3 DEF FlushItem
    <3>2. online \in BOOLEAN  BY <1>0 DEF TypeOK
    <3> QED  BY <3>1, <3>2
  <2>2. Listed' \subseteq Listed /\ UNCHANGED <<nextId, rest, work, saved, told>>
    BY <1>3, <2>1, SameList DEF FlushItem, Goto, server
  <2>3. SeenBefore(NoMutation)  BY <2>2, SeenAsBefore
  <2> QED  BY <1>0, <2>1, <2>2, <2>3, OwnQuiet DEF TypeOK, Goto
<1>4. ASSUME NEW h \in Handlers, FlushEnqueue(h)
      PROVE  CallsOwnMutations'
  <2>1. PICK e \in rest[h] : Push(h, e.mutation)  BY <1>4 DEF FlushEnqueue
  <2>2. pc' = [pc EXCEPT ![h] = "dequeue"] /\ UNCHANGED <<rest, work, saved, told>>
    BY <1>4 DEF FlushEnqueue, Goto, server
  <2>3. e.mutation \in Mutations  BY <1>0 DEF TypeOK, Entry
  <2>4. SeenBefore(e.mutation)  BY <1>0, <2>1, <2>2, <2>3, PushSeen
  <2> QED  BY <1>0, <2>2, <2>4, OwnFlush DEF TypeOK
<1>5. ASSUME NEW h \in Handlers, FlushSend(h)
      PROVE  CallsOwnMutations'
  <2>1. PICK e \in rest[h] : \/ Saves(e.mutation) /\ Goto(h, "dequeue")
                             \/ Fails(e.mutation) /\ Goto(h, "increment")
    BY <1>5 DEF FlushSend
  <2>2. Listed' \subseteq Listed /\ UNCHANGED <<rest, work, told>>
    BY <1>5, <2>1, SameList DEF FlushSend, Goto
  <2>3. SeenBefore(e.mutation)  BY <2>2, SeenAsBefore
  <2>4. \A m \in Mutations : m # e.mutation => saved'[m] = saved[m]
    BY <1>0, <2>1 DEF Saves, Fails, TypeOK
  <2>5. \A g \in Handlers : pc'[g] \in {"enqueue", "send"} => pc[g] \in {"enqueue", "send"}
    BY <1>0, <2>1 DEF Goto, TypeOK
  <2> QED  BY <2>2, <2>3, <2>4, <2>5, OwnFlush
<1>6. ASSUME NEW h \in Handlers, Dequeue(h)
      PROVE  CallsOwnMutations'
  <2>1. PICK e \in rest[h] :
          Rewrites(h, {f \in List(h) : f.id # e.id}) /\ Loop(h, rest[h] \ {e})
    BY <1>6 DEF Dequeue
  <2>2. /\ pc' = [pc EXCEPT ![h] = IF rest[h] \ {e} = {} THEN "idle" ELSE "flush_item"]
        /\ rest' = [rest EXCEPT ![h] = rest[h] \ {e}]
        /\ UNCHANGED <<nextId, work, saved, told>>
    BY <1>6, <2>1 DEF Dequeue, Loop, server
  <2>3. \A g \in Handlers : rest'[g] \subseteq rest[g]  BY <1>0, <2>2 DEF TypeOK
  <2>5. SeenBefore(NoMutation)  BY <1>0, <2>1, <2>2, <2>3, RewriteSeen
  <2> QED  BY <1>0, <2>2, <2>5, OwnQuiet DEF TypeOK
<1>7. ASSUME NEW h \in Handlers, IncrementRetry(h)
      PROVE  CallsOwnMutations'
  <2>1. PICK e \in rest[h] :
          LET others == {f \in List(h) : f.id # e.id}
              its == {f \in List(h) : f.id = e.id}
              gone == {f \in its : Spent(f)}
          IN  /\ Rewrites(h, others \union {Retried(f) : f \in its \ gone})
              /\ Loop(h, rest[h] \ {e})
    BY <1>7 DEF IncrementRetry
  <2>2. /\ pc' = [pc EXCEPT ![h] = IF rest[h] \ {e} = {} THEN "idle" ELSE "flush_item"]
        /\ rest' = [rest EXCEPT ![h] = rest[h] \ {e}]
        /\ UNCHANGED <<nextId, work, saved, told>>
    BY <1>7, <2>1 DEF IncrementRetry, Loop, server
  <2>3. \A g \in Handlers : rest'[g] \subseteq rest[g]  BY <1>0, <2>2 DEF TypeOK
  <2>4. PICK list : /\ Rewrites(h, list)
                    /\ \A g \in list : \E f \in List(h) : f.id = g.id /\ f.mutation = g.mutation
    BY <2>1 DEF Retried
  <2>6. SeenBefore(NoMutation)  BY <1>0, <2>2, <2>3, <2>4, RewriteSeen
  <2> QED  BY <1>0, <2>2, <2>6, OwnQuiet DEF TypeOK
<1>8. CASE GoOffline \/ GoOnline \/ UNCHANGED vars
  <2>1. Listed' \subseteq Listed /\ UNCHANGED <<nextId, pc, rest, work, saved, told>>
    BY <1>8, SameList DEF GoOffline, GoOnline, vars, queue, server, locals
  <2>2. SeenBefore(NoMutation)  BY <2>1, SeenAsBefore
  <2> QED  BY <2>1, <2>2, OwnQuiet
<1>9. ASSUME NEW t \in Tabs, Reload(t)
      PROVE  CallsOwnMutations'
  <2>1. /\ \A g \in Handlers :
             /\ rest'[g] \subseteq rest[g]
             /\ pc'[g] \in {"enqueue", "send"} => pc'[g] = pc[g] /\ work'[g] = work[g]
        /\ UNCHANGED <<nextId, saved, told>>
    BY <1>9 DEF Reload, server
  <2>2. Listed' \subseteq Listed  BY <1>9 DEF Reload, Listed
  <2>3. SeenBefore(NoMutation)  BY <2>1, <2>2, SeenAsBefore
  <2> QED  BY <2>1, <2>3, OwnQuiet
<1>10. ASSUME NEW h \in Handlers, Read(h)
       PROVE  CallsOwnMutations'
  <2>1. /\ copy' = [copy EXCEPT ![h] = store]
        /\ UNCHANGED <<store, nextId, pc, rest, work, saved, told>>
    BY <1>10 DEF Read, server, locals
  <2>2. Listed' \subseteq Listed  BY <1>0, <2>1 DEF Listed, TypeOK
  <2>3. SeenBefore(NoMutation)  BY <2>1, <2>2, SeenAsBefore
  <2> QED  BY <2>1, <2>3, OwnQuiet
<1> QED  BY <1>1, <1>2, <1>3, <1>4, <1>5, <1>6, <1>7, <1>8, <1>9, <1>10,
             OwnSubmit, OwnEnqueue, OwnSend DEF Next, Proceed

-----------------------------------------------------------------------------
(* Where there are Web Locks: a second save takes a reload *)

\* A step that saves nothing, takes no call from its second request of the lock, and
\* queues what nobody has saved.
LEMMA HoldersQuiet ==
  ASSUME IInv, SavedByHolders, UNCHANGED <<webLocks, saved, reloads>>, NEW m0, SeenBefore(m0),
         m0 \in Mutations => saved[m0] = 0,
         \A g \in Handlers : pc[g] \in {"dequeue", "increment"} => pc'[g] = pc[g]
  PROVE  SavedByHolders'
<1>1. reloads \in Nat  BY OfflineAssumption DEF IInv, TypeOK
<1>2. Waits => Waits'  BY DEF Waits
<1> SUFFICES ASSUME webLocks, NEW m \in Mutations
             PROVE  /\ saved'[m] =< 1 + reloads'
                    /\ (\E e \in Seen' : e.mutation = m) =>
                         saved'[m] =< reloads' + (IF Waits' THEN 1 ELSE 0)
  BY DEF SavedByHolders
<1>3. saved'[m] =< 1 + reloads'  BY DEF SavedByHolders
<1>4. ASSUME NEW e \in Seen', e.mutation = m
      PROVE  saved'[m] =< reloads' + (IF Waits' THEN 1 ELSE 0)
  <2>1. CASE \E f \in Seen : f.mutation = m
    <3>1. saved[m] =< reloads + (IF Waits THEN 1 ELSE 0)  BY <2>1 DEF SavedByHolders
    <3>2. saved[m] \in Nat  BY DEF IInv, TypeOK
    <3> QED  BY <1>1, <1>2, <3>1, <3>2
  <2>2. CASE m = m0  BY <1>1, <2>2
  <2> QED  BY <1>4, <2>1, <2>2 DEF SeenBefore
<1> QED  BY <1>3, <1>4

\* A user's call saves what has no entry, and is the first to save it.
LEMMA HoldersSend ==
  ASSUME IInv, IInv', CallsOwnMutations, SavedByHolders, NEW h \in Handlers, Send(h)
  PROVE  SavedByHolders'
<1>0. TypeOK /\ TypeOK'  BY DEF IInv
<1>1. /\ pc[h] = "send" /\ (Saves(work[h]) \/ Fails(work[h]))
      /\ pc' = [pc EXCEPT ![h] = "idle"]
      /\ UNCHANGED <<webLocks, rest, reloads>> /\ Listed' = Listed
  BY SameList DEF Send, Done
<1>2. work[h] \in Mutations  BY <1>1 DEF IInv, CallsAreSound
<1>3. saved[work[h]] = 0 /\ \A e \in Seen : e.mutation # work[h]
  BY <1>1 DEF CallsOwnMutations
<1>4. Seen' = Seen  BY <1>1 DEF Seen
<1>5. Waits' <=> Waits  BY <1>0, <1>1 DEF Waits, TypeOK
<1>6. /\ saved'[work[h]] =< 1
      /\ \A m \in Mutations : m # work[h] => saved'[m] = saved[m]
  BY <1>0, <1>1, <1>2, <1>3 DEF TypeOK, Saves, Fails
<1>7. reloads \in Nat  BY <1>0, OfflineAssumption DEF TypeOK
<1>8. saved'[work[h]] \in Nat  BY <1>0, <1>2 DEF TypeOK
<1> QED  BY <1>1, <1>3, <1>4, <1>5, <1>6, <1>7, <1>8 DEF SavedByHolders

\* A flush that saves holds the lock, so that no other call waits; it is to wait itself.
LEMMA HoldersFlushSend ==
  ASSUME IInv, IInv', SavedByHolders, NEW h \in Handlers, FlushSend(h)
  PROVE  SavedByHolders'
<1>0. TypeOK /\ TypeOK'  BY DEF IInv
<1>1. PICK e \in rest[h] : \/ Saves(e.mutation) /\ Goto(h, "dequeue")
                           \/ Fails(e.mutation) /\ Goto(h, "increment")
  BY DEF FlushSend
<1>2. pc[h] = "flush_send" /\ UNCHANGED <<webLocks, rest, reloads>> /\ Listed' = Listed
  BY <1>1, SameList DEF FlushSend, Goto
<1>3. e \in Seen /\ e.mutation \in Mutations  BY <1>0 DEF Seen, Listed, TypeOK, Entry
<1>4. webLocks => ~Waits
  <2> SUFFICES ASSUME webLocks, NEW g \in Handlers, pc[g] \in {"dequeue", "increment"}
               PROVE  FALSE
    BY DEF Waits
  <2>1. owner = h /\ owner = g  BY <1>2 DEF IInv, CallsAreSound, Flushing
  <2> QED  BY <1>2, <2>1
<1>5. Waits'  BY <1>0, <1>1 DEF Waits, Goto, TypeOK
<1>6. Seen' = Seen  BY <1>2 DEF Seen
<1>7. /\ saved'[e.mutation] =< saved[e.mutation] + 1
      /\ \A m \in Mutations : m # e.mutation => saved'[m] = saved[m]
  BY <1>0, <1>1, <1>3 DEF TypeOK, Saves, Fails
<1>8. reloads \in Nat /\ \A m \in Mutations : saved[m] \in Nat /\ saved'[m] \in Nat
  BY <1>0, OfflineAssumption DEF TypeOK
<1> SUFFICES ASSUME webLocks, NEW m \in Mutations
             PROVE  /\ saved'[m] =< 1 + reloads'
                    /\ (\E f \in Seen' : f.mutation = m) =>
                         saved'[m] =< reloads' + (IF Waits' THEN 1 ELSE 0)
  BY <1>2 DEF SavedByHolders
<1>9. \A k \in Mutations : (\E f \in Seen : f.mutation = k) => saved[k] =< reloads
  BY <1>4, <1>8 DEF SavedByHolders
<1>10. CASE m = e.mutation
  <2>1. saved[m] =< reloads  BY <1>3, <1>9, <1>10
  <2> QED  BY <1>2, <1>5, <1>7, <1>8, <1>10, <2>1
<1>11. CASE m # e.mutation
  <2>1. saved'[m] = saved[m] /\ saved[m] =< 1 + reloads  BY <1>7, <1>11 DEF SavedByHolders
  <2> QED  BY <1>2, <1>5, <1>8, <2>1
<1> QED  BY <1>10, <1>11

\* A reload is what the bound counts.
LEMMA HoldersReload ==
  ASSUME IInv, IInv', SavedByHolders, NEW t \in Tabs, Reload(t)
  PROVE  SavedByHolders'
<1>1. reloads' = reloads + 1 /\ saved' = saved /\ webLocks' = webLocks  BY DEF Reload, server
<1>2. reloads \in Nat /\ \A m \in Mutations : saved[m] \in Nat
  BY OfflineAssumption DEF IInv, TypeOK
<1>3. webLocks => \A m \in Mutations : saved'[m] =< reloads'
  BY <1>1, <1>2 DEF SavedByHolders
<1> QED  BY <1>1, <1>2, <1>3 DEF SavedByHolders

LEMMA HoldersNext ==
  ASSUME IInv, IInv', CallsOwnMutations, SavedByHolders, [Next]_vars
  PROVE  SavedByHolders'
<1>0. TypeOK  BY DEF IInv
<1>1. ASSUME NEW h \in Handlers, Submit(h)
      PROVE  SavedByHolders'
  <2>1. /\ pc[h] = "idle"
        /\ pc' = [pc EXCEPT ![h] = "send"] \/ pc' = [pc EXCEPT ![h] = "enqueue"]
        /\ Listed' \subseteq Listed /\ UNCHANGED <<webLocks, rest, saved, reloads>>
    BY <1>1, SameList DEF Submit, server
  <2>2. SeenBefore(NoMutation)  BY <2>1, SeenAsBefore
  <2> QED  BY <1>0, <2>1, <2>2, OfflineAssumption, HoldersQuiet DEF TypeOK
<1>2. ASSUME NEW h \in Handlers, Enqueue(h)
      PROVE  SavedByHolders'
  <2>1. /\ pc[h] = "enqueue" /\ Push(h, work[h]) /\ pc' = [pc EXCEPT ![h] = "idle"]
        /\ UNCHANGED <<webLocks, rest, saved, reloads>>
    BY <1>2 DEF Enqueue, Done, server
  <2>2. work[h] \in Mutations /\ saved[work[h]] = 0
    BY <2>1 DEF IInv, CallsAreSound, CallsOwnMutations
  <2>3. SeenBefore(work[h])  BY <1>0, <2>1, <2>2, PushSeen
  <2> QED  BY <1>0, <2>1, <2>2, <2>3, HoldersQuiet DEF TypeOK
<1>3. ASSUME NEW h \in Handlers, FlushAsk(h)
      PROVE  SavedByHolders'
  <2>1. /\ pc[h] = "idle" /\ pc' = [pc EXCEPT ![h] = "flush_ask"]
        /\ Listed' \subseteq Listed /\ UNCHANGED <<webLocks, rest, saved, reloads>>
    BY <1>3, SameList DEF FlushAsk, Goto, server
  <2>2. SeenBefore(NoMutation)  BY <2>1, SeenAsBefore
  <2> QED  BY <1>0, <2>1, <2>2, OfflineAssumption, HoldersQuiet DEF TypeOK
<1>4. ASSUME NEW h \in Handlers, FlushRead(h)
      PROVE  SavedByHolders'
  <2>1. /\ pc[h] = "flush_ask"
        /\ pc' = [pc EXCEPT ![h] = IF store = {} THEN "idle" ELSE "flush_item"]
        /\ rest' = [rest EXCEPT ![h] = store]
        /\ Listed' \subseteq Listed /\ UNCHANGED <<webLocks, saved, reloads>>
    BY <1>4, SameList DEF FlushRead, server
  <2>2. \A g \in Handlers : rest'[g] \subseteq rest[g] \union Listed
    BY <1>0, <2>1 DEF Listed, TypeOK
  <2>3. SeenBefore(NoMutation)  BY <2>1, <2>2, SeenAsBefore
  <2> QED  BY <1>0, <2>1, <2>3, OfflineAssumption, HoldersQuiet DEF TypeOK
<1>5. ASSUME NEW h \in Handlers, FlushItem(h)
      PROVE  SavedByHolders'
  <2>1. /\ pc[h] = "flush_item" /\ \A g \in Handlers : g # h => pc'[g] = pc[g]
        /\ Listed' \subseteq Listed /\ UNCHANGED <<webLocks, rest, saved, reloads>>
    BY <1>0, <1>5, SameList DEF FlushItem, Goto, server, TypeOK
  <2>2. SeenBefore(NoMutation)  BY <2>1, SeenAsBefore
  <2> QED  BY <2>1, <2>2, OfflineAssumption, HoldersQuiet
<1>6. ASSUME NEW h \in Handlers,
             FlushEnqueue(h) \/ Dequeue(h) \/ IncrementRetry(h) \/ Read(h)
      PROVE  SavedByHolders'
  <2>1. (pc[h] \in Flushing /\ LockFree) \/ ~webLocks
    BY <1>6 DEF FlushEnqueue, Dequeue, IncrementRetry, Flushing, Read
  <2>2. ~webLocks /\ webLocks' = webLocks
    BY <1>6, <2>1, OfflineAssumption DEF IInv, CallsAreSound, LockFree, FlushEnqueue, Dequeue,
       IncrementRetry, Read
  <2> QED  BY <2>2 DEF SavedByHolders
<1>7. CASE GoOffline \/ GoOnline \/ UNCHANGED vars
  <2>1. Listed' \subseteq Listed /\ UNCHANGED <<webLocks, pc, rest, saved, reloads>>
    BY <1>7, SameList DEF GoOffline, GoOnline, vars, server, locals
  <2>2. SeenBefore(NoMutation)  BY <2>1, SeenAsBefore
  <2> QED  BY <2>1, <2>2, OfflineAssumption, HoldersQuiet
<1> QED  BY <1>1, <1>2, <1>3, <1>4, <1>5, <1>6, <1>7,
             HoldersSend, HoldersFlushSend, HoldersReload DEF Next, Proceed

LEMMA OwnInit == Init => CallsOwnMutations /\ SavedByHolders
<1> SUFFICES ASSUME Init PROVE CallsOwnMutations /\ SavedByHolders
  OBVIOUS
<1>1. Seen = {}  BY DEF Init, Seen, Listed
<1>2. CallsOwnMutations  BY <1>1 DEF Init, CallsOwnMutations
<1>3. SavedByHolders  BY <1>1 DEF Init, SavedByHolders
<1> QED  BY <1>2, <1>3

\* Where the browser has Web Locks, whatever tabs, drops, failures and lost answers do,
\* the server holds at most one transaction more of a mutation than tabs were reloaded:
\* a flush that has saved keeps the lock until a reload takes it.
THEOREM DuplicatesBounded == Spec => []DuplicatesTakeReloads
<1>1. IInv /\ IInv' /\ [Next]_vars /\ CallsOwnMutations /\ SavedByHolders
        => CallsOwnMutations' /\ SavedByHolders'
  BY OwnNext, HoldersNext
<1>2. SavedByHolders => DuplicatesTakeReloads  BY DEF SavedByHolders, DuplicatesTakeReloads
<1>3. Spec => []IInv  BY Invariance
<1> QED  BY <1>1, <1>2, <1>3, OwnInit, PTL DEF Spec

-----------------------------------------------------------------------------
(* Until calls overlap, fail or are cut off: nothing is saved twice *)

\* What becomes of the call that steps, when all others are idle.
LEMMA OneStaysAtWork ==
  ASSUME OneAtWork, NEW h \in Handlers,
         pc[h] # "idle" \/ \A g \in Handlers \ {h} : pc[g] = "idle",
         \A g \in Handlers \ {h} : pc'[g] = pc[g]
  PROVE  OneAtWork' /\ \A g \in Handlers \ {h} : pc[g] = "idle" /\ pc'[g] = "idle"
BY DEF OneAtWork

\* A step that leaves the list and the server as they are, and no entry unmarked.
LEMMA LiveQuiet ==
  ASSUME LiveEntries, UNCHANGED <<store, saved>>,
         \A g \in Handlers : pc[g] = "dequeue" => pc'[g] = "dequeue" /\ rest'[g] = rest[g]
  PROVE  LiveEntries'
<1>1. ASSUME NEW f, Doomed(f)
      PROVE  Doomed(f)'
  BY <1>1 DEF Doomed, IsNext
<1> QED  BY <1>1 DEF LiveEntries

\* What the call at work has read is the list, and after its body nobody has read it.
LEMMA AloneReads ==
  ASSUME TypeOK, ReadersAreSound, OneAtWork, ReadsAreStored, NEW h \in Handlers, pc[h] # "idle"
  PROVE  /\ \A g \in readers : g = h
         /\ HasRead(h) => List(h) = store
         /\ ReadOver(h) => readers' = {}
<1>1. \A g \in readers : g \in Handlers /\ pc[g] # "idle"
  BY DEF TypeOK, ReadersAreSound, AtBody
<1>2. \A g \in readers : g = h  BY <1>1 DEF OneAtWork
<1> QED  BY <1>2 DEF HasRead, List, ReadOver, ReadsAreStored

LEMMA NoneDoomed ==
  ASSUME \A g \in Handlers : pc[g] # "dequeue"
  PROVE  \A f : ~Doomed(f)
BY DEF Doomed

\* A call starts alone: it has read nothing yet.
LEMMA LiveStart ==
  ASSUME TypeOK, ReadersAreSound, NEW h \in Handlers, Submit(h) \/ FlushAsk(h), Calm',
         OneAtWork, ReadsAreStored, LiveEntries
  PROVE  OneAtWork' /\ ReadsAreStored' /\ LiveEntries'
<1>1. /\ pc[h] = "idle" /\ Starts(h)
      /\ \/ pc' = [pc EXCEPT ![h] = "send"]
         \/ pc' = [pc EXCEPT ![h] = "enqueue"]
         \/ pc' = [pc EXCEPT ![h] = "flush_ask"]
      /\ UNCHANGED <<store, readers, copy, saved, rest>>
  BY DEF Submit, FlushAsk, Goto, queue, server
<1>2. \A g \in Handlers \ {h} : pc[g] = "idle"  BY <1>1 DEF Starts, Calm
<1>3. \A g \in Handlers \ {h} : pc'[g] = pc[g]  BY <1>1 DEF TypeOK
<1>4. OneAtWork'  BY <1>2, <1>3, OneStaysAtWork
<1>5. pc'[h] \notin Flushing  BY <1>1 DEF TypeOK, Flushing
<1>6. ReadsAreStored'  BY <1>1, <1>2, <1>3, <1>5 DEF ReadsAreStored, Flushing
<1>7. LiveEntries'  BY <1>1, <1>2, LiveQuiet
<1> QED  BY <1>4, <1>6, <1>7

\* A body reads what is stored.
LEMMA LiveCopy ==
  ASSUME TypeOK, NEW h \in Handlers, Read(h), OneAtWork, ReadsAreStored, LiveEntries
  PROVE  OneAtWork' /\ ReadsAreStored' /\ LiveEntries'
<1>1. /\ readers' = readers \union {h} /\ copy' = [copy EXCEPT ![h] = store]
      /\ UNCHANGED <<store, saved, pc, rest>>
  BY DEF Read, server, locals
<1>2. LiveEntries'  BY <1>1, LiveQuiet
<1> QED  BY <1>1, <1>2 DEF OneAtWork, ReadsAreStored, TypeOK

\* An entry is queued that is its mutation's first.
LEMMA LiveEnqueue ==
  ASSUME IInv, CallsOwnMutations, NEW h \in Handlers, Enqueue(h),
         OneAtWork, ReadsAreStored, LiveEntries
  PROVE  OneAtWork' /\ ReadsAreStored' /\ LiveEntries'
<1>0. TypeOK /\ IdsAreUnique /\ ReadersAreSound  BY DEF IInv
<1>1. /\ pc[h] = "enqueue" /\ Push(h, work[h]) /\ pc' = [pc EXCEPT ![h] = "idle"]
      /\ UNCHANGED <<rest, saved>> /\ HasRead(h)
  BY DEF Enqueue, Done, server
<1> DEFINE new == [id |-> nextId, mutation |-> work[h], tries |-> 0]
<1>1A. (store' = store \/ store' = store \union {new}) /\ readers' = {}
  BY <1>0, <1>1, AloneReads DEF Push, Writes
<1>2. \A g \in Handlers \ {h} : pc'[g] = pc[g]  BY <1>0, <1>1 DEF TypeOK
<1>3. OneAtWork' /\ \A g \in Handlers \ {h} : pc[g] = "idle" /\ pc'[g] = "idle"
  BY <1>1, <1>2, OneStaysAtWork
<1>4. ReadsAreStored'  BY <1>0, <1>1, <1>1A, <1>3 DEF ReadsAreStored, Flushing, TypeOK
<1>5. \A f : ~Doomed(f)  BY <1>1, <1>3, NoneDoomed
<1>6. saved[work[h]] = 0 /\ \A e \in store : e.mutation # work[h]
  BY <1>1 DEF CallsOwnMutations, Seen, Listed
<1>7. \A e \in store : e.id # nextId
  <2>1. \A e \in store : e.id \in Nat /\ e.id < nextId /\ nextId \in Nat
    BY <1>0 DEF IdsAreUnique, Seen, Listed, TypeOK, Entry
  <2> QED  BY <2>1
<1>8. LiveEntries'
  <2>1. store' = store \/ store' = store \union {new}  BY <1>1A
  <2>2. new.id = nextId /\ new.mutation = work[h]  OBVIOUS
  <2> HIDE DEF new
  <2>3. \A e, f \in store' : e.id = f.id => e = f
    BY <1>7, <2>1, <2>2 DEF LiveEntries
  <2>4. \A f \in store' : saved'[f.mutation] = 0
    BY <1>1, <1>5, <1>6, <2>1, <2>2 DEF LiveEntries
  <2>5. \A e, f \in store' : e.mutation = f.mutation => e = f
    BY <1>5, <1>6, <2>1, <2>2 DEF LiveEntries
  <2> QED  BY <1>1, <2>3, <2>4, <2>5 DEF LiveEntries
<1> QED  BY <1>3, <1>4, <1>8

\* What has no entry is saved, for the first time.
LEMMA LiveSend ==
  ASSUME IInv, CallsOwnMutations, NEW h \in Handlers, Send(h), Calm',
         OneAtWork, ReadsAreStored, LiveEntries
  PROVE  OneAtWork' /\ ReadsAreStored' /\ LiveEntries'
<1>0. TypeOK  BY DEF IInv
<1>1. /\ pc[h] = "send" /\ (Saves(work[h]) \/ Fails(work[h]))
      /\ pc' = [pc EXCEPT ![h] = "idle"] /\ UNCHANGED <<rest, store, readers, copy>>
  BY DEF Send, Done, queue
<1>2. work[h] \in Mutations  BY <1>1 DEF IInv, CallsAreSound
<1>3. saved[work[h]] = 0 /\ \A e \in store : e.mutation # work[h]
  BY <1>1 DEF CallsOwnMutations, Seen, Listed
<1>4. failures \in Nat /\ failures' = 0  BY <1>0, OfflineAssumption DEF TypeOK, Calm
<1>5. saved' = [saved EXCEPT ![work[h]] = @ + 1]  BY <1>1, <1>4 DEF Saves, Fails
<1>6. saved'[work[h]] = 1 /\ \A m \in Mutations \ {work[h]} : saved'[m] = saved[m]
  BY <1>0, <1>2, <1>3, <1>5 DEF TypeOK
<1>7. \A g \in Handlers \ {h} : pc'[g] = pc[g]  BY <1>0, <1>1 DEF TypeOK
<1>8. OneAtWork' /\ \A g \in Handlers \ {h} : pc[g] = "idle" /\ pc'[g] = "idle"
  BY <1>1, <1>7, OneStaysAtWork
<1>9. ReadsAreStored'  BY <1>0, <1>1, <1>8 DEF ReadsAreStored, Flushing, TypeOK
<1>10. \A f : ~Doomed(f)  BY <1>1, <1>8, NoneDoomed
<1>11. \A f \in store : f.mutation \in Mutations  BY <1>0 DEF TypeOK, Entry
<1>12. LiveEntries'  BY <1>1, <1>3, <1>6, <1>10, <1>11 DEF LiveEntries
<1> QED  BY <1>8, <1>9, <1>12

\* A flush reads what is stored, or looks at its next entry.
LEMMA LiveRead ==
  ASSUME TypeOK, NEW h \in Handlers, FlushRead(h) \/ FlushItem(h),
         OneAtWork, ReadsAreStored, LiveEntries
  PROVE  OneAtWork' /\ ReadsAreStored' /\ LiveEntries'
<1>1. /\ pc[h] \in {"flush_ask", "flush_item"}
      /\ \A g \in Handlers \ {h} : pc'[g] = pc[g] /\ rest'[g] = rest[g]
      /\ UNCHANGED <<store, readers, copy, saved>>
  BY DEF FlushRead, FlushItem, Goto, queue, server, TypeOK
<1>2. OneAtWork' /\ \A g \in Handlers \ {h} : pc[g] = "idle" /\ pc'[g] = "idle"
  BY <1>1, OneStaysAtWork
<1>3. rest'[h] \subseteq store
  <2>1. CASE FlushRead(h)  BY <2>1 DEF FlushRead, TypeOK
  <2>2. CASE FlushItem(h)
    <3>1. pc[h] = "flush_item" /\ rest' = rest  BY <2>2 DEF FlushItem, Goto
    <3> QED  BY <3>1 DEF ReadsAreStored, Flushing
  <2> QED  BY <2>1, <2>2
<1>4. ReadsAreStored'  BY <1>1, <1>2, <1>3 DEF ReadsAreStored, Flushing
<1>5. LiveEntries'  BY <1>1, <1>2, LiveQuiet
<1> QED  BY <1>2, <1>4, <1>5

\* Queued again: the new entry is live, and the one it came from is about to go.
LEMMA LiveFlushEnqueue ==
  ASSUME IInv, NEW h \in Handlers, FlushEnqueue(h),
         OneAtWork, ReadsAreStored, LiveEntries
  PROVE  OneAtWork' /\ ReadsAreStored' /\ LiveEntries'
<1>0. TypeOK /\ IdsAreUnique /\ ReadersAreSound  BY DEF IInv
<1>1. PICK e \in rest[h] : IsNext(h, e) /\ Push(h, e.mutation)  BY DEF FlushEnqueue
<1>2. /\ pc[h] = "flush_enqueue" /\ pc' = [pc EXCEPT ![h] = "dequeue"]
      /\ UNCHANGED <<rest, saved>> /\ HasRead(h)
  BY DEF FlushEnqueue, Goto, server
<1>3. \A g \in Handlers \ {h} : pc'[g] = pc[g]  BY <1>0, <1>2 DEF TypeOK
<1>4. OneAtWork' /\ \A g \in Handlers \ {h} : pc[g] = "idle" /\ pc'[g] = "idle"
  BY <1>2, <1>3, OneStaysAtWork
<1>5. \A f : ~Doomed(f)  BY <1>2, <1>4, NoneDoomed
<1>6. rest[h] \subseteq store  BY <1>2 DEF ReadsAreStored, Flushing
<1>7. \A f : f.id = e.id => Doomed(f)'
  <2>1. pc'[h] = "dequeue" /\ IsNext(h, e)'  BY <1>0, <1>1, <1>2 DEF IsNext, TypeOK
  <2> QED  BY <1>1, <1>2, <2>1 DEF Doomed
<1> DEFINE new == [id |-> nextId, mutation |-> e.mutation, tries |-> 0]
<1>8. (store' = store \/ store' = store \union {new}) /\ readers' = {}
  BY <1>0, <1>1, <1>2, AloneReads DEF Push, Writes
<1>9. new.id = nextId /\ new.mutation = e.mutation  OBVIOUS
<1> HIDE DEF new
<1>10. ReadsAreStored'
  BY <1>0, <1>2, <1>4, <1>6, <1>8 DEF ReadsAreStored, Flushing, TypeOK
<1>11. \A f \in store : f.id # nextId
  <2>1. \A f \in store : f.id \in Nat /\ f.id < nextId /\ nextId \in Nat
    BY <1>0 DEF IdsAreUnique, Seen, Listed, TypeOK, Entry
  <2> QED  BY <2>1
<1>12. \A f, g \in store' : f.id = g.id => f = g
  BY <1>8, <1>9, <1>11 DEF LiveEntries
<1>13. \A f \in store' : saved'[f.mutation] = 0
  BY <1>2, <1>5, <1>6, <1>8, <1>9 DEF LiveEntries
<1>14. \A f \in store : f.mutation = e.mutation => Doomed(f)'
  BY <1>5, <1>6, <1>7 DEF LiveEntries
<1>15. ASSUME NEW f \in store', NEW g \in store', ~Doomed(f)', ~Doomed(g)',
              f.mutation = g.mutation
       PROVE  f = g
  <2>1. CASE f \in store /\ g \in store  BY <1>5, <1>15, <2>1 DEF LiveEntries
  <2>2. CASE f = new \/ g = new  BY <1>8, <1>9, <1>14, <1>15, <2>2
  <2> QED  BY <1>8, <2>1, <2>2
<1>16. LiveEntries'  BY <1>2, <1>12, <1>13, <1>15 DEF LiveEntries
<1> QED  BY <1>4, <1>10, <1>16

\* Saved: the mutation's live entry is about to go.
LEMMA LiveFlushSend ==
  ASSUME IInv, NEW h \in Handlers, FlushSend(h), Calm',
         OneAtWork, ReadsAreStored, LiveEntries
  PROVE  OneAtWork' /\ ReadsAreStored' /\ LiveEntries'
<1>0. TypeOK  BY DEF IInv
<1>1. PICK e \in rest[h] : /\ IsNext(h, e)
                           /\ \/ Saves(e.mutation) /\ Goto(h, "dequeue")
                              \/ Fails(e.mutation) /\ Goto(h, "increment")
  BY DEF FlushSend
<1>2. failures \in Nat /\ failures' = 0  BY <1>0, OfflineAssumption DEF TypeOK, Calm
<1>3. Saves(e.mutation) /\ Goto(h, "dequeue")  BY <1>1, <1>2 DEF Fails
<1>4. /\ pc[h] = "flush_send" /\ pc' = [pc EXCEPT ![h] = "dequeue"]
      /\ UNCHANGED <<rest, store, readers, copy>>
  BY <1>3 DEF FlushSend, Goto, queue
<1>5. \A g \in Handlers \ {h} : pc'[g] = pc[g]  BY <1>0, <1>4 DEF TypeOK
<1>6. OneAtWork' /\ \A g \in Handlers \ {h} : pc[g] = "idle" /\ pc'[g] = "idle"
  BY <1>4, <1>5, OneStaysAtWork
<1>7. \A f : ~Doomed(f)  BY <1>4, <1>6, NoneDoomed
<1>8. rest[h] \subseteq store  BY <1>4 DEF ReadsAreStored, Flushing
<1>9. ReadsAreStored'  BY <1>4, <1>6, <1>8 DEF ReadsAreStored, Flushing
<1>10. \A f : f.id = e.id => Doomed(f)'
  <2>1. pc'[h] = "dequeue" /\ IsNext(h, e)'  BY <1>0, <1>1, <1>4 DEF IsNext, TypeOK
  <2> QED  BY <1>1, <1>4, <2>1 DEF Doomed
<1>11. e.mutation \in Mutations /\ \A f \in store : f.mutation \in Mutations
  BY <1>0 DEF TypeOK, Entry
<1>12. saved[e.mutation] = 0  BY <1>7, <1>8 DEF LiveEntries
<1>13. saved'[e.mutation] = 1 /\ \A m \in Mutations \ {e.mutation} : saved'[m] = saved[m]
  BY <1>0, <1>3, <1>11, <1>12 DEF Saves, TypeOK
<1>14. \A f \in store : f.mutation = e.mutation => Doomed(f)'
  BY <1>7, <1>8, <1>10 DEF LiveEntries
<1>15. \A f \in store' : ~Doomed(f)' => saved'[f.mutation] = 0
  BY <1>4, <1>7, <1>11, <1>13, <1>14 DEF LiveEntries
<1>16. \A m \in Mutations : saved'[m] =< 1  BY <1>13 DEF LiveEntries
<1>17. LiveEntries'  BY <1>4, <1>7, <1>15, <1>16 DEF LiveEntries
<1> QED  BY <1>6, <1>9, <1>17

\* The flush goes on with what is left of what it read.
LEMMA LiveLoop ==
  ASSUME TypeOK, NEW h \in Handlers, pc[h] # "idle", NEW left, Loop(h, left),
         left \subseteq store', OneAtWork, readers' = {}
  PROVE  /\ OneAtWork' /\ ReadsAreStored'
         /\ \A g \in Handlers \ {h} : pc[g] = "idle"
         /\ \A f : ~Doomed(f)'
<1>1. /\ rest' = [rest EXCEPT ![h] = left]
      /\ pc' = [pc EXCEPT ![h] = IF left = {} THEN "idle" ELSE "flush_item"]
  BY DEF Loop
<1>2. \A g \in Handlers \ {h} : pc'[g] = pc[g]  BY <1>1 DEF TypeOK
<1>3. OneAtWork' /\ \A g \in Handlers \ {h} : pc[g] = "idle" /\ pc'[g] = "idle"
  BY <1>2, OneStaysAtWork
<1>4. rest'[h] = left /\ pc'[h] # "dequeue"  BY <1>1 DEF TypeOK
<1>5. ReadsAreStored'  BY <1>3, <1>4 DEF ReadsAreStored, Flushing
<1>6. \A f : ~Doomed(f)'  BY <1>3, <1>4 DEF Doomed
<1> QED  BY <1>3, <1>5, <1>6

\* What is left is live.
LEMMA LiveDequeue ==
  ASSUME IInv, NEW h \in Handlers, Dequeue(h), OneAtWork, ReadsAreStored, LiveEntries
  PROVE  OneAtWork' /\ ReadsAreStored' /\ LiveEntries'
<1>0. TypeOK /\ IdsAreUnique /\ ReadersAreSound  BY DEF IInv
<1>2. pc[h] = "dequeue" /\ saved' = saved /\ HasRead(h)  BY DEF Dequeue, server
<1>1. PICK e \in rest[h] :
        /\ IsNext(h, e)
        /\ store' = {f \in store : f.id # e.id} /\ readers' = {}
        /\ Loop(h, rest[h] \ {e})
  <2>1. List(h) = store /\ (ReadOver(h) => readers' = {})  BY <1>0, <1>2, AloneReads
  <2> QED  BY <2>1 DEF Dequeue, Rewrites, Writes
<1>3. rest[h] \subseteq store  BY <1>2 DEF ReadsAreStored, Flushing
<1>4. rest[h] \ {e} \subseteq store'  BY <1>1, <1>3 DEF LiveEntries
<1>5. /\ OneAtWork' /\ ReadsAreStored'
      /\ \A g \in Handlers \ {h} : pc[g] = "idle"
  BY <1>0, <1>1, <1>2, <1>4, LiveLoop
<1>6. ASSUME NEW f \in store, Doomed(f)
      PROVE  f.id = e.id
  <2>1. PICK g \in Handlers : pc[g] = "dequeue" /\ \E d \in rest[g] : IsNext(g, d) /\ d.id = f.id
    BY <1>6 DEF Doomed
  <2>2. g = h  BY <1>5, <2>1
  <2> QED  BY <1>0, <1>1, <2>1, <2>2, NextIsOne
<1>7. LiveEntries'  BY <1>1, <1>2, <1>6 DEF LiveEntries
<1> QED  BY <1>5, <1>7

\* The entry counts one more try, or is gone; it stands for what it stood for.
LEMMA LiveIncrement ==
  ASSUME IInv, NEW h \in Handlers, IncrementRetry(h), OneAtWork, ReadsAreStored, LiveEntries
  PROVE  OneAtWork' /\ ReadsAreStored' /\ LiveEntries'
<1>0. TypeOK /\ ReadersAreSound  BY DEF IInv
<1>2. pc[h] = "increment" /\ saved' = saved /\ HasRead(h)  BY DEF IncrementRetry, server
<1>1. PICK e \in rest[h] :
        /\ \A f \in store : f.id # e.id => f \in store'
        /\ \A g \in store' : \/ g \in store /\ g.id # e.id
                             \/ \E f \in store : f.id = e.id /\ g = Retried(f)
        /\ readers' = {}
        /\ Loop(h, rest[h] \ {e})
  <2>1. List(h) = store /\ (ReadOver(h) => readers' = {})  BY <1>0, <1>2, AloneReads
  <2> QED  BY <2>1 DEF IncrementRetry, Rewrites, Writes
<1>3. rest[h] \subseteq store  BY <1>2 DEF ReadsAreStored, Flushing
<1>4. rest[h] \ {e} \subseteq store'  BY <1>1, <1>3 DEF LiveEntries
<1>5. /\ OneAtWork' /\ ReadsAreStored'
      /\ \A g \in Handlers \ {h} : pc[g] = "idle"
  BY <1>0, <1>1, <1>2, <1>4, LiveLoop
<1>6. \A f : ~Doomed(f)  BY <1>2, <1>5, NoneDoomed
<1>7. \A g \in store' : g = Retried(e) \/ (g \in store /\ g.id # e.id)
  BY <1>1, <1>3 DEF LiveEntries
<1>8. Retried(e).id = e.id /\ Retried(e).mutation = e.mutation  BY DEF Retried
<1>9. \A f, g \in store' : f.id = g.id => f = g
  BY <1>7, <1>8 DEF LiveEntries
<1>10. \A f \in store' : saved'[f.mutation] = 0
  BY <1>2, <1>3, <1>6, <1>7, <1>8 DEF LiveEntries
<1>11. \A f, g \in store' : f.mutation = g.mutation => f = g
  BY <1>3, <1>6, <1>7, <1>8 DEF LiveEntries
<1> QED  BY <1>2, <1>5, <1>9, <1>10, <1>11 DEF LiveEntries

LEMMA LiveNext ==
  ASSUME IInv, CallsOwnMutations, OneLiveEntry, [Next]_vars
  PROVE  OneLiveEntry'
<1>0. TypeOK /\ ReadersAreSound  BY DEF IInv
<1>1. failures \in Nat /\ reloads \in Nat /\ alone \in BOOLEAN
  BY <1>0, OfflineAssumption DEF TypeOK
<1> SUFFICES ASSUME Calm'
             PROVE  OneAtWork' /\ ReadsAreStored' /\ LiveEntries'
  BY DEF OneLiveEntry
<1>2. ASSUME NEW h \in Handlers, Submit(h) \/ FlushAsk(h) \/ Proceed(h)
      PROVE  OneAtWork' /\ ReadsAreStored' /\ LiveEntries'
  <2>1. reloads' = reloads
    BY <1>2 DEF Submit, FlushAsk, Proceed, Read, Enqueue, Send, FlushRead, FlushItem,
                FlushEnqueue, FlushSend, Dequeue, IncrementRetry
  <2>2. failures' = failures \/ failures' = failures + 1
    BY <1>2 DEF Submit, FlushAsk, Proceed, Read, Enqueue, Send, FlushRead, FlushItem,
                FlushEnqueue, FlushSend, Dequeue, IncrementRetry, Saves, Fails, server
  <2>3. alone' => alone
    BY <1>1, <1>2 DEF Submit, FlushAsk, Starts, Proceed, Read, Enqueue, Send, FlushRead, FlushItem,
                FlushEnqueue, FlushSend, Dequeue, IncrementRetry
  <2>4. Calm  BY <1>1, <2>1, <2>2, <2>3 DEF Calm
  <2>5. OneAtWork /\ ReadsAreStored /\ LiveEntries  BY <2>4 DEF OneLiveEntry
  <2> QED  BY <1>0, <1>2, <2>5, LiveStart, LiveCopy, LiveEnqueue, LiveSend, LiveRead, LiveFlushEnqueue,
              LiveFlushSend, LiveDequeue, LiveIncrement DEF Proceed
<1>3. CASE GoOffline \/ GoOnline \/ UNCHANGED vars
  <2>1. UNCHANGED <<store, readers, copy, pc, rest, saved, failures, reloads, alone>>
    BY <1>3 DEF GoOffline, GoOnline, vars, queue, server, locals
  <2>2. OneAtWork /\ ReadsAreStored /\ LiveEntries  BY <2>1 DEF OneLiveEntry, Calm
  <2>3. LiveEntries'  BY <2>1, <2>2, LiveQuiet
  <2> QED  BY <2>1, <2>2, <2>3 DEF OneAtWork, ReadsAreStored
<1>4. ASSUME NEW t \in Tabs, Reload(t)
      PROVE  FALSE
  BY <1>1, <1>4 DEF Reload, Calm
<1> QED  BY <1>2, <1>3, <1>4 DEF Next

\* With and without Web Locks, however the network comes and goes and however often
\* localStorage is full: as long as no two calls overlap, no call of the server fails
\* and no tab is reloaded, nothing is saved twice, what a flush queues again included.
THEOREM SavedOnce == Spec => []SavedOnceUnlessRaced
<1>1. Init => OneLiveEntry
  BY DEF Init, OneLiveEntry, OneAtWork, ReadsAreStored, LiveEntries, Doomed, Flushing
<1>2. IInv /\ IInv' /\ [Next]_vars /\ CallsOwnMutations /\ OneLiveEntry
        => CallsOwnMutations' /\ OneLiveEntry'
  BY OwnNext, LiveNext
<1>3. OneLiveEntry => SavedOnceUnlessRaced
  BY DEF OneLiveEntry, Calm, LiveEntries, SavedOnceUnlessRaced
<1>4. Spec => []IInv  BY Invariance
<1> QED  BY <1>1, <1>2, <1>3, <1>4, OwnInit, PTL DEF Spec

-----------------------------------------------------------------------------
(* Flushes come to their end *)

\* What a step does to the calls and the lock: a call that flushes neither before nor
\* after it,
Elsewhere(h) ==
  /\ pc[h] \notin Flushing /\ pc'[h] \notin Flushing
  /\ \A g \in Handlers \ {h} : pc'[g] = pc[g]
  /\ UNCHANGED <<rest, owner>>

\* one that begins to flush,
Reads(h) ==
  /\ pc[h] = "flush_ask" /\ rest' = [rest EXCEPT ![h] = store]
  /\ pc' = [pc EXCEPT ![h] = IF store = {} THEN "idle" ELSE "flush_item"]
  /\ owner' = IF webLocks /\ store # {} THEN h ELSE owner

\* one between getItem and setItem,
Opens(h) ==
  /\ h \notin readers /\ readers' = readers \union {h}
  /\ UNCHANGED <<pc, rest, owner>>

\* one at work on its entry,
WorksOn(h) ==
  /\ pc[h] \in Flushing /\ pc'[h] \in Flushing /\ Stage(pc'[h]) < Stage(pc[h])
  /\ \A g \in Handlers \ {h} : pc'[g] = pc[g]
  /\ UNCHANGED <<rest, owner>>

\* or done with it.
DoneWith(h) ==
  /\ pc[h] \in {"dequeue", "increment"}
  /\ \E e \in rest[h] : Loop(h, rest[h] \ {e})

Moves(h) ==
  /\ \A g \in Handlers \ {h} : g \in readers' <=> g \in readers
  /\ Elsewhere(h) \/ Reads(h) \/ Opens(h) \/ WorksOn(h) \/ DoneWith(h)

\* A step leaves the list alone, or writes it, and its own copy.
LEMMA ListsMove ==
  ASSUME TypeOK, NEW h \in Handlers, Submit(h) \/ FlushAsk(h) \/ Proceed(h)
  PROVE  \/ UNCHANGED <<store, readers, copy>>
         \/ store' = store /\ readers' = readers \union {h} /\ copy' = [copy EXCEPT ![h] = store]
         \/ ReadOver(h) /\ (UNCHANGED store \/ (\E m : Push(h, m)) \/ Dequeue(h) \/ IncrementRetry(h))
<1>1. CASE Submit(h) \/ FlushAsk(h) \/ Send(h) \/ FlushRead(h) \/ FlushItem(h) \/ FlushSend(h)
  BY <1>1 DEF Submit, FlushAsk, Send, FlushRead, FlushItem, FlushSend, queue
<1>2. CASE Read(h)  BY <1>2 DEF Read
<1>3. CASE Enqueue(h) \/ FlushEnqueue(h)
  <2>1. PICK m : Push(h, m)  BY <1>3 DEF Enqueue, FlushEnqueue
  <2> QED  BY <2>1 DEF Push, Writes
<1>4. CASE Dequeue(h) \/ IncrementRetry(h)
  <2>1. PICK list : Rewrites(h, list)  BY <1>4 DEF Dequeue, IncrementRetry
  <2> QED  BY <1>4, <2>1 DEF Rewrites, Writes
<1> QED  BY <1>1, <1>2, <1>3, <1>4 DEF Proceed

\* A call makes one of these steps.
LEMMA CallsMove ==
  ASSUME TypeOK, NEW h \in Handlers, Submit(h) \/ FlushAsk(h) \/ Proceed(h)
  PROVE  Moves(h)
<1>0. pc \in [Handlers -> States]  BY DEF TypeOK
<1>r. \A g \in Handlers \ {h} : g \in readers' <=> g \in readers
  BY ListsMove DEF ReadOver
<1> SUFFICES Elsewhere(h) \/ Reads(h) \/ Opens(h) \/ WorksOn(h) \/ DoneWith(h)
  BY <1>r DEF Moves
<1>1. CASE Submit(h)
  <2>1. PICK next \in {"send", "enqueue"} : pc' = [pc EXCEPT ![h] = next]
    <3>1. pc' = [pc EXCEPT ![h] = IF online THEN "send" ELSE "enqueue"]  BY <1>1 DEF Submit
    <3> QED  BY <3>1
  <2> QED  BY <1>0, <1>1, <2>1 DEF Submit, Elsewhere, Flushing
<1>2. CASE FlushAsk(h)
  BY <1>0, <1>2 DEF FlushAsk, Goto, Elsewhere, Flushing
<1>3. CASE Enqueue(h) \/ Send(h)
  BY <1>0, <1>3 DEF Enqueue, Send, Done, Elsewhere, Flushing
<1>4. CASE FlushRead(h)  BY <1>4 DEF FlushRead, Reads
<1>5. CASE FlushItem(h)
  <2>1. PICK e \in rest[h] :
          Goto(h, CASE KindOf[e.mutation] = "scan" -> "increment"
                    [] KindOf[e.mutation] # "scan" /\ ~online -> "flush_enqueue"
                    [] KindOf[e.mutation] # "scan" /\ online -> "flush_send")
    BY <1>5 DEF FlushItem
  <2>2. PICK next \in {"increment", "flush_enqueue", "flush_send"} : Goto(h, next)
    BY <2>1
  <2>3. Stage("flush_item") = 3 /\ Stage(next) \in {1, 2}  BY DEF Stage
  <2>4. pc'[h] = next /\ \A g \in Handlers \ {h} : pc'[g] = pc[g]  BY <1>0, <2>2 DEF Goto
  <2> QED  BY <1>5, <2>2, <2>3, <2>4 DEF FlushItem, Goto, WorksOn, Flushing
<1>6. CASE FlushEnqueue(h) \/ FlushSend(h)
  <2>1. PICK next \in {"dequeue", "increment"} : Goto(h, next)
    BY <1>6 DEF FlushEnqueue, FlushSend
  <2>2. pc[h] \in {"flush_enqueue", "flush_send"}  BY <1>6 DEF FlushEnqueue, FlushSend
  <2>3. Stage(pc[h]) = 2 /\ Stage(next) = 1  BY <2>2 DEF Stage
  <2>4. pc'[h] = next /\ \A g \in Handlers \ {h} : pc'[g] = pc[g]  BY <1>0, <2>1 DEF Goto
  <2> QED  BY <2>1, <2>2, <2>3, <2>4 DEF Goto, WorksOn, Flushing
<1>7. CASE Dequeue(h) \/ IncrementRetry(h)
  BY <1>7 DEF Dequeue, IncrementRetry, DoneWith
<1>8. CASE Read(h)  BY <1>8 DEF Read, Opens, locals
<1> QED  BY <1>1, <1>2, <1>3, <1>4, <1>5, <1>6, <1>7, <1>8 DEF Proceed

\* The list stays finite, and what was read of it: an entry at most is added, those that go
\* on are counted on.
LEMMA ListStaysFinite ==
  ASSUME TypeOK, FlushInv, NEW h \in Handlers, Submit(h) \/ FlushAsk(h) \/ Proceed(h)
  PROVE  IsFiniteSet(store') /\ \A g \in Handlers : IsFiniteSet(copy'[g])
<1>0. IsFiniteSet(store) /\ (\A g \in Handlers : IsFiniteSet(copy[g])) /\ IsFiniteSet({})
  BY FS_EmptySet DEF FlushInv
<1>1. \A g \in Handlers : IsFiniteSet(copy'[g])
  <2>1. copy \in [Handlers -> SUBSET Entry]  BY DEF TypeOK
  <2>2. \/ copy' = copy \/ copy' = [copy EXCEPT ![h] = store]
        \/ copy' = [copy EXCEPT ![h] = {}]
    BY ListsMove DEF ReadOver
  <2> QED  BY <1>0, <2>1, <2>2
<1>2. IsFiniteSet(List(h))
  <2>1. List(h) = store \/ List(h) = copy[h]  BY DEF List
  <2> QED  BY <1>0, <2>1
<1> SUFFICES IsFiniteSet(store')  BY <1>1
<1>3. CASE UNCHANGED store  BY <1>0, <1>3
<1>4. ASSUME NEW m, Push(h, m) PROVE IsFiniteSet(store')
  <2>1. store' = store \/ \E e : store' = List(h) \cup {e}  BY <1>4 DEF Push, Writes
  <2>2. \A e : IsFiniteSet(List(h) \cup {e})  BY <1>2, FS_AddElement
  <2> QED  BY <1>0, <2>1, <2>2
<1>5. CASE Dequeue(h)
  <2>1. store' = store \/ store' \in SUBSET List(h)  BY <1>5 DEF Dequeue, Rewrites, Writes
  <2>2. \A S \in SUBSET List(h) : IsFiniteSet(S)  BY <1>2, FS_Subset
  <2> QED  BY <1>0, <2>1, <2>2
<1>6. CASE IncrementRetry(h)
  <2>1. PICK others \in SUBSET List(h), its \in SUBSET List(h) :
          Rewrites(h, others \cup {Retried(f) : f \in its})
    <3>1. PICK e \in rest[h] :
            Rewrites(h, {f \in List(h) : f.id # e.id}
                          \cup {Retried(f) : f \in {f \in List(h) : f.id = e.id}
                                  \ {f \in {g \in List(h) : g.id = e.id} : Spent(f)}})
      BY <1>6 DEF IncrementRetry
    <3> QED  BY <3>1
  <2>2. IsFiniteSet(its) /\ IsFiniteSet(others)  BY <1>2, <2>1, FS_Subset
  <2> DEFINE next == [f \in its |-> Retried(f)]
             changed == {Retried(f) : f \in its}
  <2>3. next \in Surjection(its, changed)  BY DEF Surjection
  <2> HIDE DEF next
  <2>4. IsFiniteSet(changed)  BY <2>2, <2>3, FS_Surjection
  <2>5. store' = store \/ store' = others \cup changed  BY <2>1 DEF Rewrites, Writes
  <2> HIDE DEF changed
  <2>6. IsFiniteSet(others \cup changed)  BY <2>2, <2>4, FS_Union
  <2> QED  BY <1>0, <2>5, <2>6
<1> QED  BY <1>3, <1>4, <1>5, <1>6, ListsMove

\* A flush has entries left from its read to its end, where it gives the lock back.
LEMMA MovesKeepFlushes ==
  ASSUME TypeOK, FlushInv, NEW h \in Handlers, Moves(h), webLocks' = webLocks,
         IsFiniteSet(store'), \A g \in Handlers : IsFiniteSet(copy'[g])
  PROVE  FlushInv'
<1>0. /\ pc \in [Handlers -> States] /\ rest \in [Handlers -> SUBSET Entry]
      /\ NoHandler \notin Handlers
  BY OfflineAssumption DEF TypeOK
<1>1. CASE Elsewhere(h)
  <2>1. \A g \in Handlers : pc'[g] \in Flushing <=> pc[g] \in Flushing
    BY <1>1 DEF Elsewhere
  <2> QED  BY <1>1, <2>1 DEF Elsewhere, FlushInv
<1>2. CASE Reads(h)
  <2>1. /\ \A g \in Handlers \ {h} : pc'[g] = pc[g] /\ rest'[g] = rest[g]
        /\ rest'[h] = store /\ (pc'[h] \in Flushing <=> store # {})
    BY <1>0, <1>2 DEF Reads, Flushing
  <2>2. owner # h  BY <1>0, <1>2 DEF Reads, FlushInv, Flushing
  <2> QED  BY <1>2, <2>1, <2>2 DEF Reads, FlushInv
<1>3. CASE Opens(h)
  BY <1>3 DEF Opens, FlushInv
<1>4. CASE WorksOn(h)
  <2>1. \A g \in Handlers : pc'[g] \in Flushing <=> pc[g] \in Flushing
    BY <1>4 DEF WorksOn
  <2> QED  BY <1>4, <2>1 DEF WorksOn, FlushInv
<1>5. CASE DoneWith(h)
  <2>1. PICK left \in SUBSET rest[h] : Loop(h, left)  BY <1>5 DEF DoneWith
  <2>2. /\ \A g \in Handlers \ {h} : pc'[g] = pc[g] /\ rest'[g] = rest[g]
        /\ rest'[h] = left /\ (pc'[h] \in Flushing <=> left # {})
        /\ owner' = IF left = {} /\ owner = h THEN NoHandler ELSE owner
    BY <1>0, <2>1 DEF Loop, Flushing
  <2>3. IsFiniteSet(left)  BY FS_Subset DEF FlushInv
  <2> QED  BY <2>2, <2>3 DEF FlushInv
<1> QED  BY <1>1, <1>2, <1>3, <1>4, <1>5 DEF Moves

LEMMA NextKeepsFlushes == IInv /\ IInv' /\ FlushInv /\ [Next]_vars => FlushInv'
<1> SUFFICES ASSUME IInv, IInv', FlushInv, [Next]_vars PROVE FlushInv'  OBVIOUS
<1>0. TypeOK /\ webLocks' = webLocks  BY BodiesStep DEF IInv, BodiesGoOn
<1>1. ASSUME NEW h \in Handlers, Submit(h) \/ FlushAsk(h) \/ Proceed(h) PROVE FlushInv'
  <2>1. IsFiniteSet(store') /\ \A g \in Handlers : IsFiniteSet(copy'[g])
    BY <1>0, <1>1, ListStaysFinite
  <2>2. Moves(h)  BY <1>0, <1>1, CallsMove
  <2> QED  BY <1>0, <2>1, <2>2, MovesKeepFlushes
<1>2. CASE GoOffline \/ GoOnline \/ UNCHANGED vars
  <2>1. UNCHANGED <<store, copy, pc, rest, owner>>
    BY <1>2 DEF GoOffline, GoOnline, vars, queue, locals
  <2> QED  BY <1>0, <2>1 DEF FlushInv
<1>3. ASSUME NEW t \in Tabs, Reload(t) PROVE FlushInv'
  <2>1. /\ \A h \in Handlers : IF TabOf[h] = t THEN pc'[h] = "idle" /\ rest'[h] = {}
                               ELSE pc'[h] = pc[h] /\ rest'[h] = rest[h]
        /\ \A h \in Handlers : copy'[h] = {} \/ copy'[h] = copy[h]
        /\ owner' = IF owner \in {h \in Handlers : TabOf[h] = t} THEN NoHandler ELSE owner
        /\ store' = store
    BY <1>3 DEF Reload
  <2>2. IsFiniteSet({}) /\ "idle" \notin Flushing  BY FS_EmptySet DEF Flushing
  <2> QED  BY <1>0, <2>1, <2>2 DEF FlushInv
<1> QED  BY <1>1, <1>2, <1>3 DEF Next

\* A set of entries that is not empty has one with the least id.
LEMMA NextExists ==
  ASSUME TypeOK, NEW h \in Handlers, rest[h] # {}
  PROVE  \E e \in rest[h] : IsNext(h, e)
<1> DEFINE Less == {p \in Nat \X Nat : p[1] < p[2]}
           ids == {e.id : e \in rest[h]}
<1>1. IsWellFoundedOn(Less, Nat)  BY NatLessThanWellFounded, Zenon DEF OpToRel
<1>2. \A i, j \in Nat : i < j => <<i, j>> \in Less  OBVIOUS
<1>3. ids \subseteq Nat /\ ids # {}  BY DEF TypeOK, Entry
<1> HIDE DEF Less, ids
<1>4. PICK i \in ids : \A j \in ids : ~(<<j, i>> \in Less)  BY <1>1, <1>3, WFMin, Zenon
<1>5. ASSUME NEW j \in ids PROVE i =< j
  <2>1. i \in Nat /\ j \in Nat  BY <1>3, <1>4
  <2>2. ~(j < i)  BY <1>2, <1>4, <2>1
  <2> QED  BY <2>1, <2>2
<1>6. PICK e \in rest[h] : e.id = i  BY DEF ids
<1>7. \A f \in rest[h] : f.id \in ids  BY DEF ids
<1> QED  BY <1>5, <1>6, <1>7 DEF IsNext

\* With and without Web Locks, whatever other calls add and remove under it and however
\* tabs are reloaded: a flush finds its next entry, and a call waits only while a flush
\* has the lock, or a call of its tab is between getItem and setItem.
THEOREM CallsWaitForFlushes == Spec => []WaitsOnlyForAFlush
<1>1. Init => FlushInv
  BY FS_EmptySet DEF Init, FlushInv, Flushing
<1>2. Spec => []FlushInv
  BY <1>1, Invariance, NextKeepsFlushes, PTL DEF Spec
<1>3. IInv /\ FlushInv => WaitsOnlyForAFlush
  <2> SUFFICES ASSUME IInv, FlushInv, NEW h \in Handlers, pc[h] # "idle",
                      ~(webLocks /\ owner \in Handlers /\ pc[owner] \in Flushing)
               PROVE  GoesOn(h) \/ \E g \in readers : TabOf[g] = TabOf[h] /\ GoesOn(g)
    BY DEF WaitsOnlyForAFlush
  <2>1. LockFree  BY DEF LockFree, FlushInv
  <2>2. \A g \in Handlers : pc[g] \in Flushing => \E e \in rest[g] : IsNext(g, e)
    BY NextExists DEF FlushInv, IInv
  <2>3. CASE TabFree(h)  BY <2>1, <2>2, <2>3 DEF GoesOn
  <2>4. ASSUME NEW g \in readers, TabOf[g] = TabOf[h]
        PROVE  GoesOn(g)
    <3>1. g \in Handlers  BY DEF IInv, TypeOK
    <3>2. TabFree(g)  BY <3>1 DEF IInv, ReadersAreSound
    <3> QED  BY <2>1, <2>2, <3>1, <3>2 DEF GoesOn
  <2> QED  BY <2>3, <2>4 DEF TabFree
<1> QED  BY <1>2, <1>3, Invariance, PTL

\* A flush has a step left of the round it is in.
LEMMA StageIs ==
  ASSUME NEW p
  PROVE  Stage(p) \in 0..3 /\ (p \in Flushing => Stage(p) >= 1)
BY DEF Stage, Flushing

LEMMA MovesShrink ==
  ASSUME TypeOK, FlushInv, FlushInv', NEW g \in Handlers, Moves(g), NEW h \in Handlers,
         pc[h] \in Flushing,
         pc'[h] # pc[h] \/ rest'[h] # rest[h] \/ (h \in readers') # (h \in readers)
  PROVE  Left(h)' < Left(h)
<1>0. /\ pc \in [Handlers -> States] /\ rest \in [Handlers -> SUBSET Entry]  BY DEF TypeOK
<1>1. h = g
  <2>1. \A q \in Handlers \ {g} : pc'[q] = pc[q] /\ rest'[q] = rest[q]
    BY <1>0 DEF Moves, Elsewhere, Reads, Opens, WorksOn, DoneWith, Loop
  <2>2. \A q \in Handlers \ {g} : (q \in readers') = (q \in readers)  BY DEF Moves
  <2> QED  BY <2>1, <2>2
<1>2. /\ Cardinality(rest[h]) \in Nat /\ Stage(pc[h]) \in 0..3 /\ Stage(pc[h]) >= 1
      /\ Cardinality(rest'[h]) \in Nat /\ Stage(pc'[h]) \in 0..3
  <2>1. IsFiniteSet(rest[h]) /\ IsFiniteSet(rest'[h])  BY DEF FlushInv
  <2>2. Cardinality(rest[h]) \in Nat /\ Cardinality(rest'[h]) \in Nat
    BY <2>1, FS_CardinalityType
  <2> QED  BY <2>2, StageIs
<1>3. CASE WorksOn(h)
  <2>1. rest'[h] = rest[h] /\ Stage(pc'[h]) < Stage(pc[h])  BY <1>3 DEF WorksOn
  <2> QED  BY <1>2, <2>1 DEF Left
<1>4. CASE DoneWith(h)
  <2>1. PICK e \in rest[h] : rest'[h] = rest[h] \ {e}
    BY <1>0, <1>4 DEF DoneWith, Loop
  <2>2. Cardinality(rest[h] \ {e}) = Cardinality(rest[h]) - 1
    BY <2>1, FS_RemoveElement DEF FlushInv
  <2> QED  BY <1>2, <2>1, <2>2 DEF Left
<1>5. CASE Opens(h)
  <2>1. rest'[h] = rest[h] /\ pc'[h] = pc[h] /\ h \notin readers /\ h \in readers'
    BY <1>5 DEF Opens
  <2> QED  BY <1>2, <2>1 DEF Left
<1>6. ~Elsewhere(h) /\ ~Reads(h)  BY DEF Elsewhere, Reads, Flushing
<1> QED  BY <1>1, <1>3, <1>4, <1>5, <1>6 DEF Moves

\* However long the list grows meanwhile, a flush has a number of steps to take that only
\* gets smaller: those of each entry it has read, and those of its loop.
THEOREM FlushesComeToTheirEnd == Spec => FlushesShrink
<1>1. Init => FlushInv
  BY FS_EmptySet DEF Init, FlushInv, Flushing
<1>2. Spec => []FlushInv
  BY <1>1, Invariance, NextKeepsFlushes, PTL DEF Spec
<1>3. IInv /\ FlushInv /\ FlushInv' /\ [Next]_vars =>
        \A h \in Handlers :
          /\ pc[h] \in Flushing
          /\ pc'[h] # pc[h] \/ rest'[h] # rest[h] \/ (h \in readers') # (h \in readers)
          => Left(h)' < Left(h)
  <2> SUFFICES ASSUME IInv, FlushInv, FlushInv', [Next]_vars, NEW h \in Handlers,
                      pc[h] \in Flushing,
                      pc'[h] # pc[h] \/ rest'[h] # rest[h] \/ (h \in readers') # (h \in readers)
               PROVE  Left(h)' < Left(h)
    OBVIOUS
  <2>0. TypeOK  BY DEF IInv
  <2>1. ASSUME NEW g \in Handlers, Submit(g) \/ FlushAsk(g) \/ Proceed(g)
        PROVE  Left(h)' < Left(h)
    <3>1. Moves(g)  BY <2>0, <2>1, CallsMove
    <3> QED  BY <2>0, <3>1, MovesShrink
  <2>2. ASSUME NEW t \in Tabs, Reload(t)
        PROVE  Left(h)' < Left(h)
    <3>1. \/ rest'[h] = {} /\ pc'[h] = "idle"
          \/ UNCHANGED <<rest[h], pc[h]>> /\ (h \in readers' <=> h \in readers)
      BY <2>2 DEF Reload
    <3>2. Cardinality({}) = 0 /\ Stage("idle") = 0  BY FS_EmptySet DEF Stage
    <3>3. /\ Cardinality(rest[h]) \in Nat /\ Stage(pc[h]) \in 0..3 /\ Stage(pc[h]) >= 1
          /\ rest[h] # {} /\ IsFiniteSet(rest[h])
      BY StageIs, FS_CardinalityType DEF FlushInv
    <3>4. Cardinality(rest[h]) # 0  BY <3>3, FS_EmptySet
    <3>5. rest'[h] = {} /\ pc'[h] = "idle"  BY <3>1
    <3> QED  BY <3>2, <3>3, <3>4, <3>5 DEF Left
  <2>3. CASE GoOffline \/ GoOnline \/ UNCHANGED vars
    BY <2>3 DEF GoOffline, GoOnline, vars, locals, queue
  <2> QED  BY <2>1, <2>2, <2>3 DEF Next
<1> QED  BY <1>2, <1>3, Invariance, PTL DEF Spec, FlushesShrink
=============================================================================
