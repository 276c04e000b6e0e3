---------------------------- MODULE OfflineQueue ----------------------------
(***************************************************************************)
(* Finance mutations made while the browser is offline: OfflineQueue, a    *)
(* list in localStorage that every tab shares, useTransactionSync, which   *)
(* fills it or sends to the server, and useOfflineQueue, which flushes it  *)
(* on the browser's 'online' event.                                        *)
(*                                                                         *)
(* OfflineQueue.withLock runs its body under an exclusive Web Lock, or     *)
(* just runs it where the browser has none (navigator.locks exists in      *)
(* secure contexts only).  A request of the holder itself waits like any   *)
(* other.  The bodies of enqueue, dequeue and incrementRetry never await:  *)
(* under the lock each is one step.  Without it, the tabs run in parallel, *)
(* and each is two, getItem and setItem: another tab may write the list in *)
(* between, but nothing else of the same tab runs.                         *)
(*                                                                         *)
(* The list is modelled as the set of its entries: ids grow, entries are   *)
(* pushed at its end, and whatever is removed leaves the rest in order.    *)
(***************************************************************************)
EXTENDS Integers, FiniteSets

CONSTANTS
  Tabs,        \* the open tabs of the application
  Handlers,    \* the asynchronous calls that can be under way in them
  TabOf,       \* the tab each call runs in
  Mutations,   \* what users do: transactions, receipts and scans
  KindOf,      \* "transaction", "receipt" or "scan"
  Browsers,    \* the browsers considered: with navigator.locks, without, or both
  MaxRetry,    \* MAX_RETRY, 5 in the code
  NoHandler,   \* nobody holds the lock
  NoMutation,  \* a handler that works on none
  MaxEntries,  \* bound: how many entries are ever queued
  MaxDrops,    \* bound: how often the network goes away
  MaxReloads,  \* bound: how often a tab is closed or reloaded
  MaxFailures  \* bound: calls of the server that fail, or whose answer is lost

ASSUME OfflineAssumption ==
  /\ IsFiniteSet(Handlers)
  /\ TabOf \in [Handlers -> Tabs]
  /\ KindOf \in [Mutations -> {"transaction", "receipt", "scan"}]
  /\ Browsers \subseteq BOOLEAN
  /\ MaxRetry \in Nat \ {0}
  /\ NoHandler \notin Handlers
  /\ NoMutation \notin Mutations
  /\ {MaxEntries, MaxDrops, MaxReloads, MaxFailures} \subseteq Nat

VARIABLES
  webLocks,  \* whether the browser has navigator.locks
  online,    \* navigator.onLine
  signalled, \* the tabs whose 'online' listener is still to run
  store,     \* et_offline_queue: entries with id, mutation and retryCount
  nextId,    \* stands for crypto.randomUUID()
  refused,   \* history: the mutations for which localStorage was full
  readers,   \* the handlers between their getItem and their setItem
  copy,      \* the list as each of them read it
  overwritten, \* history: the mutations whose entry another tab's setItem dropped
  owner,     \* the handler that holds et_offline_lock
  pc,        \* what each handler does next
  work,      \* the mutation of a user's call
  rest,      \* the entries a flush has read and not done with
  told,      \* what the user was told of each mutation
  saved,     \* how many transactions the server holds for each mutation
  evicted,   \* the mutations given up after MAX_RETRY
  drops, reloads, failures,
  alone      \* history: no two calls have yet been under way at once

locals == <<pc, work, rest>>
server == <<saved, failures>>
network == <<online, signalled, drops>>
queue == <<store, nextId, refused, readers, copy, overwritten>>
vars == <<webLocks, network, queue, owner, locals, told, server, evicted, reloads, alone>>

Entry == [id : Nat, mutation : Mutations, tries : 0..(MaxRetry - 1)]

Init ==
  /\ webLocks \in Browsers
  /\ online = TRUE
  /\ signalled = {}
  /\ store = {}
  /\ nextId = 0
  /\ refused = {} /\ overwritten = {}
  /\ readers = {}
  /\ copy = [h \in Handlers |-> {}]
  /\ owner = NoHandler
  /\ pc = [h \in Handlers |-> "idle"]
  /\ work = [h \in Handlers |-> NoMutation]
  /\ rest = [h \in Handlers |-> {}]
  /\ told = [m \in Mutations |-> "nothing"]
  /\ saved = [m \in Mutations |-> 0]
  /\ evicted = {}
  /\ drops = 0 /\ reloads = 0 /\ failures = 0
  /\ alone = TRUE

-----------------------------------------------------------------------------
(* The lock *)

\* Faulty variant of LockFree: used by no action.
Unlocked == TRUE

LockFree == webLocks => owner = NoHandler

\* The first entry a flush has still to do.
IsNext(h, e) == e \in rest[h] /\ \A f \in rest[h] : e.id =< f.id

\* The for loop goes on with the entries left, or the flush ends and gives the
\* lock back.
Loop(h, entries) ==
  /\ rest' = [rest EXCEPT ![h] = entries]
  /\ pc' = [pc EXCEPT ![h] = IF entries = {} THEN "idle" ELSE "flush_item"]
  /\ owner' = IF entries = {} /\ owner = h THEN NoHandler ELSE owner
  /\ UNCHANGED work

Goto(h, next) ==
  /\ pc' = [pc EXCEPT ![h] = next]
  /\ UNCHANGED <<work, rest, owner>>

\* A call starts.
Starts(h) == alone' = (alone /\ \A g \in Handlers \ {h} : pc[g] = "idle")

Done(h) ==
  /\ pc' = [pc EXCEPT ![h] = "idle"]
  /\ work' = [work EXCEPT ![h] = NoMutation]
  /\ UNCHANGED <<rest, owner>>

-----------------------------------------------------------------------------
(* localStorage *)

\* The calls whose next step is the body of enqueue, dequeue or incrementRetry.
AtBody(h) == pc[h] \in {"enqueue", "flush_enqueue", "dequeue", "increment"}

\* getItem, where a setItem of another tab may come before this call's own.
Read(h) ==
  /\ AtBody(h)
  /\ ~webLocks /\ h \notin readers
  /\ readers' = readers \union {h}
  /\ copy' = [copy EXCEPT ![h] = store]
  /\ UNCHANGED <<webLocks, network, store, nextId, refused, overwritten, owner, locals, told,
                 server, evicted, reloads, alone>>

\* Whether the body may write, and the list it writes from.
HasRead(h) == webLocks \/ h \in readers
List(h) == IF webLocks THEN store ELSE copy[h]

\* The body is over.
ReadOver(h) ==
  /\ readers' = readers \ {h}
  /\ copy' = [copy EXCEPT ![h] = {}]

\* Its setItem.  What other tabs have queued since its getItem is lost.
Writes(h, list) ==
  /\ store' = list
  /\ overwritten' = overwritten \union
       {f.mutation : f \in {g \in store : \A e \in List(h) : e.id # g.id}}
  /\ ReadOver(h)

\* dequeue and incrementRetry write a list they have changed.
Rewrites(h, list) ==
  \/ list # List(h) /\ Writes(h, list)
  \/ list = List(h) /\ ReadOver(h) /\ UNCHANGED <<store, overwritten>>

\* No other call of the tab is in the middle of a body.
TabFree(h) == \A g \in readers \ {h} : TabOf[g] # TabOf[h]

-----------------------------------------------------------------------------
(* Users: addTransaction, saveReceipt, and scans of receipts *)

\* isOffline is read once.  What a scan does online is no matter of the queue.
Submit(h) ==
  /\ pc[h] = "idle"
  /\ \E m \in Mutations :
       /\ told[m] = "nothing"
       /\ told' = [told EXCEPT ![m] = "pending"]
       /\ KindOf[m] = "scan" => ~online
       /\ work' = [work EXCEPT ![h] = m]
       /\ pc' = [pc EXCEPT ![h] = IF online THEN "send" ELSE "enqueue"]
  /\ Starts(h)
  /\ UNCHANGED <<webLocks, network, queue, owner, rest, server, evicted, reloads>>

\* OfflineQueue.enqueue.  It catches what setItem throws when localStorage is full,
\* and returns no id; no caller looks at what it returns.
Push(h, m) ==
  \/ /\ nextId < MaxEntries
     /\ Writes(h, List(h) \union {[id |-> nextId, mutation |-> m, tries |-> 0]})
     /\ nextId' = nextId + 1
     /\ UNCHANGED refused
  \/ /\ refused' = refused \union {m}
     /\ ReadOver(h)
     /\ UNCHANGED <<store, nextId, overwritten>>

Enqueue(h) ==
  /\ pc[h] = "enqueue" /\ LockFree /\ HasRead(h)
  /\ Push(h, work[h])
  /\ told' = [told EXCEPT ![work[h]] = "queued"]
  /\ Done(h)
  /\ UNCHANGED <<webLocks, network, server, evicted, reloads, alone>>

\* The remote procedure: one transaction in the server's database.
Saves(m) == saved' = [saved EXCEPT ![m] = @ + 1] /\ UNCHANGED failures

\* It fails, or the answer is lost.  saveReceipt tries three times, with the id of
\* one transaction, which the procedure inserts or updates: one call of it is
\* one transaction at most.
Fails(m) ==
  /\ failures < MaxFailures
  /\ failures' = failures + 1
  /\ UNCHANGED saved \/ saved' = [saved EXCEPT ![m] = @ + 1]

Send(h) ==
  /\ pc[h] = "send"
  /\ \/ /\ Saves(work[h])
        /\ told' = [told EXCEPT ![work[h]] = "saved"]
     \/ /\ Fails(work[h])
        /\ told' = [told EXCEPT ![work[h]] = "failed"]
  /\ Done(h)
  /\ UNCHANGED <<webLocks, network, queue, evicted, reloads, alone>>

-----------------------------------------------------------------------------
(* useOfflineQueue *)

\* handleOnline asks for the lock.
FlushAsk(h) ==
  /\ pc[h] = "idle" /\ TabOf[h] \in signalled
  /\ signalled' = signalled \ {TabOf[h]}
  /\ Starts(h)
  /\ Goto(h, "flush_ask")
  /\ UNCHANGED <<webLocks, online, drops, queue, told, server, evicted, reloads>>

\* Faulty variant of FlushRead: used by no action.
DrainOnRead(h) ==
  /\ pc[h] = "flush_ask" /\ LockFree
  /\ rest' = [rest EXCEPT ![h] = store]
  /\ store' = {}
  /\ pc' = [pc EXCEPT ![h] = IF store = {} THEN "idle" ELSE "flush_item"]
  /\ owner' = IF webLocks /\ store # {} THEN h ELSE owner
  /\ UNCHANGED <<webLocks, network, nextId, refused, readers, copy, overwritten, work, told,
                 server, evicted, reloads, alone>>

\* It gets it, and reads the queue.
FlushRead(h) ==
  /\ pc[h] = "flush_ask" /\ LockFree
  /\ rest' = [rest EXCEPT ![h] = store]
  /\ pc' = [pc EXCEPT ![h] = IF store = {} THEN "idle" ELSE "flush_item"]
  /\ owner' = IF webLocks /\ store # {} THEN h ELSE owner
  /\ UNCHANGED <<webLocks, network, queue, work, told, server, evicted, reloads, alone>>

\* Faulty variant of FlushItem: used by no action.
WaitOnline(h) ==
  /\ pc[h] = "flush_item" /\ online
  /\ \E e \in rest[h] :
       /\ IsNext(h, e)
       /\ Goto(h, IF KindOf[e.mutation] = "scan" THEN "increment" ELSE "flush_send")
  /\ UNCHANGED <<webLocks, network, queue, told, server, evicted, reloads, alone>>

\* The callback begins.  A scan was queued without a receipt to save, so that
\* saveReceipt throws on it; the others look at isOffline again.
FlushItem(h) ==
  /\ pc[h] = "flush_item"
  /\ \E e \in rest[h] :
       /\ IsNext(h, e)
       /\ Goto(h, CASE KindOf[e.mutation] = "scan" -> "increment"
                    [] KindOf[e.mutation] # "scan" /\ ~online -> "flush_enqueue"
                    [] KindOf[e.mutation] # "scan" /\ online -> "flush_send")
  /\ UNCHANGED <<webLocks, network, queue, told, server, evicted, reloads, alone>>

FlushEnqueue(h) ==
  /\ pc[h] = "flush_enqueue" /\ LockFree /\ HasRead(h)
  /\ \E e \in rest[h] : IsNext(h, e) /\ Push(h, e.mutation)
  /\ Goto(h, "dequeue")
  /\ UNCHANGED <<webLocks, network, told, server, evicted, reloads, alone>>

FlushSend(h) ==
  /\ pc[h] = "flush_send"
  /\ \E e \in rest[h] :
       /\ IsNext(h, e)
       /\ \/ Saves(e.mutation) /\ Goto(h, "dequeue")
          \/ Fails(e.mutation) /\ Goto(h, "increment")
  /\ UNCHANGED <<webLocks, network, queue, told, evicted, reloads, alone>>

\* Faulty variant of Dequeue: used by no action.
KeepEntry(h) ==
  /\ pc[h] = "dequeue" /\ LockFree /\ HasRead(h)
  /\ \E e \in rest[h] : IsNext(h, e) /\ Loop(h, rest[h] \ {e})
  /\ ReadOver(h)
  /\ UNCHANGED <<webLocks, network, store, nextId, refused, overwritten, told, server,
                 evicted, reloads, alone>>

Dequeue(h) ==
  /\ pc[h] = "dequeue" /\ LockFree /\ HasRead(h)
  /\ \E e \in rest[h] :
       /\ IsNext(h, e)
       /\ Rewrites(h, {f \in List(h) : f.id # e.id})
       /\ Loop(h, rest[h] \ {e})
  /\ UNCHANGED <<webLocks, network, nextId, refused, told, server, evicted, reloads, alone>>

Retried(f) == [id |-> f.id, mutation |-> f.mutation, tries |-> f.tries + 1]

\* Faulty variant of Spent: used by no action.
SpentEarly(f) == f.tries + 1 >= MaxRetry - 1

Spent(f) == f.tries + 1 >= MaxRetry

\* One more failure of the entry, which is evicted at the last.
IncrementRetry(h) ==
  /\ pc[h] = "increment" /\ LockFree /\ HasRead(h)
  /\ \E e \in rest[h] :
       LET others == {f \in List(h) : f.id # e.id}
           its == {f \in List(h) : f.id = e.id}
           gone == {f \in its : Spent(f)}
       IN  /\ IsNext(h, e)
           /\ Rewrites(h, others \union {Retried(f) : f \in its \ gone})
           /\ evicted' = evicted \union {f.mutation : f \in gone}
           /\ Loop(h, rest[h] \ {e})
  /\ UNCHANGED <<webLocks, network, nextId, refused, told, server, reloads, alone>>

-----------------------------------------------------------------------------
(* The browser *)

GoOffline ==
  /\ online /\ drops < MaxDrops
  /\ online' = FALSE
  /\ drops' = drops + 1
  /\ UNCHANGED <<webLocks, signalled, queue, owner, locals, told, server, evicted, reloads, alone>>

\* Every tab gets the event.
GoOnline ==
  /\ ~online
  /\ online' = TRUE
  /\ signalled' = Tabs
  /\ UNCHANGED <<webLocks, drops, queue, owner, locals, told, server, evicted, reloads, alone>>

\* The tab is closed and opened again, or reloaded: its calls are gone, and a lock
\* they held is released.
Reload(t) ==
  LET its == {h \in Handlers : TabOf[h] = t} IN
  /\ reloads < MaxReloads
  /\ reloads' = reloads + 1
  /\ pc' = [h \in Handlers |-> IF h \in its THEN "idle" ELSE pc[h]]
  /\ work' = [h \in Handlers |-> IF h \in its THEN NoMutation ELSE work[h]]
  /\ rest' = [h \in Handlers |-> IF h \in its THEN {} ELSE rest[h]]
  /\ owner' = IF owner \in its THEN NoHandler ELSE owner
  /\ readers' = readers \ its
  /\ copy' = [h \in Handlers |-> IF h \in its THEN {} ELSE copy[h]]
  /\ signalled' = signalled \ {t}
  /\ UNCHANGED <<webLocks, online, drops, store, nextId, refused, overwritten, told, server,
                 evicted, alone>>

-----------------------------------------------------------------------------
\* A call under way goes on.
Proceed(h) == Read(h) \/ Enqueue(h) \/ Send(h) \/ FlushRead(h) \/ FlushItem(h)
              \/ FlushEnqueue(h) \/ FlushSend(h) \/ Dequeue(h) \/ IncrementRetry(h)

Next ==
  \/ \E h \in Handlers : TabFree(h) /\ (Submit(h) \/ FlushAsk(h) \/ Proceed(h))
  \/ GoOffline
  \/ GoOnline
  \/ \E t \in Tabs : Reload(t)

Spec == Init /\ [][Next]_vars

\* The browser runs what can run: promises are settled, and the lock is granted
\* in the order of the requests.
FairSpec == Spec /\ \A h \in Handlers : SF_vars(TabFree(h) /\ Proceed(h))

-----------------------------------------------------------------------------
(* Properties *)

States == {"idle", "enqueue", "send", "flush_ask", "flush_item", "flush_enqueue",
           "flush_send", "dequeue", "increment"}
Flushing == {"flush_item", "flush_enqueue", "flush_send", "dequeue", "increment"}

\* Every variable has its type.
TypeOK ==
  /\ online \in BOOLEAN
  /\ signalled \subseteq Tabs
  /\ webLocks \in BOOLEAN
  /\ store \subseteq Entry
  /\ readers \subseteq Handlers
  /\ copy \in [Handlers -> SUBSET Entry]
  /\ nextId \in Nat
  /\ owner \in Handlers \union {NoHandler}
  /\ pc \in [Handlers -> States]
  /\ work \in [Handlers -> Mutations \union {NoMutation}]
  /\ rest \in [Handlers -> SUBSET Entry]
  /\ told \in [Mutations -> {"nothing", "pending", "queued", "saved", "failed"}]
  /\ saved \in [Mutations -> Nat]
  /\ evicted \subseteq Mutations
  /\ refused \subseteq Mutations /\ overwritten \subseteq Mutations
  /\ alone \in BOOLEAN
  /\ drops \in 0..MaxDrops /\ reloads \in 0..MaxReloads /\ failures \in 0..MaxFailures

\* The mutation is in no danger, or lost already: localStorage refused it or another tab
\* overwrote its entry, the server has saved it, or it was evicted, or an entry after the
\* id still asks for it.
KeptAfter(m, id) ==
  \/ m \in refused \union overwritten
  \/ saved[m] > 0
  \/ m \in evicted
  \/ \E f \in store : f.mutation = m /\ f.id > id

\* What the user was told is queued is not lost, whatever flushes, drops and reloads
\* do: unless localStorage refused it, or, without Web Locks, another tab that had
\* read the list before wrote it after, it is in the list until the server has saved
\* it, or it was evicted.
QueuedIsKept ==
  \A m \in Mutations \ refused : told[m] = "queued" =>
    \/ \E e \in store : e.mutation = m
    \/ saved[m] > 0
    \/ m \in evicted
    \/ ~webLocks /\ m \in overwritten

\* Nothing is evicted before MAX_RETRY flushes have failed on it: a receipt or a
\* transaction, only when that many calls of the server failed.
EvictedAfterFailures ==
  \A m \in evicted : KindOf[m] # "scan" => failures >= MaxRetry

\* 'Use mutual exclusion lock to ensure only one tab flushes the queue.'
OneTabFlushes ==
  webLocks => \A g, h \in Handlers : pc[g] \in Flushing /\ pc[h] \in Flushing => g = h

\* Where there are Web Locks, a mutation is saved twice only after a tab was
\* reloaded between the save and the removal of its entry.
DuplicatesTakeReloads ==
  webLocks => \A m \in Mutations : saved[m] =< 1 + reloads

\* Without Web Locks, as long as no two calls overlap, no call of the server fails
\* and no tab is reloaded, nothing is saved twice, although the network comes and
\* goes in the middle of a flush.
SavedOnceUnlessRaced ==
  alone /\ failures = 0 /\ reloads = 0 => \A m \in Mutations : saved[m] =< 1

\* A flush ends, where the browser has no Web Locks: whatever other flushes and failing
\* calls do, each entry it has read is done with.
FlushEnds ==
  \A h \in Handlers : ~webLocks /\ pc[h] \in Flushing ~> pc[h] \notin Flushing

\* 'nested locks are fine with navigator.locks', says the flush of its dequeue: with and
\* without Web Locks, a flush ends.
NestedLocksAreFine == \A h \in Handlers : pc[h] \in Flushing ~> pc[h] \notin Flushing

-----------------------------------------------------------------------------
(* Why nested locks are not fine, proved in OfflineQueueProofs                *)

\* Where there are Web Locks a flush that has an entry waits, when it comes to remove it,
\* for the lock it holds, and nothing but a reload ends it.
FlushNeedsReload ==
  [][\A h \in Handlers :
       webLocks /\ pc[h] \in Flushing /\ pc'[h] \notin Flushing => reloads' > reloads]_vars

-----------------------------------------------------------------------------
(* The inductive invariant *)

\* The entries of the list, and those a call has read and may write back,
Listed == store \union UNION {copy[h] : h \in Handlers}

\* and those a flush is to send.
Seen == Listed \union UNION {rest[h] : h \in Handlers}

\* An id is used once, and stands for one mutation wherever it was read.
IdsAreUnique ==
  /\ \A e \in Seen : e.id < nextId
  /\ \A e, f \in Seen : e.id = f.id => e.mutation = f.mutation

\* An entry about to be removed is no longer needed.
RemovedIsKept ==
  \A h \in Handlers : pc[h] = "dequeue" =>
    \A e \in rest[h] : IsNext(h, e) => KeptAfter(e.mutation, e.id)

\* A flush holds the lock, and a user's call knows its mutation.
CallsAreSound ==
  \A h \in Handlers :
    /\ webLocks /\ pc[h] \in Flushing => owner = h
    /\ pc[h] \in {"enqueue", "send"} => work[h] \in Mutations

\* Only where there are no Web Locks does a body take two steps, and nothing else of its
\* tab comes between them.
ReadersAreSound ==
  /\ webLocks => readers = {} /\ overwritten = {}
  /\ \A h \in Handlers :
       /\ h \in readers => AtBody(h) /\ TabFree(h)
       /\ h \notin readers => copy[h] = {}

\* The whole of it: what TLC checks and what each step is proved to preserve.
IInv ==
  /\ TypeOK
  /\ IdsAreUnique
  /\ RemovedIsKept
  /\ CallsAreSound
  /\ ReadersAreSound
  /\ QueuedIsKept

\* The calls that have failed on the entry with this id and not yet counted it.
AtIncrement(i) ==
  {h \in Handlers : pc[h] = "increment" /\ \E e \in rest[h] : IsNext(h, e) /\ e.id = i}

\* Each failure is one try of one entry, or about to become one: what makes
\* EvictedAfterFailures inductive.
FailuresCounted ==
  \A f \in Listed : KindOf[f.mutation] # "scan" =>
    f.tries + Cardinality(AtIncrement(f.id)) =< failures

\* A user's call works on a mutation of its own, which nobody has saved or queued.
CallsOwnMutations ==
  /\ \A m \in Mutations : told[m] = "nothing" =>
       saved[m] = 0 /\ \A e \in Seen : e.mutation # m
  /\ \A h \in Handlers : pc[h] \in {"enqueue", "send"} =>
       /\ told[work[h]] = "pending" /\ saved[work[h]] = 0
       /\ \A e \in Seen : e.mutation # work[h]
       /\ \A g \in Handlers : pc[g] \in {"enqueue", "send"} /\ work[g] = work[h] => g = h

\* Where there are Web Locks, a flush waits at its second request of the lock, so that
\* it has saved one entry at most and holds the lock until a reload: what makes
\* DuplicatesTakeReloads inductive.
Waits == \E h \in Handlers : pc[h] \in {"dequeue", "increment"}
SavedByHolders ==
  webLocks => \A m \in Mutations :
    /\ saved[m] =< 1 + reloads
    /\ (\E e \in Seen : e.mutation = m) => saved[m] =< reloads + (IF Waits THEN 1 ELSE 0)

\* The entry is about to be removed.
Doomed(f) ==
  \E h \in Handlers : pc[h] = "dequeue" /\ \E e \in rest[h] : IsNext(h, e) /\ e.id = f.id

\* No two calls have overlapped, and none has failed or was cut off.
Calm == alone /\ failures = 0 /\ reloads = 0

OneAtWork == \A g, h \in Handlers : pc[g] # "idle" /\ pc[h] # "idle" => g = h

ReadsAreStored ==
  /\ \A h \in Handlers : pc[h] \in Flushing => rest[h] \subseteq store
  /\ \A h \in readers : copy[h] = store

\* A mutation has one entry that is not about to be removed, and is not saved yet.
LiveEntries ==
  /\ \A e, f \in store : e.id = f.id => e = f
  /\ \A f \in store : ~Doomed(f) => saved[f.mutation] = 0
  /\ \A e, f \in store : ~Doomed(e) /\ ~Doomed(f) /\ e.mutation = f.mutation => e = f
  /\ \A m \in Mutations : saved[m] =< 1

\* What makes SavedOnceUnlessRaced inductive.
OneLiveEntry == Calm => OneAtWork /\ ReadsAreStored /\ LiveEntries

-----------------------------------------------------------------------------
(* Why flushes end, proved in OfflineQueueProofs.                             *)

\* The next step of a call under way waits for nothing.
GoesOn(h) ==
  /\ pc[h] \in {"enqueue", "flush_ask", "flush_enqueue", "dequeue", "increment"} => LockFree
  /\ pc[h] \in Flushing => \E e \in rest[h] : IsNext(h, e)
  /\ TabFree(h)

\* The safety behind FlushEnds: whatever entries come and go under it, a flush always finds
\* its next one, and no call ever waits but for the lock, while a flush has it, or for the
\* setItem of a call of its tab, which waits for nothing.
WaitsOnlyForAFlush ==
  \A h \in Handlers : pc[h] # "idle" =>
    \/ GoesOn(h)
    \/ webLocks /\ owner \in Handlers /\ pc[owner] \in Flushing
    \/ \E g \in readers : TabOf[g] = TabOf[h] /\ GoesOn(g)

\* The steps a flush has still to take, at most.
Stage(p) == CASE p = "flush_item" -> 3
              [] p \in {"flush_enqueue", "flush_send"} -> 2
              [] p \in {"dequeue", "increment"} -> 1
              [] OTHER -> 0
Left(h) == 6 * Cardinality(rest[h]) + 2 * Stage(pc[h]) + (IF h \in readers THEN 0 ELSE 1)

\* Each step of a flush brings it nearer to its end, for ever so many entries that it or
\* others queue meanwhile: it does not read the list again.
FlushesShrink ==
  [][\A h \in Handlers :
       /\ pc[h] \in Flushing
       /\ pc'[h] # pc[h] \/ rest'[h] # rest[h] \/ (h \in readers') # (h \in readers)
       => Left(h)' < Left(h)]_vars

\* A flush has an entry to do as long as it runs, and nobody else has the lock.
FlushInv ==
  /\ IsFiniteSet(store)
  /\ \A h \in Handlers : IsFiniteSet(copy[h])
  /\ \A h \in Handlers : IsFiniteSet(rest[h]) /\ (pc[h] \in Flushing <=> rest[h] # {})
  /\ owner # NoHandler => webLocks /\ owner \in Handlers /\ pc[owner] \in Flushing
=============================================================================
