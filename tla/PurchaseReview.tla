--------------------------- MODULE PurchaseReview ---------------------------
(***************************************************************************)
(* The quarantine of purchases: the functions that decide a purchase, and  *)
(* the card of the dashboard that counts what waits (NeedsAttentionCard)   *)
(* and opens the review in which one user decides.                         *)
(*                                                                         *)
(* The card is one tab.  Other tabs reach the database through the same    *)
(* function, with any decision on any purchase they may have listed:       *)
(* Elsewhere.  The functions write the columns resolved_at and released_at *)
(* of tables that no migration gives them; Schemas says over which columns *)
(* they are run.                                                           *)
(***************************************************************************)
EXTENDS Naturals, FiniteSets

CONSTANTS
  Purchases,   \* one tenant's, as every query asks for one
  Anomalies,
  Of,          \* the purchase of each anomaly
  Schemas,     \* the sets of columns the tables may have; under the migrations {}
  Kinds,       \* the counts followed; "pending" is the one the review is opened from
  Fetches,     \* the fetches of the counts that can be under way at once
  Reviews,     \* the reads of the review's list that can be
  Requests,    \* the decisions that can be
  NoItems,     \* items before the first fetch has landed
  Nobody,      \* actionLoading is null
  MaxDisturbances \* bound on what others do, changes of the month and calls that fail

Decisions == {"RELEASED", "REJECTED"}
Written == {"resolved_at", "released_at"}

ASSUME ReviewAssumption ==
  /\ IsFiniteSet(Purchases) /\ IsFiniteSet(Anomalies)
  /\ Of \in [Anomalies -> Purchases]
  /\ Schemas \subseteq SUBSET Written
  /\ "pending" \in Kinds /\ Kinds \subseteq {"pending", "rejected", "anomalies"}
  /\ Nobody \notin Purchases
  /\ MaxDisturbances \in Nat

VARIABLES
  columns,      \* the columns the tables have
  status,       \* quarantine_status of each purchase, or "absent"
  queue,        \* the status of each anomaly, or "absent"
  items,        \* the counts shown, or NoItems
  loading,
  fetch,        \* each fetchItems: the counts it has read
  modal,        \* isReviewModalOpen
  modalLoading,
  rows,         \* pendingRows
  review,       \* each read of openReviewModal
  acting,       \* actionLoading: the row whose buttons are disabled, or Nobody
  request,      \* each handleResolve: the purchase, the decision, the answer
  last,         \* history: whether the counts shown are the newest fetch's, all read
  dirty,        \* history: something changed since the last fetch started that the
                \* card is not told of
  told,         \* history: the purchases whose decision the card has been told, and
                \* that no list read before it has brought back
  left,         \* history: anomalies added to a decided purchase or too young when
                \* their purchase was released for its age
  disturbances

database == <<columns, status, queue, left>>
counts == <<items, loading, fetch, last>>
dialog == <<modal, modalLoading, rows, review>>
deciding == <<acting, request, told>>
vars == <<database, counts, dialog, deciding, dirty, disturbances>>

Unread == [k \in Kinds |-> Cardinality(Purchases) + Cardinality(Anomalies) + 1]
NoFetch == [state |-> "idle", read |-> Unread, whole |-> TRUE, newest |-> FALSE]
NewFetch == [NoFetch EXCEPT !.state = "asking", !.newest = TRUE]
NoReview == [state |-> "idle", rows |-> {}]
NoRequest == [state |-> "idle", on |-> Nobody, decision |-> "REJECTED", told |-> FALSE]

Idle(slots) == {s \in DOMAIN slots : slots[s].state = "idle"}

Disturb == disturbances < MaxDisturbances /\ disturbances' = disturbances + 1
Decided(p) == status[p] \in Decisions

-----------------------------------------------------------------------------
Init ==
  /\ columns \in Schemas
  /\ status \in [Purchases -> {"absent", "PENDING"}]
  /\ queue \in [Anomalies -> {"absent", "OPEN"}]
  /\ \A a \in Anomalies : queue[a] = "OPEN" => status[Of[a]] = "PENDING"
  /\ items = NoItems
  /\ loading = TRUE
  /\ \E first \in Fetches : fetch = [[f \in Fetches |-> NoFetch] EXCEPT ![first] = NewFetch]
  /\ modal = FALSE
  /\ modalLoading = FALSE
  /\ rows = {}
  /\ review = [r \in Reviews |-> NoReview]
  /\ acting = Nobody
  /\ request = [q \in Requests |-> NoRequest]
  /\ last = FALSE
  /\ dirty = FALSE
  /\ told = {}
  /\ left = {}
  /\ disturbances = 0

-----------------------------------------------------------------------------
\* A purchase arrives; the column's default quarantines it.
Insert(p) ==
  /\ status[p] = "absent"
  /\ Disturb
  /\ status' = [status EXCEPT ![p] = "PENDING"]
  /\ dirty' = TRUE
  /\ UNCHANGED <<columns, queue, left, counts, dialog, deciding>>

\* A check finds an anomaly of a purchase.
AddAnomaly(a) ==
  /\ queue[a] = "absent" /\ status[Of[a]] # "absent"
  /\ Disturb
  /\ queue' = [queue EXCEPT ![a] = "OPEN"]
  /\ left' = IF Decided(Of[a]) THEN left \cup {a} ELSE left
  /\ dirty' = TRUE
  /\ UNCHANGED <<columns, status, counts, dialog, deciding>>

Closed(as) == [a \in Anomalies |-> IF a \in as /\ queue[a] = "OPEN" THEN "RESOLVED" ELSE queue[a]]

\* The rows of the queue that a decision closes: all of the purchase.
AnomaliesOf(p) == {a \in Anomalies : Of[a] = p}

\* Faulty variant of ResolvePurchase: used by no action.
ResolveInTwo(p, decision) ==
  /\ status' = [status EXCEPT ![p] = decision]
  /\ queue' = IF "resolved_at" \in columns THEN Closed(AnomaliesOf(p)) ELSE queue

\* resolve_purchase_quarantine_v1 asks for no status of the purchase before it, and
\* is one transaction: without the column nothing of it is kept.
ResolvePurchase(p, decision) ==
  IF "resolved_at" \in columns
  THEN /\ status' = [status EXCEPT ![p] = decision]
       /\ queue' = Closed(AnomaliesOf(p))
  ELSE UNCHANGED <<status, queue>>

\* Another tab decides, from a list of its own.
Elsewhere(p, decision) ==
  /\ status[p] # "absent" /\ "resolved_at" \in columns
  /\ Disturb
  /\ ResolvePurchase(p, decision)
  /\ dirty' = TRUE
  /\ UNCHANGED <<columns, left, counts, dialog, deciding>>

\* release_expired_quarantines_v1 for this tenant: what was rejected is released like
\* what was never reviewed. Which purchases, and which of their anomalies, were created
\* more than 30 days before is left open. Without the columns the tenant's block is
\* undone.
ReleaseExpired(expired, overdue) ==
  /\ Written \subseteq columns
  /\ expired # {} /\ \A p \in expired : status[p] \in {"PENDING", "REJECTED"}
  /\ \A a \in overdue : queue[a] = "OPEN" /\ (Of[a] \in expired \/ status[Of[a]] = "RELEASED")
  /\ status' = [p \in Purchases |-> IF p \in expired THEN "RELEASED" ELSE status[p]]
  /\ queue' = Closed(overdue)
  /\ left' = left \cup {a \in Anomalies \ overdue : queue[a] = "OPEN" /\ Of[a] \in expired}
  /\ dirty' = TRUE
  /\ UNCHANGED <<columns, counts, dialog, deciding, disturbances>>

-----------------------------------------------------------------------------
\* fetchItems up to its await.
FetchItems ==
  /\ loading' = TRUE
  /\ \E new \in Idle(fetch) :
       fetch' = [f \in Fetches |-> IF f = new THEN NewFetch
                                  ELSE [fetch[f] EXCEPT !.newest = FALSE]]
  /\ dirty' = FALSE

\* The month changes, and with it the effect's dependencies.
SelectMonth ==
  /\ Disturb
  /\ FetchItems
  /\ UNCHANGED <<database, items, last, dialog, deciding>>

Count(k) ==
  CASE k = "pending"   -> Cardinality({p \in Purchases : status[p] = "PENDING"})
    [] k = "rejected"  -> Cardinality({p \in Purchases : status[p] = "REJECTED"})
    [] k = "anomalies" -> Cardinality({a \in Anomalies : queue[a] = "OPEN"})

Asking(f, k) == fetch[f].state = "asking" /\ fetch[f].read[k] = Unread[k]

\* One of the queries that run side by side is answered.
Query(f, k) ==
  /\ Asking(f, k)
  /\ fetch' = [fetch EXCEPT ![f].read[k] = Count(k)]
  /\ UNCHANGED <<database, items, loading, last, dialog, deciding, dirty, disturbances>>

\* A query that fails has no count, which reads as 0.
QueryFails(f, k) ==
  /\ Asking(f, k)
  /\ Disturb
  /\ fetch' = [fetch EXCEPT ![f].read[k] = 0, ![f].whole = FALSE]
  /\ UNCHANGED <<database, items, loading, last, dialog, deciding, dirty>>

\* All have been answered: setItems. Nothing asks whether a newer fetch has started.
FetchLands(f) ==
  /\ fetch[f].state = "asking" /\ \A k \in Kinds : ~Asking(f, k)
  /\ items' = fetch[f].read
  /\ loading' = FALSE
  /\ last' = (fetch[f].newest /\ fetch[f].whole)
  /\ fetch' = [fetch EXCEPT ![f] = NoFetch]
  /\ UNCHANGED <<database, dialog, deciding, dirty, disturbances>>

\* The card, and in it the review, is not hidden. Gaps and approvals, which it counts
\* too, may keep it on the screen when nothing else does.
Shown == ~loading /\ items # NoItems

-----------------------------------------------------------------------------
\* openReviewModal up to its await; the chip is there while purchases are counted.
OpenReviewModal ==
  /\ Shown /\ items["pending"] > 0 /\ ~modal
  /\ modal' = TRUE
  /\ modalLoading' = TRUE
  /\ \E r \in Idle(review) : review' = [review EXCEPT ![r].state = "asked"]
  /\ UNCHANGED <<database, counts, rows, deciding, dirty, disturbances>>

Listed == {p \in Purchases : status[p] = "PENDING"}

ReadReview(r) ==
  /\ review[r].state = "asked"
  /\ review' = [review EXCEPT ![r] = [state |-> "answered", rows |-> Listed]]
  /\ UNCHANGED <<database, counts, modal, modalLoading, rows, deciding, dirty, disturbances>>

\* A read that fails lists nothing.
ReviewFails(r) ==
  /\ review[r].state = "asked"
  /\ Disturb
  /\ review' = [review EXCEPT ![r].state = "answered"]
  /\ UNCHANGED <<database, counts, modal, modalLoading, rows, deciding, dirty>>

\* setPendingRows with the list, also when the review has been closed since, or
\* opened again.
ReviewLands(r) ==
  /\ review[r].state = "answered"
  /\ rows' = review[r].rows
  /\ told' = told \ review[r].rows
  /\ modalLoading' = FALSE
  /\ review' = [review EXCEPT ![r] = NoReview]
  /\ UNCHANGED <<database, counts, modal, acting, request, dirty, disturbances>>

CloseReviewModal ==
  /\ Shown /\ modal
  /\ modal' = FALSE
  /\ rows' = {}
  /\ UNCHANGED <<database, counts, modalLoading, review, deciding, dirty, disturbances>>

\* The buttons of a row.
Enabled(p) == p \in rows /\ acting # p

\* handleResolve up to its await. actionLoading has room for one row: deciding another
\* enables the buttons of the one before.
HandleResolve(p, decision) ==
  /\ Shown /\ modal /\ ~modalLoading /\ Enabled(p)
  /\ acting' = p
  /\ \E q \in Idle(request) : request' = [request EXCEPT ![q] =
       [state |-> "sent", on |-> p, decision |-> decision, told |-> p \in told]]
  /\ UNCHANGED <<database, counts, dialog, told, dirty, disturbances>>

\* What was sent is forgotten but for the row.
Outcome(q, state) ==
  request' = [request EXCEPT ![q] = [NoRequest EXCEPT !.state = state, !.on = request[q].on]]

\* resolvePurchaseAction has the function run.
Resolve(q) ==
  /\ request[q].state = "sent"
  /\ ResolvePurchase(request[q].on, request[q].decision)
  /\ Outcome(q, IF "resolved_at" \in columns THEN "resolved" ELSE "failed")
  /\ UNCHANGED <<columns, left, counts, dialog, acting, told, dirty, disturbances>>

\* The call, or its answer, is lost.
ResolveFails(q) ==
  /\ request[q].state \in {"sent", "resolved"}
  /\ Disturb
  /\ Outcome(q, "failed")
  /\ dirty' = (dirty \/ request[q].state = "resolved")
  /\ UNCHANGED <<database, counts, dialog, acting, told>>

\* The finally of handleResolve, whichever row is acted on by then.
Finally(q) == acting' = Nobody

\* Faulty variant of RowsAfter: used by no action.
RowsKept(q) == rows

RowsAfter(q) == rows \ {request[q].on}

\* Faulty variant of Recount: used by no action.
NoRecount == UNCHANGED <<loading, fetch, dirty>>

Recount == FetchItems

\* The end of handleResolve: a success takes the row off the list and counts anew.
Answer(q) ==
  /\ request[q].state \in {"resolved", "failed"}
  /\ Finally(q)
  /\ request' = [request EXCEPT ![q] = NoRequest]
  /\ IF request[q].state = "resolved"
     THEN /\ rows' = RowsAfter(q)
          /\ told' = told \cup {request[q].on}
          /\ Recount
     ELSE UNCHANGED <<rows, told, loading, fetch, dirty>>
  /\ UNCHANGED <<database, items, last, modal, modalLoading, review, disturbances>>

Next ==
  \/ \E p \in Purchases : Insert(p)
  \/ \E p \in Purchases, d \in Decisions : Elsewhere(p, d) \/ HandleResolve(p, d)
  \/ \E a \in Anomalies : AddAnomaly(a)
  \/ \E expired \in SUBSET Purchases, overdue \in SUBSET Anomalies : ReleaseExpired(expired, overdue)
  \/ \E f \in Fetches : FetchLands(f) \/ \E k \in Kinds : Query(f, k) \/ QueryFails(f, k)
  \/ \E r \in Reviews : ReadReview(r) \/ ReviewFails(r) \/ ReviewLands(r)
  \/ \E q \in Requests : Resolve(q) \/ ResolveFails(q) \/ Answer(q)
  \/ SelectMonth \/ OpenReviewModal \/ CloseReviewModal

Spec == Init /\ [][Next]_vars

-----------------------------------------------------------------------------
\* An anomaly that is OPEN waits for a decision of its purchase, was found after it,
\* or was too young when its purchase was released for its age: whatever tabs and the
\* release do in whichever order, a decision closes every anomaly there is, or is not
\* kept at all.
OpenAnomalyAwaitsDecision ==
  \A a \in Anomalies : queue[a] = "OPEN" /\ Decided(Of[a]) => a \in left

\* A decision is overturned in three ways: another tab decides anew, the release takes
\* a rejected purchase older than 30 days, or this card decides it without having been
\* told, because its buttons had been enabled again or an old list brought the row
\* back.
OverturnedUntold ==
  [][\A p \in Purchases : Decided(p) /\ status'[p] # status[p] =>
       \/ disturbances' > disturbances
       \/ status[p] = "REJECTED" /\ status'[p] = "RELEASED" /\ request' = request
       \/ \E q \in Requests : /\ request[q].state = "sent" /\ request'[q].state = "resolved"
                              /\ request[q].on = p /\ ~request[q].told]_vars

\* When nothing is under way, the card counts what the tables hold; unless a newer
\* count landed first, a query failed, or something changed that the card is not told
\* of. Its own decisions are among the counts.
CountsHoldUnlessDisturbed ==
  /\ Idle(fetch) = Fetches /\ Idle(request) = Requests
  /\ last /\ ~dirty
  => items = [k \in Kinds |-> Count(k)]
-----------------------------------------------------------------------------
(* The strengthening of the properties, proved in DashboardProofs.            *)

Fetch == [state : {"idle", "asking"}, read : [Kinds -> Nat], whole : BOOLEAN, newest : BOOLEAN]
Review == [state : {"idle", "asked", "answered"}, rows : SUBSET Purchases]
Request ==
  [state : {"idle", "sent", "resolved", "failed"}, on : Purchases \cup {Nobody},
   decision : Decisions, told : BOOLEAN]

TypeOK ==
  /\ columns \in SUBSET Written
  /\ status \in [Purchases -> {"absent", "PENDING"} \cup Decisions]
  /\ queue \in [Anomalies -> {"absent", "OPEN", "RESOLVED"}]
  /\ left \in SUBSET Anomalies
  /\ items \in {NoItems} \cup [Kinds -> Nat]
  /\ fetch \in [Fetches -> Fetch]
  /\ rows \in SUBSET Purchases
  /\ review \in [Reviews -> Review]
  /\ acting \in Purchases \cup {Nobody}
  /\ request \in [Requests -> Request]
  /\ \A q \in Requests : request[q].state # "idle" => request[q].on \in Purchases
  /\ told \in SUBSET Purchases
  /\ {loading, modal, modalLoading, last, dirty} \subseteq BOOLEAN
  /\ disturbances \in Nat

\* No row is listed whose decision the card has been told, so that none is decided anew.
ToldAreOff == told \cap rows = {} /\ \A q \in Requests : ~request[q].told

\* Every change of the tables is known to the fetch started last, or another is due.
Quiet == ~dirty /\ \A q \in Requests : request[q].state # "resolved"

\* What the fetch started last has read is what the tables hold, and so are the counts it
\* has left on the card.
NewestCountsHold ==
  Quiet =>
    /\ \A f \in Fetches : fetch[f].state = "asking" /\ fetch[f].newest /\ fetch[f].whole =>
         \A k \in Kinds : Asking(f, k) \/ fetch[f].read[k] = Count(k)
    /\ last /\ (\A f \in Fetches : fetch[f].state = "asking" => ~fetch[f].newest) =>
         items = [k \in Kinds |-> Count(k)]

IInv == TypeOK /\ OpenAnomalyAwaitsDecision /\ ToldAreOff /\ NewestCountsHold
=============================================================================
