--------------------------- MODULE DashboardProofs ---------------------------
(***************************************************************************)
(* Theorems about the two parts of the dashboard that follow the database  *)
(* by fetches of their own: PurchaseReview for any number of purchases,    *)
(* anomalies, fetches, reads and decisions, and TransactionList for any    *)
(* number of rows, months and fetches and any size of a page.  The two     *)
(* share nothing: what each proves is of its own specification.            *)
(***************************************************************************)
EXTENDS PurchaseReview, TransactionList, FiniteSetTheorems, FunctionTheorems, TLAPS

-----------------------------------------------------------------------------
(* PurchaseReview: the tables                                                *)

Statuses == {"absent", "PENDING"} \cup Decisions
Tables ==
  /\ status \in [Purchases -> Statuses]
  /\ queue \in [Anomalies -> {"absent", "OPEN", "RESOLVED"}]
  /\ left \in SUBSET Anomalies
  /\ OpenAnomalyAwaitsDecision

LEMMA CountIs ==
  ASSUME TypeOK, NEW k \in Kinds
  PROVE  Count(k) \in Nat
<1>1. \A S \in SUBSET Purchases : Cardinality(S) \in Nat
  BY ReviewAssumption, FS_Subset, FS_CardinalityType
<1>2. \A S \in SUBSET Anomalies : Cardinality(S) \in Nat
  BY ReviewAssumption, FS_Subset, FS_CardinalityType
<1>3. k \in {"pending", "rejected", "anomalies"}  BY ReviewAssumption
<1>4. /\ {p \in Purchases : status[p] = "PENDING"} \in SUBSET Purchases
      /\ {p \in Purchases : status[p] = "REJECTED"} \in SUBSET Purchases
      /\ {a \in Anomalies : queue[a] = "OPEN"} \in SUBSET Anomalies
  OBVIOUS
<1> QED  BY <1>1, <1>2, <1>3, <1>4 DEF Count

LEMMA NewIs == NewFetch \in Fetch /\ NoFetch \in Fetch
<1>1. Cardinality(Purchases) \in Nat /\ Cardinality(Anomalies) \in Nat
  BY ReviewAssumption, FS_CardinalityType
<1>2. Unread \in [Kinds -> Nat]  BY <1>1 DEF Unread
<1>3. NoFetch \in Fetch  BY <1>2 DEF NoFetch, Fetch
<1> QED  BY <1>3 DEF NewFetch, Fetch

LEMMA NewHas ==
  /\ NewFetch.state = "asking" /\ NewFetch.read = Unread /\ NewFetch.newest
  /\ NoFetch.state = "idle"
<1>1. NoFetch \in Fetch /\ NoFetch.read = Unread /\ NoFetch.state = "idle"
  BY NewIs DEF NoFetch
<1> QED  BY <1>1 DEF NewFetch, Fetch

\* What a decision does to the tables: nothing, or the purchase is decided and none of its
\* anomalies stays open.
LEMMA Resolved ==
  ASSUME Tables, NEW p \in Purchases, NEW d \in Decisions, ResolvePurchase(p, d), UNCHANGED left
  PROVE  Tables' /\ \A o \in Purchases \ {p} : status'[o] = status[o]
<1>1. CASE "resolved_at" \in columns
  <2>1. status' = [status EXCEPT ![p] = d] /\ queue' = Closed(AnomaliesOf(p))
    BY <1>1 DEF ResolvePurchase
  <2>2. \A o \in Purchases : status'[o] = IF o = p THEN d ELSE status[o]  BY <2>1 DEF Tables
  <2>3. \A a \in Anomalies :
          queue'[a] = IF Of[a] = p /\ queue[a] = "OPEN" THEN "RESOLVED" ELSE queue[a]
    BY <2>1 DEF Closed, AnomaliesOf
  <2>4. /\ status' \in [Purchases -> Statuses]
        /\ queue' \in [Anomalies -> {"absent", "OPEN", "RESOLVED"}]
    BY <2>1 DEF Tables, Statuses, Closed
  <2>5. \A a \in Anomalies :
          queue'[a] = "OPEN" => queue[a] = "OPEN" /\ status'[Of[a]] = status[Of[a]]
    BY <2>2, <2>3, ReviewAssumption
  <2> QED  BY <2>2, <2>4, <2>5 DEF Tables, OpenAnomalyAwaitsDecision, Decided
<1>2. CASE "resolved_at" \notin columns
  <2>1. UNCHANGED <<status, queue, left>>  BY <1>2 DEF ResolvePurchase
  <2> QED  BY <2>1 DEF Tables, OpenAnomalyAwaitsDecision, Decided
<1> QED  BY <1>1, <1>2

LEMMA Released ==
  ASSUME Tables, NEW expired \in SUBSET Purchases, NEW overdue \in SUBSET Anomalies,
         ReleaseExpired(expired, overdue)
  PROVE  Tables'
<1>1. /\ status' = [p \in Purchases |-> IF p \in expired THEN "RELEASED" ELSE status[p]]
      /\ queue' = Closed(overdue)
      /\ left' = left \cup {a \in Anomalies \ overdue : queue[a] = "OPEN" /\ Of[a] \in expired}
  BY DEF ReleaseExpired
<1>2. \A a \in Anomalies :
        queue'[a] = IF a \in overdue /\ queue[a] = "OPEN" THEN "RESOLVED" ELSE queue[a]
  BY <1>1 DEF Closed
<1>3. /\ status' \in [Purchases -> Statuses]
      /\ queue' \in [Anomalies -> {"absent", "OPEN", "RESOLVED"}]
  BY <1>1 DEF Tables, Statuses, Closed, Decisions
<1>4. ASSUME NEW a \in Anomalies, queue'[a] = "OPEN", Decided(Of[a])'  PROVE a \in left'
  <2>1. queue[a] = "OPEN" /\ a \notin overdue  BY <1>2, <1>4
  <2>2. CASE Of[a] \in expired  BY <1>1, <2>1, <2>2
  <2>3. CASE Of[a] \notin expired
    <3>1. Of[a] \in Purchases  BY ReviewAssumption
    <3>2. Decided(Of[a])  BY <1>1, <1>4, <2>3, <3>1 DEF Decided
    <3> QED  BY <1>1, <2>1, <3>2 DEF Tables, OpenAnomalyAwaitsDecision
  <2> QED  BY <2>2, <2>3
<1>5. left' \in SUBSET Anomalies  BY <1>1 DEF Tables
<1> QED  BY <1>3, <1>4, <1>5 DEF Tables, OpenAnomalyAwaitsDecision

LEMMA AnomalyAdded ==
  ASSUME Tables, NEW a \in Anomalies, AddAnomaly(a)
  PROVE  Tables'
<1>1. /\ queue' = [queue EXCEPT ![a] = "OPEN"] /\ status' = status
      /\ left' = IF Decided(Of[a]) THEN left \cup {a} ELSE left
  BY DEF AddAnomaly
<1>2. queue' \in [Anomalies -> {"absent", "OPEN", "RESOLVED"}] /\ left' \in SUBSET Anomalies
  BY <1>1 DEF Tables
<1>3. \A b \in Anomalies : queue'[b] = IF b = a THEN "OPEN" ELSE queue[b]  BY <1>1 DEF Tables
<1> QED  BY <1>1, <1>2, <1>3 DEF Tables, OpenAnomalyAwaitsDecision, Decided

LEMMA Inserted ==
  ASSUME Tables, NEW p \in Purchases, Insert(p)
  PROVE  Tables' /\ status[p] = "absent" /\ \A o \in Purchases \ {p} : status'[o] = status[o]
<1>1. /\ status[p] = "absent" /\ status' = [status EXCEPT ![p] = "PENDING"]
      /\ UNCHANGED <<queue, left>>
  BY DEF Insert
<1>2. \A o \in Purchases : status'[o] = IF o = p THEN "PENDING" ELSE status[o]  BY <1>1 DEF Tables
<1>3. status' \in [Purchases -> Statuses]  BY <1>1 DEF Tables, Statuses
<1>4. \A a \in Anomalies : Of[a] \in Purchases  BY ReviewAssumption
<1> QED  BY <1>1, <1>2, <1>3, <1>4 DEF Tables, OpenAnomalyAwaitsDecision, Decided, Decisions

-----------------------------------------------------------------------------
(* The counts *)

LEMMA CountSame ==
  ASSUME UNCHANGED <<status, queue>>
  PROVE  \A k : Count(k)' = Count(k)
BY DEF Count

\* A step that changes neither the tables nor what has been read of them.
LEMMA CountsStay ==
  ASSUME NewestCountsHold, UNCHANGED <<status, queue, fetch, items, last>>, Quiet' => Quiet
  PROVE  NewestCountsHold'
BY CountSame DEF NewestCountsHold, Asking

\* A step that the card is not told of.
LEMMA NotQuiet ==
  ASSUME ~Quiet'
  PROVE  NewestCountsHold'
BY DEF NewestCountsHold

\* fetchItems: the fetch started last has read nothing yet.
LEMMA Recounts ==
  ASSUME TypeOK, FetchItems
  PROVE  /\ fetch' \in [Fetches -> Fetch] /\ loading' = TRUE /\ dirty' = FALSE
         /\ NewestCountsHold'
<1>1. PICK new \in Fetches :
        fetch' = [f \in Fetches |-> IF f = new THEN NewFetch
                                   ELSE [fetch[f] EXCEPT !.newest = FALSE]]
  BY DEF FetchItems, Idle, TypeOK
<1>2. \A f \in Fetches : [fetch[f] EXCEPT !.newest = FALSE] \in Fetch
                         /\ ~[fetch[f] EXCEPT !.newest = FALSE].newest
  BY DEF TypeOK, Fetch
<1>3. fetch' \in [Fetches -> Fetch]  BY <1>1, <1>2, NewIs
<1>4. fetch'[new] = NewFetch /\ \A f \in Fetches \ {new} : ~fetch'[f].newest  BY <1>1, <1>2
<1>5. \A k \in Kinds : Asking(new, k)'  BY <1>4, NewHas DEF Asking, Unread
<1>6. NewestCountsHold'  BY <1>4, <1>5, NewHas DEF NewestCountsHold
<1> QED  BY <1>3, <1>6 DEF FetchItems

LEMMA Queried ==
  ASSUME IInv, NEW f \in Fetches, NEW k \in Kinds, NEW n \in Nat, NEW whole \in BOOLEAN,
         Asking(f, k), whole => n = Count(k) /\ fetch[f].whole,
         fetch' = [fetch EXCEPT ![f] = [fetch[f] EXCEPT !.read = [fetch[f].read EXCEPT ![k] = n],
                                                       !.whole = whole]],
         UNCHANGED <<status, queue, items, last, dirty, request>>
  PROVE  fetch' \in [Fetches -> Fetch] /\ NewestCountsHold'
<1> DEFINE new == [fetch[f] EXCEPT !.read = [fetch[f].read EXCEPT ![k] = n], !.whole = whole]
<1>1. fetch[f] \in Fetch /\ fetch[f].read \in [Kinds -> Nat]  BY DEF IInv, TypeOK, Fetch
<1>2. /\ new \in Fetch /\ new.state = fetch[f].state /\ new.newest = fetch[f].newest
      /\ new.whole = whole /\ new.read = [fetch[f].read EXCEPT ![k] = n]
  BY <1>1 DEF Fetch
<1> HIDE DEF new
<1>3. \A g \in Fetches : fetch'[g] = IF g = f THEN new ELSE fetch[g]  BY DEF new, IInv, TypeOK
<1>4. fetch' \in [Fetches -> Fetch]  BY <1>2 DEF new, IInv, TypeOK
<1>5. (Quiet' <=> Quiet) /\ \A j : Count(j)' = Count(j)  BY CountSame DEF Quiet
<1>6. ASSUME Quiet, NEW g \in Fetches, fetch'[g].state = "asking", fetch'[g].newest,
             fetch'[g].whole, NEW j \in Kinds
      PROVE  Asking(g, j)' \/ fetch'[g].read[j] = Count(j)
  <2>1. CASE g # f  BY <1>3, <1>6, <2>1 DEF IInv, NewestCountsHold, Asking, Unread
  <2>2. CASE g = f /\ j = k
    <3>1. fetch'[g].read[j] = n  BY <1>1, <1>2, <1>3, <2>2
    <3> QED  BY <1>2, <1>3, <1>6, <2>2, <3>1
  <2>3. CASE g = f /\ j # k
    <3>1. fetch'[g].read[j] = fetch[f].read[j]  BY <1>1, <1>2, <1>3, <2>3
    <3>2. fetch[f].state = "asking" /\ fetch[f].newest /\ fetch[f].whole
      BY <1>2, <1>3, <1>6, <2>3
    <3>3. Asking(f, j) \/ fetch[f].read[j] = Count(j)  BY <1>6, <3>2 DEF IInv, NewestCountsHold
    <3>4. Asking(f, j) => Asking(g, j)'  BY <1>6, <2>3, <3>1 DEF Asking, Unread
    <3> QED  BY <2>3, <3>1, <3>3, <3>4
  <2> QED  BY <2>1, <2>2, <2>3
<1>7. \A g \in Fetches : fetch'[g].state = fetch[g].state /\ fetch'[g].newest = fetch[g].newest
  BY <1>2, <1>3
<1>8. NewestCountsHold'  BY <1>5, <1>6, <1>7 DEF IInv, NewestCountsHold
<1> QED  BY <1>4, <1>8

LEMMA Landed ==
  ASSUME IInv, NEW f \in Fetches, FetchLands(f)
  PROVE  /\ fetch' \in [Fetches -> Fetch] /\ items' \in [Kinds -> Nat] /\ last' \in BOOLEAN
         /\ NewestCountsHold'
<1>1. /\ fetch[f].state = "asking" /\ \A k \in Kinds : ~Asking(f, k)
      /\ items' = fetch[f].read /\ last' = (fetch[f].newest /\ fetch[f].whole)
      /\ fetch' = [fetch EXCEPT ![f] = NoFetch]
      /\ UNCHANGED <<status, queue, dirty, request>>
  BY DEF FetchLands, database, deciding
<1>2. fetch[f].read \in [Kinds -> Nat] /\ fetch' \in [Fetches -> Fetch]
  BY <1>1, NewIs DEF IInv, TypeOK, Fetch
<1>3. (Quiet' <=> Quiet) /\ \A j : Count(j)' = Count(j)  BY <1>1, CountSame DEF Quiet
<1>4. \A g \in Fetches : fetch'[g] = IF g = f THEN NoFetch ELSE fetch[g]  BY <1>1 DEF IInv, TypeOK
<1>5. ASSUME Quiet, NEW g \in Fetches, fetch'[g].state = "asking", fetch'[g].newest,
             fetch'[g].whole, NEW j \in Kinds
      PROVE  Asking(g, j)' \/ fetch'[g].read[j] = Count(j)
  BY <1>4, <1>5, NewHas DEF IInv, NewestCountsHold, Asking, Unread
<1>6. ASSUME Quiet, last'  PROVE items' = [k \in Kinds |-> Count(k)]
  <2>1. \A k \in Kinds : fetch[f].read[k] = Count(k)
    BY <1>1, <1>6 DEF IInv, NewestCountsHold
  <2> QED  BY <1>1, <1>2, <2>1
<1>7. NewestCountsHold'  BY <1>3, <1>5, <1>6 DEF NewestCountsHold
<1> QED  BY <1>1, <1>2, <1>7

-----------------------------------------------------------------------------
(* The decisions *)

LEMMA OutcomeIs ==
  ASSUME TypeOK, NEW q \in Requests, NEW state \in {"resolved", "failed"},
         request[q].on \in Purchases \cup {Nobody}, Outcome(q, state)
  PROVE  /\ request' \in [Requests -> Request]
         /\ request'[q].state = state /\ ~request'[q].told /\ request'[q].on = request[q].on
         /\ \A r \in Requests \ {q} : request'[r] = request[r]
<1> DEFINE new == [NoRequest EXCEPT !.state = state, !.on = request[q].on]
<1>1. NoRequest \in Request /\ ~NoRequest.told  BY DEF NoRequest, Request, Decisions
<1>2. new \in Request /\ new.state = state /\ ~new.told /\ new.on = request[q].on
  BY <1>1 DEF Request
<1>3. request' = [request EXCEPT ![q] = new]  BY DEF Outcome
<1> HIDE DEF new
<1> QED  BY <1>2, <1>3 DEF TypeOK

-----------------------------------------------------------------------------
(* The invariant *)

\* What of the invariant the tables and the counts do not say.
Dialog ==
  /\ rows \in SUBSET Purchases
  /\ review \in [Reviews -> Review]
  /\ acting \in Purchases \cup {Nobody}
  /\ request \in [Requests -> Request]
  /\ \A q \in Requests : request[q].state # "idle" => request[q].on \in Purchases
  /\ told \in SUBSET Purchases
  /\ ToldAreOff
Card ==
  /\ columns \in SUBSET Written
  /\ items \in {NoItems} \cup [Kinds -> Nat]
  /\ fetch \in [Fetches -> Fetch]
  /\ {loading, modal, modalLoading, last, dirty} \subseteq BOOLEAN
  /\ disturbances \in Nat

LEMMA IInvIs == IInv <=> Tables /\ Card /\ Dialog /\ NewestCountsHold
BY DEF IInv, TypeOK, Tables, Statuses, Card, Dialog

LEMMA IInvIsNext == IInv' <=> Tables' /\ Card' /\ Dialog' /\ NewestCountsHold'
BY DEF IInv, TypeOK, Tables, Statuses, Card, Dialog

LEMMA DialogStays ==
  ASSUME Dialog, UNCHANGED <<rows, review, deciding>>
  PROVE  Dialog'
BY DEF Dialog, ToldAreOff, deciding

LEMMA TablesStay ==
  ASSUME Tables, UNCHANGED <<status, queue, left>>
  PROVE  Tables'
BY DEF Tables, OpenAnomalyAwaitsDecision, Decided

LEMMA Disturbs == Disturb /\ disturbances \in Nat => disturbances' \in Nat
BY DEF Disturb

\* What others do to the tables, which the card is not told of.
LEMMA OthersKeep ==
  ASSUME IInv, Tables', dirty' = TRUE, disturbances' \in Nat,
         UNCHANGED <<columns, counts, dialog, deciding>>
  PROVE  IInv'
<1>1. Card /\ Dialog  BY IInvIs
<1>2. Card'  BY <1>1 DEF Card, counts, dialog
<1>3. Dialog'  BY <1>1, DialogStays DEF dialog
<1>4. ~Quiet'  BY DEF Quiet
<1> QED  BY <1>2, <1>3, <1>4, NotQuiet, IInvIsNext

LEMMA InsertKeeps ==
  ASSUME IInv, NEW p \in Purchases, Insert(p)
  PROVE  IInv'
<1>1. Tables /\ disturbances \in Nat  BY IInvIs DEF Card
<1>2. Disturb /\ dirty' = TRUE /\ UNCHANGED <<columns, counts, dialog, deciding>>
  BY DEF Insert
<1> QED  BY <1>1, <1>2, Inserted, Disturbs, OthersKeep

LEMMA AddAnomalyKeeps ==
  ASSUME IInv, NEW a \in Anomalies, AddAnomaly(a)
  PROVE  IInv'
<1>1. Tables /\ disturbances \in Nat  BY IInvIs DEF Card
<1>2. Disturb /\ dirty' = TRUE /\ UNCHANGED <<columns, counts, dialog, deciding>>
  BY DEF AddAnomaly
<1> QED  BY <1>1, <1>2, AnomalyAdded, Disturbs, OthersKeep

LEMMA ElsewhereKeeps ==
  ASSUME IInv, NEW p \in Purchases, NEW d \in Decisions, Elsewhere(p, d)
  PROVE  IInv'
<1>1. Tables /\ disturbances \in Nat  BY IInvIs DEF Card
<1>2. /\ ResolvePurchase(p, d) /\ UNCHANGED left /\ Disturb /\ dirty' = TRUE
      /\ UNCHANGED <<columns, counts, dialog, deciding>>
  BY DEF Elsewhere
<1> QED  BY <1>1, <1>2, Resolved, Disturbs, OthersKeep

LEMMA ReleaseExpiredKeeps ==
  ASSUME IInv, NEW expired \in SUBSET Purchases, NEW overdue \in SUBSET Anomalies,
         ReleaseExpired(expired, overdue)
  PROVE  IInv'
<1>1. Tables /\ disturbances \in Nat  BY IInvIs DEF Card
<1>2. dirty' = TRUE /\ UNCHANGED <<columns, counts, dialog, deciding, disturbances>>
  BY DEF ReleaseExpired
<1> QED  BY <1>1, <1>2, Released, OthersKeep

LEMMA SelectMonthKeeps ==
  ASSUME IInv, SelectMonth
  PROVE  IInv'
<1>1. Tables /\ Card /\ Dialog /\ TypeOK  BY IInvIs DEF IInv
<1>2. Disturb /\ FetchItems /\ UNCHANGED <<database, items, last, dialog, deciding>>
  BY DEF SelectMonth
<1>3. Tables' /\ Dialog'  BY <1>1, <1>2, TablesStay, DialogStays DEF database, dialog
<1>4. Card'  BY <1>1, <1>2, Recounts, Disturbs DEF Card, database, dialog
<1> QED  BY <1>1, <1>2, <1>3, <1>4, Recounts, IInvIsNext

LEMMA QueryKeeps ==
  ASSUME IInv, NEW f \in Fetches, NEW k \in Kinds, Query(f, k) \/ QueryFails(f, k)
  PROVE  IInv'
<1>1. Tables /\ Card /\ Dialog /\ TypeOK  BY IInvIs DEF IInv
<1>2. /\ Asking(f, k) /\ disturbances' \in Nat
      /\ UNCHANGED <<database, items, loading, last, dialog, deciding, dirty>>
  BY <1>1, Disturbs DEF Query, QueryFails, Card
<1>3. fetch[f] \in Fetch  BY <1>1 DEF TypeOK
<1>4. PICK n \in Nat, whole \in BOOLEAN :
        /\ whole => n = Count(k) /\ fetch[f].whole
        /\ fetch' = [fetch EXCEPT ![f] =
                       [fetch[f] EXCEPT !.read = [fetch[f].read EXCEPT ![k] = n],
                                        !.whole = whole]]
  <2>1. CASE Query(f, k)
    <3>1. fetch' = [fetch EXCEPT ![f] =
                      [fetch[f] EXCEPT !.read = [fetch[f].read EXCEPT ![k] = Count(k)]]]
      BY <2>1 DEF Query
    <3>2. [fetch[f] EXCEPT !.read = [fetch[f].read EXCEPT ![k] = Count(k)]]
          = [fetch[f] EXCEPT !.read = [fetch[f].read EXCEPT ![k] = Count(k)],
                             !.whole = fetch[f].whole]
      BY <1>3 DEF Fetch
    <3>3. Count(k) \in Nat /\ fetch[f].whole \in BOOLEAN  BY <1>1, <1>3, CountIs DEF Fetch
    <3> QED  BY <3>1, <3>2, <3>3
  <2>2. CASE QueryFails(f, k)
    <3>1. fetch' = [fetch EXCEPT ![f] = [fetch[f] EXCEPT !.read = [fetch[f].read EXCEPT ![k] = 0],
                                                       !.whole = FALSE]]
      BY <2>2, <1>3 DEF QueryFails, Fetch
    <3> QED  BY <3>1
  <2> QED  BY <2>1, <2>2
<1>5. fetch' \in [Fetches -> Fetch] /\ NewestCountsHold'
  BY <1>2, <1>4, Queried DEF database, deciding
<1>6. Tables' /\ Dialog'  BY <1>1, <1>2, TablesStay, DialogStays DEF database, dialog
<1>7. Card'  BY <1>1, <1>2, <1>5 DEF Card, database, dialog
<1> QED  BY <1>5, <1>6, <1>7, IInvIsNext

LEMMA FetchLandsKeeps ==
  ASSUME IInv, NEW f \in Fetches, FetchLands(f)
  PROVE  IInv'
<1>1. Tables /\ Card /\ Dialog  BY IInvIs
<1>2. loading' = FALSE /\ UNCHANGED <<database, dialog, deciding, dirty, disturbances>>
  BY DEF FetchLands
<1>3. Tables' /\ Dialog'  BY <1>1, <1>2, TablesStay, DialogStays DEF database, dialog
<1>4. Card'  BY <1>1, <1>2, Landed DEF Card, database, dialog
<1> QED  BY <1>3, <1>4, Landed, IInvIsNext

-----------------------------------------------------------------------------
(* The review *)

\* What the dialog does to itself leaves the tables and the counts alone.
LEMMA ReviewKeeps ==
  ASSUME IInv, Dialog', modal' \in BOOLEAN, modalLoading' \in BOOLEAN, disturbances' \in Nat,
         UNCHANGED <<database, counts, dirty>>, Quiet' => Quiet
  PROVE  IInv'
<1>1. Tables /\ Card  BY IInvIs
<1>2. Tables'  BY <1>1, TablesStay DEF database
<1>3. Card'  BY <1>1 DEF Card, database, counts
<1>4. NewestCountsHold'  BY CountsStay DEF IInv, database, counts
<1> QED  BY <1>2, <1>3, <1>4, IInvIsNext

LEMMA OpenReviewModalKeeps ==
  ASSUME IInv, OpenReviewModal
  PROVE  IInv'
<1>1. Card /\ Dialog  BY IInvIs
<1>2. /\ modal' = TRUE /\ modalLoading' = TRUE
      /\ UNCHANGED <<database, counts, rows, deciding, dirty, disturbances>>
  BY DEF OpenReviewModal
<1>3. PICK r \in Reviews : review' = [review EXCEPT ![r] = [review[r] EXCEPT !.state = "asked"]]
  BY <1>1 DEF OpenReviewModal, Idle, Dialog
<1>4. review' \in [Reviews -> Review]  BY <1>1, <1>3 DEF Dialog, Review
<1>5. Dialog'  BY <1>1, <1>2, <1>4 DEF Dialog, ToldAreOff, deciding
<1>6. Quiet' => Quiet  BY <1>2 DEF Quiet, deciding
<1> QED  BY <1>1, <1>2, <1>5, <1>6, ReviewKeeps DEF Card

LEMMA ReadReviewKeeps ==
  ASSUME IInv, NEW r \in Reviews, ReadReview(r)
  PROVE  IInv'
<1>1. Card /\ Dialog  BY IInvIs
<1>2. /\ review' = [review EXCEPT ![r] = [state |-> "answered", rows |-> Listed]]
      /\ UNCHANGED <<database, counts, modal, modalLoading, rows, deciding, dirty, disturbances>>
  BY DEF ReadReview
<1>3. [state |-> "answered", rows |-> Listed] \in Review  BY DEF Review, Listed
<1>4. review' \in [Reviews -> Review]  BY <1>1, <1>2, <1>3 DEF Dialog
<1>5. Dialog'  BY <1>1, <1>2, <1>4 DEF Dialog, ToldAreOff, deciding
<1>6. Quiet' => Quiet  BY <1>2 DEF Quiet, deciding
<1> QED  BY <1>1, <1>2, <1>5, <1>6, ReviewKeeps DEF Card

LEMMA ReviewFailsKeeps ==
  ASSUME IInv, NEW r \in Reviews, ReviewFails(r)
  PROVE  IInv'
<1>1. Card /\ Dialog  BY IInvIs
<1>2. /\ review' = [review EXCEPT ![r] = [review[r] EXCEPT !.state = "answered"]] /\ Disturb
      /\ UNCHANGED <<database, counts, modal, modalLoading, rows, deciding, dirty>>
  BY DEF ReviewFails
<1>3. review' \in [Reviews -> Review]  BY <1>1, <1>2 DEF Dialog, Review
<1>4. Dialog'  BY <1>1, <1>2, <1>3 DEF Dialog, ToldAreOff, deciding
<1>5. Quiet' => Quiet  BY <1>2 DEF Quiet, deciding
<1> QED  BY <1>1, <1>2, <1>4, <1>5, Disturbs, ReviewKeeps DEF Card

\* The rows an old list brings back are told no longer.
LEMMA ReviewLandsKeeps ==
  ASSUME IInv, NEW r \in Reviews, ReviewLands(r)
  PROVE  IInv'
<1>1. Card /\ Dialog  BY IInvIs
<1>2. /\ rows' = review[r].rows /\ told' = told \ review[r].rows /\ modalLoading' = FALSE
      /\ review' = [review EXCEPT ![r] = NoReview]
      /\ UNCHANGED <<database, counts, modal, acting, request, dirty, disturbances>>
  BY DEF ReviewLands
<1>3. review[r].rows \in SUBSET Purchases /\ NoReview \in Review
  BY <1>1 DEF Dialog, Review, NoReview
<1>4. review' \in [Reviews -> Review]  BY <1>1, <1>2, <1>3 DEF Dialog
<1>5. Dialog'  BY <1>1, <1>2, <1>3, <1>4 DEF Dialog, ToldAreOff
<1>6. Quiet' => Quiet  BY <1>2 DEF Quiet
<1> QED  BY <1>1, <1>2, <1>5, <1>6, ReviewKeeps DEF Card

LEMMA CloseReviewModalKeeps ==
  ASSUME IInv, CloseReviewModal
  PROVE  IInv'
<1>1. Card /\ Dialog  BY IInvIs
<1>2. /\ modal' = FALSE /\ rows' = {}
      /\ UNCHANGED <<database, counts, modalLoading, review, deciding, dirty, disturbances>>
  BY DEF CloseReviewModal
<1>3. Dialog'  BY <1>1, <1>2 DEF Dialog, ToldAreOff, deciding
<1>4. Quiet' => Quiet  BY <1>2 DEF Quiet, deciding
<1> QED  BY <1>1, <1>2, <1>3, <1>4, ReviewKeeps DEF Card

\* A row that is listed is not told, so neither is the request.
LEMMA HandleResolveKeeps ==
  ASSUME IInv, NEW p \in Purchases, NEW d \in Decisions, HandleResolve(p, d)
  PROVE  IInv'
<1>1. Card /\ Dialog  BY IInvIs
<1>2. /\ p \in rows /\ acting' = p
      /\ UNCHANGED <<database, counts, dialog, told, dirty, disturbances>>
  BY DEF HandleResolve, Enabled
<1>3. p \notin told  BY <1>1, <1>2 DEF Dialog, ToldAreOff
<1>4. PICK q \in Requests :
        /\ request[q].state = "idle"
        /\ request' = [request EXCEPT ![q] =
                         [state |-> "sent", on |-> p, decision |-> d, told |-> p \in told]]
  BY <1>1 DEF HandleResolve, Idle, Dialog
<1>5. request' = [request EXCEPT ![q] =
                    [state |-> "sent", on |-> p, decision |-> d, told |-> FALSE]]
  <2>1. (p \in told) = FALSE  BY <1>3
  <2> QED  BY <1>4, <2>1, Zenon
<1>6. [state |-> "sent", on |-> p, decision |-> d, told |-> FALSE] \in Request  BY DEF Request
<1>7. request' \in [Requests -> Request]  BY <1>1, <1>5, <1>6 DEF Dialog
<1>8. /\ request'[q].state = "sent" /\ request'[q].on = p /\ ~request'[q].told
      /\ \A s \in Requests \ {q} : request'[s] = request[s]
  BY <1>1, <1>5 DEF Dialog
<1>9. Dialog'  BY <1>1, <1>2, <1>7, <1>8 DEF Dialog, ToldAreOff, dialog
<1>10. Quiet' => Quiet  BY <1>2, <1>4, <1>8 DEF Quiet
<1> QED  BY <1>1, <1>2, <1>9, <1>10, ReviewKeeps DEF Card, dialog

-----------------------------------------------------------------------------
(* The decision *)

\* The decision is taken, and not told until it is answered; or nothing of it is kept.
LEMMA ResolveKeeps ==
  ASSUME IInv, NEW q \in Requests, Resolve(q)
  PROVE  IInv'
<1>1. Tables /\ Card /\ Dialog /\ TypeOK  BY IInvIs DEF IInv
<1>2. PICK p \in Purchases, d \in Decisions : request[q].on = p /\ request[q].decision = d
  BY <1>1 DEF Resolve, Dialog, Request
<1>3. /\ request[q].state = "sent" /\ ResolvePurchase(p, d)
      /\ UNCHANGED <<columns, left, counts, dialog, acting, told, dirty, disturbances>>
  BY <1>2 DEF Resolve
<1>4. PICK state \in {"resolved", "failed"} :
        /\ Outcome(q, state)
        /\ state = IF "resolved_at" \in columns THEN "resolved" ELSE "failed"
  BY DEF Resolve
<1>5. /\ request' \in [Requests -> Request]
      /\ request'[q].state = state /\ ~request'[q].told /\ request'[q].on = p
      /\ \A r \in Requests \ {q} : request'[r] = request[r]
  BY <1>1, <1>2, <1>4, OutcomeIs
<1>6. Tables'  BY <1>1, <1>3, Resolved
<1>7. Card'  BY <1>1, <1>3 DEF Card, counts, dialog
<1>8. Dialog'  BY <1>1, <1>3, <1>5 DEF Dialog, ToldAreOff, dialog
<1>9. NewestCountsHold'
  <2>1. CASE "resolved_at" \in columns
    <3>1. ~Quiet'  BY <1>4, <1>5, <2>1 DEF Quiet
    <3> QED  BY <3>1, NotQuiet
  <2>2. CASE "resolved_at" \notin columns
    <3>1. UNCHANGED <<status, queue, fetch, items, last>>
      BY <1>3, <2>2 DEF ResolvePurchase, counts
    <3>2. Quiet' => Quiet  BY <1>3, <1>5 DEF Quiet
    <3> QED  BY <3>1, <3>2, CountsStay DEF IInv
  <2> QED  BY <2>1, <2>2
<1> QED  BY <1>6, <1>7, <1>8, <1>9, IInvIsNext

LEMMA ResolveFailsKeeps ==
  ASSUME IInv, NEW q \in Requests, ResolveFails(q)
  PROVE  IInv'
<1>1. Tables /\ Card /\ Dialog /\ TypeOK  BY IInvIs DEF IInv
<1>2. /\ request[q].state \in {"sent", "resolved"} /\ Outcome(q, "failed") /\ Disturb
      /\ dirty' = (dirty \/ request[q].state = "resolved")
      /\ UNCHANGED <<database, counts, dialog, acting, told>>
  BY DEF ResolveFails
<1>3. request[q].on \in Purchases  BY <1>1, <1>2 DEF Dialog
<1>4. /\ request' \in [Requests -> Request]
      /\ request'[q].state = "failed" /\ ~request'[q].told /\ request'[q].on = request[q].on
      /\ \A r \in Requests \ {q} : request'[r] = request[r]
  BY <1>1, <1>2, <1>3, OutcomeIs
<1>5. Tables'  BY <1>1, <1>2, TablesStay DEF database
<1>6. Card'
  <2>1. dirty' \in BOOLEAN  BY <1>1, <1>2 DEF Card
  <2>2. disturbances' \in Nat  BY <1>1, <1>2, Disturbs DEF Card
  <2> QED  BY <1>1, <1>2, <2>1, <2>2 DEF Card, database, counts, dialog
<1>7. Dialog'  BY <1>1, <1>2, <1>3, <1>4 DEF Dialog, ToldAreOff, dialog
<1>8. Quiet' => Quiet
  <2>1. \A r \in Requests \ {q} : request'[r].state # "resolved" => request[r].state # "resolved"
    BY <1>4
  <2>2. ~dirty' => ~dirty /\ request[q].state # "resolved"  BY <1>2
  <2> QED  BY <2>1, <2>2 DEF Quiet
<1>9. NewestCountsHold'  BY <1>2, <1>8, CountsStay DEF IInv, database, counts
<1> QED  BY <1>5, <1>6, <1>7, <1>9, IInvIsNext

\* A success takes the row off the list, tells the card, and counts anew.
LEMMA AnswerKeeps ==
  ASSUME IInv, NEW q \in Requests, Answer(q)
  PROVE  IInv'
<1>1. Tables /\ Card /\ Dialog /\ TypeOK  BY IInvIs DEF IInv
<1>2. /\ request[q].state \in {"resolved", "failed"} /\ acting' = Nobody
      /\ request' = [request EXCEPT ![q] = NoRequest]
      /\ UNCHANGED <<database, items, last, modal, modalLoading, review, disturbances>>
  BY DEF Answer, Finally
<1>3. NoRequest \in Request /\ ~NoRequest.told /\ NoRequest.state = "idle"
  BY DEF NoRequest, Request, Decisions
<1>4. /\ request' \in [Requests -> Request]
      /\ request'[q].state = "idle" /\ ~request'[q].told
      /\ \A r \in Requests \ {q} : request'[r] = request[r]
  BY <1>1, <1>2, <1>3 DEF Dialog
<1>5. Tables'  BY <1>1, <1>2, TablesStay DEF database
<1>6. CASE request[q].state = "resolved"
  <2>1. /\ rows' = rows \ {request[q].on} /\ told' = told \cup {request[q].on}
        /\ FetchItems
    BY <1>6 DEF Answer, RowsAfter, Recount
  <2>2. request[q].on \in Purchases  BY <1>1, <1>6 DEF Dialog
  <2>3. Dialog'  BY <1>1, <1>2, <1>4, <2>1, <2>2 DEF Dialog, ToldAreOff
  <2>4. Card'  BY <1>1, <1>2, <2>1, Recounts DEF Card, database
  <2> QED  BY <1>1, <1>5, <2>1, <2>3, <2>4, Recounts, IInvIsNext
<1>7. CASE request[q].state = "failed"
  <2>1. UNCHANGED <<rows, told, loading, fetch, dirty>>  BY <1>7 DEF Answer
  <2>2. Dialog'  BY <1>1, <1>2, <1>4, <2>1 DEF Dialog, ToldAreOff
  <2>3. Card'  BY <1>1, <1>2, <2>1 DEF Card, database
  <2>4. Quiet' => Quiet  BY <1>4, <1>7, <2>1 DEF Quiet
  <2>5. NewestCountsHold'  BY <1>2, <2>1, <2>4, CountsStay DEF IInv, database
  <2> QED  BY <1>5, <2>2, <2>3, <2>5, IInvIsNext
<1> QED  BY <1>2, <1>6, <1>7

-----------------------------------------------------------------------------
(* The theorems *)

LEMMA InitIInv == Init => IInv
<1> SUFFICES ASSUME Init PROVE IInv
  OBVIOUS
<1>1. Tables
  BY ReviewAssumption DEF Init, Tables, Statuses, OpenAnomalyAwaitsDecision, Decided, Decisions
<1>2. PICK first \in Fetches : fetch = [[f \in Fetches |-> NoFetch] EXCEPT ![first] = NewFetch]
  BY DEF Init
<1>3. \A f \in Fetches : fetch[f] = IF f = first THEN NewFetch ELSE NoFetch  BY <1>2
<1>4. Card
  <2>1. fetch \in [Fetches -> Fetch]  BY <1>2, NewIs
  <2>2. columns \in SUBSET Written  BY ReviewAssumption DEF Init
  <2> QED  BY <2>1, <2>2 DEF Init, Card
<1>5. Dialog
  <2>1. NoReview \in Review  BY DEF NoReview, Review
  <2>2. NoRequest \in Request /\ ~NoRequest.told /\ NoRequest.state = "idle"
    BY DEF NoRequest, Request, Decisions
  <2>3. review \in [Reviews -> Review] /\ request \in [Requests -> Request]
    BY <2>1, <2>2 DEF Init
  <2>4. \A q \in Requests : request[q] = NoRequest  BY DEF Init
  <2> QED  BY <2>2, <2>3, <2>4 DEF Init, Dialog, ToldAreOff
<1>6. NewestCountsHold
  <2>1. \A k \in Kinds : Asking(first, k)  BY <1>3, NewHas DEF Asking
  <2>2. \A f \in Fetches : fetch[f].state = "asking" => f = first  BY <1>3, NewHas
  <2>3. ~last  BY DEF Init
  <2> QED  BY <2>1, <2>2, <2>3 DEF NewestCountsHold
<1> QED  BY <1>1, <1>4, <1>5, <1>6, IInvIs

LEMMA NextKeeps == IInv /\ [Next]_vars => IInv'
<1> SUFFICES ASSUME IInv, [Next]_vars PROVE IInv'
  OBVIOUS
<1>1. ASSUME NEW p \in Purchases, Insert(p) PROVE IInv'  BY <1>1, InsertKeeps
<1>2. ASSUME NEW p \in Purchases, NEW d \in Decisions, Elsewhere(p, d) PROVE IInv'
  BY <1>2, ElsewhereKeeps
<1>3. ASSUME NEW p \in Purchases, NEW d \in Decisions, HandleResolve(p, d) PROVE IInv'
  BY <1>3, HandleResolveKeeps
<1>4. ASSUME NEW a \in Anomalies, AddAnomaly(a) PROVE IInv'  BY <1>4, AddAnomalyKeeps
<1>5. ASSUME NEW expired \in SUBSET Purchases, NEW overdue \in SUBSET Anomalies,
             ReleaseExpired(expired, overdue)
      PROVE IInv'
  BY <1>5, ReleaseExpiredKeeps
<1>6. ASSUME NEW f \in Fetches, FetchLands(f) PROVE IInv'  BY <1>6, FetchLandsKeeps
<1>7. ASSUME NEW f \in Fetches, NEW k \in Kinds, Query(f, k) \/ QueryFails(f, k) PROVE IInv'
  BY <1>7, QueryKeeps
<1>8. ASSUME NEW r \in Reviews, ReadReview(r) \/ ReviewFails(r) \/ ReviewLands(r) PROVE IInv'
  BY <1>8, ReadReviewKeeps, ReviewFailsKeeps, ReviewLandsKeeps
<1>9. ASSUME NEW q \in Requests, Resolve(q) \/ ResolveFails(q) \/ Answer(q) PROVE IInv'
  BY <1>9, ResolveKeeps, ResolveFailsKeeps, AnswerKeeps
<1>10. CASE SelectMonth  BY <1>10, SelectMonthKeeps
<1>11. CASE OpenReviewModal  BY <1>11, OpenReviewModalKeeps
<1>12. CASE CloseReviewModal  BY <1>12, CloseReviewModalKeeps
<1>13. CASE UNCHANGED vars
  <2>1. UNCHANGED <<database, counts, dialog, deciding, dirty, disturbances>>  BY <1>13 DEF vars
  <2>2. Tables /\ Card /\ Dialog  BY IInvIs
  <2>3. Dialog'  BY <2>1, <2>2, DialogStays DEF dialog
  <2>4. Quiet' => Quiet  BY <2>1 DEF Quiet, deciding
  <2>5. modal' \in BOOLEAN /\ modalLoading' \in BOOLEAN /\ disturbances' \in Nat
    BY <2>1, <2>2 DEF Card, dialog
  <2> QED  BY <2>1, <2>3, <2>4, <2>5, ReviewKeeps
<1> QED
  BY <1>1, <1>2, <1>3, <1>4, <1>5, <1>6, <1>7, <1>8, <1>9, <1>10, <1>11, <1>12, <1>13 DEF Next

\* The inductive invariant: a row is never listed once the card has been told that it is
\* decided, and, unless something is yet to be told, what the newest fetch has read is what
\* the tables hold.
THEOREM Invariance == Spec => []IInv
<1> QED  BY InitIInv, NextKeeps, PTL DEF Spec

\* Whatever the tabs, the checks and the release for age do and whichever columns the tables
\* have, resolve_purchase_quarantine_v1 leaves no anomaly OPEN of a purchase it decides.
THEOREM OpenAwaits == Spec => []OpenAnomalyAwaitsDecision
<1>1. IInv => OpenAnomalyAwaitsDecision  BY DEF IInv
<1> QED  BY <1>1, Invariance, PTL

\* When nothing is under way the card counts what the tables hold, unless a newer count
\* landed first, a query failed, or something changed that fetchItems is not told of.
THEOREM CountsHold == Spec => []CountsHoldUnlessDisturbed
<1>1. IInv => CountsHoldUnlessDisturbed
  <2> SUFFICES ASSUME IInv, Idle(fetch) = Fetches, Idle(request) = Requests, last, ~dirty
               PROVE  items = [k \in Kinds |-> Count(k)]
    BY DEF CountsHoldUnlessDisturbed
  <2>1. Quiet  BY DEF Quiet, Idle
  <2>2. \A f \in Fetches : fetch[f].state # "asking"  BY DEF Idle
  <2> QED  BY <2>1, <2>2 DEF IInv, NewestCountsHold
<1> QED  BY <1>1, Invariance, PTL

\* The steps that change the status of a decided purchase.
LEMMA StepOverturns ==
  ASSUME IInv, Next, NEW p \in Purchases, Decided(p), status'[p] # status[p]
  PROVE  \/ disturbances' > disturbances
         \/ status[p] = "REJECTED" /\ status'[p] = "RELEASED" /\ request' = request
         \/ \E q \in Requests : /\ request[q].state = "sent" /\ request'[q].state = "resolved"
                                /\ request[q].on = p /\ ~request[q].told
<1> DEFINE Overturned ==
      \/ disturbances' > disturbances
      \/ status[p] = "REJECTED" /\ status'[p] = "RELEASED" /\ request' = request
      \/ \E q \in Requests : /\ request[q].state = "sent" /\ request'[q].state = "resolved"
                             /\ request[q].on = p /\ ~request[q].told
<1>1. Tables /\ Card /\ Dialog /\ TypeOK  BY IInvIs DEF IInv
<1>2. Disturb => disturbances' > disturbances  BY <1>1 DEF Disturb, Card
<1>3. ASSUME NEW o \in Purchases, Insert(o) PROVE Overturned  BY <1>2, <1>3 DEF Insert
<1>4. ASSUME NEW o \in Purchases, NEW d \in Decisions, Elsewhere(o, d) PROVE Overturned
  BY <1>2, <1>4 DEF Elsewhere
<1>5. ASSUME NEW a \in Anomalies, AddAnomaly(a) PROVE Overturned  BY <1>2, <1>5 DEF AddAnomaly
<1>6. ASSUME NEW expired \in SUBSET Purchases, NEW overdue \in SUBSET Anomalies,
             ReleaseExpired(expired, overdue)
      PROVE  Overturned
  <2>1. /\ status' = [o \in Purchases |-> IF o \in expired THEN "RELEASED" ELSE status[o]]
        /\ \A o \in expired : status[o] \in {"PENDING", "REJECTED"}
        /\ request' = request
    BY <1>6 DEF ReleaseExpired, deciding
  <2>2. p \in expired  BY <2>1
  <2>3. status[p] = "REJECTED"  BY <2>1, <2>2 DEF Decided, Decisions
  <2>4. status'[p] = "RELEASED"  BY <2>1, <2>2
  <2> QED  BY <2>1, <2>3, <2>4
<1>7. ASSUME NEW q \in Requests, Resolve(q) PROVE Overturned
  <2>1. PICK o \in Purchases, d \in Decisions : request[q].on = o /\ request[q].decision = d
    BY <1>1, <1>7 DEF Resolve, Dialog, Request
  <2>2. ResolvePurchase(o, d) /\ request[q].state = "sent" /\ UNCHANGED left
    BY <1>7, <2>1 DEF Resolve
  <2>3. o = p  BY <1>1, <2>2, Resolved
  <2>4. "resolved_at" \in columns  BY <2>2 DEF ResolvePurchase
  <2>5. Outcome(q, "resolved")  BY <1>7, <2>4 DEF Resolve
  <2>6. request'[q].state = "resolved"  BY <1>1, <2>1, <2>5, OutcomeIs
  <2>7. ~request[q].told  BY <1>1 DEF Dialog, ToldAreOff
  <2> QED  BY <2>1, <2>2, <2>3, <2>6, <2>7
<1>8. ASSUME UNCHANGED database PROVE FALSE  BY <1>8 DEF database
<1>9. ASSUME NEW o \in Purchases, NEW d \in Decisions, HandleResolve(o, d) PROVE Overturned
  BY <1>8, <1>9 DEF HandleResolve
<1>10. ASSUME NEW f \in Fetches, FetchLands(f) PROVE Overturned  BY <1>8, <1>10 DEF FetchLands
<1>11. ASSUME NEW f \in Fetches, NEW k \in Kinds, Query(f, k) \/ QueryFails(f, k) PROVE Overturned
  BY <1>8, <1>11 DEF Query, QueryFails
<1>12. ASSUME NEW r \in Reviews, ReadReview(r) \/ ReviewFails(r) \/ ReviewLands(r)
       PROVE  Overturned
  BY <1>8, <1>12 DEF ReadReview, ReviewFails, ReviewLands
<1>13. ASSUME NEW q \in Requests, ResolveFails(q) \/ Answer(q) PROVE Overturned
  BY <1>8, <1>13 DEF ResolveFails, Answer
<1>14. CASE SelectMonth \/ OpenReviewModal \/ CloseReviewModal
  BY <1>8, <1>14 DEF SelectMonth, OpenReviewModal, CloseReviewModal
<1> QED
  BY <1>3, <1>4, <1>5, <1>6, <1>7, <1>9, <1>10, <1>11, <1>12, <1>13, <1>14 DEF Next

\* A decision is overturned by another tab, by the release for age, or by a request of this
\* card for a row whose decision it had not been told: handleResolve takes a decided row off
\* the list before the answer of another can be told.
THEOREM OverturnsAreKnown == Spec => OverturnedUntold
<1>1. IInv /\ [Next]_vars => [\A p \in Purchases : Decided(p) /\ status'[p] # status[p] =>
       \/ disturbances' > disturbances
       \/ status[p] = "REJECTED" /\ status'[p] = "RELEASED" /\ request' = request
       \/ \E q \in Requests : /\ request[q].state = "sent" /\ request'[q].state = "resolved"
                              /\ request[q].on = p /\ ~request[q].told]_vars
  BY StepOverturns
<1> QED  BY <1>1, Invariance, PTL DEF Spec, OverturnedUntold

-----------------------------------------------------------------------------
(* TransactionList: the pages                                                *)

\* Division by the page size.
LEMMA Quotient ==
  ASSUME NEW n \in Nat, NEW p \in Nat, NEW size \in Nat \ {0}
  PROVE  /\ n \div size \in Nat
         /\ n \div size = p <=> n \in p * size .. p * size + size - 1
         /\ n \div size > p <=> n >= p * size + size
<1> DEFINE d == n \div size
           m == n % size
<1>1. d \in Nat /\ m \in 0 .. size - 1 /\ n = d * size + m  OBVIOUS
<1> HIDE DEF d, m
<1>2. CASE d = p  BY <1>1, <1>2
<1>3. CASE d > p
  <2>1. d * size >= (p + 1) * size  BY <1>1, <1>3
  <2>2. (p + 1) * size = p * size + size  OBVIOUS
  <2> QED  BY <1>1, <1>3, <2>1, <2>2
<1>4. CASE d < p
  <2>1. p * size >= (d + 1) * size  BY <1>1, <1>4
  <2>2. (d + 1) * size = d * size + size  BY <1>1
  <2> QED  BY <1>1, <1>4, <2>1, <2>2
<1> QED  BY <1>1, <1>2, <1>3, <1>4 DEF d

\* As many ranks as a page has rows.
LEMMA RanksOfAPage ==
  ASSUME NEW n \in Nat, NEW size \in Nat \ {0}
  PROVE  IsFiniteSet(n .. n + size - 1) /\ Cardinality(n .. n + size - 1) = size
<1>1. n \in Int /\ n + size - 1 \in Int /\ ~(n > n + size - 1) /\ n + size - 1 - n + 1 = size
  OBVIOUS
<1> QED  BY <1>1, FS_Interval

\* An order of the rows ranks them by different numbers.
LEMMA OrderIs ==
  ASSUME NEW o \in Orders, NEW q \in Rows, NEW r \in Rows
  PROVE  o[q] \in Nat /\ (q # r => o[q] # o[r])
<1>1. Rows \subseteq Nat  BY DEF Rows
<1> QED  BY <1>1 DEF Orders

\* The rows asked for are ranked by each order.
LEMMA BeforeIs ==
  ASSUME NEW S \in SUBSET Rows, NEW o \in Orders, NEW r \in S
  PROVE  /\ IsFiniteSet(S) /\ Cardinality(S) \in Nat
         /\ Before(S, r, o) \in 0 .. Cardinality(S) - 1
         /\ \A q \in S : o[q] < o[r] => Before(S, q, o) < Before(S, r, o)
<1> DEFINE below(s) == {q \in S : o[q] < o[s]}
<1>1. MaxRow \in Nat /\ Rows = 1..MaxRow  BY ListAssumption DEF ListAssumption, Rows
<1>2. IsFiniteSet(S) /\ Cardinality(S) \in Nat
  <2>1. IsFiniteSet(1..MaxRow)  BY <1>1, FS_Interval
  <2> QED  BY <1>1, <2>1, FS_Subset, FS_CardinalityType
<1>3. \A T \in SUBSET S : IsFiniteSet(T) /\ Cardinality(T) \in Nat
  BY <1>2, FS_Subset, FS_CardinalityType
<1>4. \A T \in SUBSET S, s \in S : s \notin T => Cardinality(T) < Cardinality(S)
  BY <1>2, <1>3, FS_Subset
<1>5. below(r) \in SUBSET S /\ r \notin below(r)
  <2>1. o[r] \in Nat  BY OrderIs
  <2> QED  BY <2>1
<1>6. ASSUME NEW q \in S, o[q] < o[r]  PROVE Cardinality(below(q)) < Cardinality(below(r))
  <2>3. \A s \in S : o[s] \in Nat  BY OrderIs
  <2>4. \A s \in S : o[s] < o[q] => o[s] < o[r]  BY <1>6, <2>3
  <2>1. below(q) \in SUBSET below(r) /\ q \in below(r) /\ q \notin below(q)
    BY <1>6, <2>3, <2>4
  <2>2. below(r) \in SUBSET S /\ below(q) \in SUBSET S  OBVIOUS
  <2> HIDE DEF below
  <2> QED  BY <1>3, <2>1, <2>2, FS_Subset
<1> HIDE DEF below
<1>7. Cardinality(below(r)) \in Nat /\ Cardinality(below(r)) < Cardinality(S)
  BY <1>3, <1>4, <1>5
<1>8. \A q \in S : Before(S, q, o) = Cardinality(below(q))
  BY DEF Before, below
<1> QED  BY <1>2, <1>6, <1>7, <1>8

\* The rows are ranked without gaps.
LEMMA EveryRankTaken ==
  ASSUME NEW S \in SUBSET Rows, NEW o \in Orders, NEW r \in S,
         NEW k \in 0 .. Before(S, r, o)
  PROVE  \E q \in S : Before(S, q, o) = k
<1> DEFINE n == Cardinality(S)
           rank == [q \in S |-> Before(S, q, o)]
<1>1. n \in Nat /\ IsFiniteSet(S) /\ Before(S, r, o) \in 0 .. n - 1  BY BeforeIs
<1>2. \A q \in S : Before(S, q, o) \in 0 .. n - 1  BY BeforeIs
<1>3. \A p, q \in S : p # q => Before(S, p, o) # Before(S, q, o)
  <2> TAKE p, q \in S
  <2>1. o[p] \in Nat /\ o[q] \in Nat /\ (p # q => o[p] # o[q])  BY OrderIs
  <2>2. p # q => o[p] < o[q] \/ o[q] < o[p]  BY <2>1
  <2>3. Before(S, p, o) \in Nat /\ Before(S, q, o) \in Nat  BY <1>1, <1>2
  <2>4. o[p] < o[q] => Before(S, p, o) < Before(S, q, o)  BY BeforeIs
  <2>5. o[q] < o[p] => Before(S, q, o) < Before(S, p, o)  BY BeforeIs
  <2>6. \A a, b \in Nat : a < b => a # b  OBVIOUS
  <2> QED  BY <2>2, <2>3, <2>4, <2>5, <2>6
<1>4. rank \in Injection(S, 0 .. n - 1)  BY <1>2, <1>3 DEF Injection, IsInjective
<1>5. IsFiniteSet(0 .. n - 1) /\ Cardinality(0 .. n - 1) = n
  BY <1>1, FS_Interval
<1>6. rank \in Surjection(S, 0 .. n - 1)  BY <1>4, <1>5, FS_Injection
<1>7. k \in 0 .. n - 1  BY <1>1
<1> QED  BY <1>6, <1>7 DEF Surjection

\* A page after which rows are left is full.
LEMMA PageFull ==
  ASSUME NEW S \in SUBSET Rows, NEW o \in Orders, NEW p \in Nat, NEW r \in S,
         Before(S, r, o) \div PageSize > p
  PROVE  Cardinality({q \in S : Before(S, q, o) \div PageSize = p}) = PageSize
<1> DEFINE page == {q \in S : Before(S, q, o) \div PageSize = p}
           ranks == p * PageSize .. p * PageSize + PageSize - 1
           rank == [q \in page |-> Before(S, q, o)]
<1>1. PageSize \in Nat \ {0} /\ p * PageSize \in Nat  BY ListAssumption DEF ListAssumption
<1>2. \A q \in S : Before(S, q, o) \in Nat
  <2> TAKE q \in S
  <2>1. Cardinality(S) \in Nat /\ Before(S, q, o) \in 0 .. Cardinality(S) - 1  BY BeforeIs
  <2> QED  BY <2>1
<1>3. \A q \in S : q \in page <=> Before(S, q, o) \in ranks  BY <1>1, <1>2, Quotient
<1>4. Before(S, r, o) >= p * PageSize + PageSize  BY <1>1, <1>2, Quotient
<1> HIDE DEF page
<1>5. \A k \in ranks : \E q \in page : Before(S, q, o) = k
  <2> TAKE k \in ranks
  <2>1. k \in 0 .. Before(S, r, o)  BY <1>1, <1>2, <1>4
  <2>2. PICK q \in S : Before(S, q, o) = k  BY <2>1, EveryRankTaken
  <2> QED  BY <1>3, <2>2
<1>6. page \subseteq S  BY DEF page
<1>7. \A q, s \in page : q # s => Before(S, q, o) # Before(S, s, o)
  <2> TAKE q, s \in page
  <2>1. q \in S /\ s \in S  BY <1>6
  <2>5. o[q] \in Nat /\ o[s] \in Nat /\ (q # s => o[q] # o[s])  BY <2>1, OrderIs
  <2>2. q # s => o[q] < o[s] \/ o[s] < o[q]  BY <2>5
  <2>3. Before(S, q, o) \in Nat /\ Before(S, s, o) \in Nat  BY <1>2, <2>1
  <2>4. /\ o[q] < o[s] => Before(S, q, o) < Before(S, s, o)
        /\ o[s] < o[q] => Before(S, s, o) < Before(S, q, o)
    BY <2>1, BeforeIs
  <2> QED  BY <2>2, <2>3, <2>4
<1> HIDE DEF ranks
<1>8. rank \in [page -> ranks]  BY <1>3, <1>6
<1>9. rank \in Injection(page, ranks)  BY <1>7, <1>8 DEF Injection, IsInjective
<1>10. rank \in Surjection(page, ranks)  BY <1>5, <1>8 DEF Surjection
<1>11. IsFiniteSet(ranks) /\ Cardinality(ranks) = PageSize
  <2>1. IsFiniteSet(p * PageSize .. p * PageSize + PageSize - 1)
        /\ Cardinality(p * PageSize .. p * PageSize + PageSize - 1) = PageSize
    BY <1>1, RanksOfAPage
  <2> QED  BY <2>1 DEF ranks
<1> QED  BY <1>9, <1>10, <1>11, FS_Injection DEF page

LEMMA AskedIs ==
  ASSUME live \in SUBSET Rows, NEW s \in Selections \cup {SignedOut}
  PROVE  Asked(s) \in SUBSET Rows /\ (s = SignedOut => Asked(s) = {})
BY ListAssumption DEF ListAssumption, Asked

\* What a fetch has: nothing before its first page, one page more with each answer, and
\* everything with a page that is not full.
LEMMA PagesAre ==
  ASSUME NEW S \in SUBSET Rows, NEW o \in Orders, NEW p \in Nat
  PROVE  /\ PagesBefore(S, 0, o) = {}
         /\ PagesBefore(S, p, o) \in SUBSET S /\ Page(S, p, o) \in SUBSET S
         /\ PagesBefore(S, p, o) \cap Page(S, p, o) = {}
         /\ PagesBefore(S, p + 1, o) = PagesBefore(S, p, o) \cup Page(S, p, o)
         /\ Cardinality(Page(S, p, o)) # PageSize => PagesBefore(S, p + 1, o) = S
<1>1. \A r \in S : Before(S, r, o) \div PageSize \in Nat
  <2> TAKE r \in S
  <2>1. Cardinality(S) \in Nat /\ Before(S, r, o) \in 0 .. Cardinality(S) - 1  BY BeforeIs
  <2>2. Before(S, r, o) \in Nat /\ PageSize \in Nat \ {0}
    BY <2>1, ListAssumption DEF ListAssumption
  <2> QED  BY <2>2, Quotient
<1>2. PagesBefore(S, 0, o) = {}  BY <1>1 DEF PagesBefore
<1>3. \A n \in Nat :
        (n < p + 1 <=> n < p \/ n = p) /\ ~(n < p /\ n = p) /\ (~(n > p) <=> n < p + 1)
  OBVIOUS
<1>4. PagesBefore(S, p, o) \cap Page(S, p, o) = {}
      /\ PagesBefore(S, p + 1, o) = PagesBefore(S, p, o) \cup Page(S, p, o)
  BY <1>1, <1>3 DEF PagesBefore, Page
<1>5. ASSUME Cardinality(Page(S, p, o)) # PageSize, NEW r \in S
      PROVE  ~(Before(S, r, o) \div PageSize > p)
  BY <1>5, PageFull DEF Page
<1>6. Cardinality(Page(S, p, o)) # PageSize => PagesBefore(S, p + 1, o) = S
  BY <1>1, <1>3, <1>5 DEF PagesBefore
<1> QED  BY <1>2, <1>4, <1>6 DEF PagesBefore, Page

\* Adding rows that are not there yet leaves each row once.
LEMMA OneMore ==
  ASSUME NEW A \in SUBSET Rows, NEW B \in SUBSET Rows,
         A \cap B = {}
  PROVE  With(Once(A), B) = Once(A \cup B)
BY DEF With, Once

LEMMA OnceIs == Once({}) = Nothing /\ \A A : Once(A) \in [Rows -> 0..2]
BY DEF Once, Nothing

LEMMA WithIs ==
  ASSUME NEW got \in [Rows -> 0..2], NEW answer
  PROVE  With(got, answer) \in [Rows -> 0..2]
BY DEF With

-----------------------------------------------------------------------------
(* The invariant *)

LEMMA IdleIs ==
  /\ NoLoad \in Load /\ NoLoad.state = "idle"
  /\ Nothing \in [Rows -> 0..2]
BY DEF NoLoad, Load, Nothing

LEMMA StaleIs ==
  ASSUME NEW l \in Load
  PROVE  /\ Stale(l) \in Load /\ ~Stale(l).fresh
         /\ Stale(l).state = l.state /\ Stale(l).on = l.on
BY DEF Stale, Load

\* A fetch has been started, of the selection: it is the only fresh one, and has read
\* nothing.
LEMMA Starts ==
  ASSUME ListTypeOK, FetchIsATenants, live' \in SUBSET Rows,
         NEW s \in Selections, selection' = s, StartFetch(s)
  PROVE  /\ load' \in [Loads -> Load] /\ undisturbed' \in BOOLEAN
         /\ FetchIsATenants' /\ NewestIsAbreast'
<1> DEFINE new == NewLoad(s)
           new0 == [on |-> s, page |-> 0, rows |-> Nothing, answer |-> {}, orders |-> {},
                    state |-> "asking", fresh |-> TRUE]
<1>1. PICK g \in Loads : ~Under(g) /\ load' = [AllStale EXCEPT ![g] = new0]
  BY DEF StartFetch, NewLoad
<1>2. new0 \in Load  BY IdleIs DEF Load
<1>3. \A f \in Loads : /\ Stale(load[f]) \in Load /\ ~Stale(load[f]).fresh
                       /\ Stale(load[f]).state = load[f].state
                       /\ Stale(load[f]).on = load[f].on
  BY StaleIs DEF ListTypeOK
<1>4. /\ load' \in [Loads -> Load]
      /\ \A f \in Loads : load'[f] = IF f = g THEN new0 ELSE Stale(load[f])
  BY <1>1, <1>2, <1>3 DEF AllStale
<1>5. FetchIsATenants'  BY <1>3, <1>4 DEF FetchIsATenants, Under
<1>6. \A f \in Loads : load'[f].fresh => f = g  BY <1>3, <1>4
<1>7. Abreast(g)'
  <2>1. \A o \in Orders : PagesBefore(Asked(selection), 0, o)' = {}
    <3> DEFINE S == Asked(selection)'
    <3>1. S \in SUBSET Rows  BY ListAssumption DEF ListAssumption, Asked, Rows
    <3> HIDE DEF S
    <3>2. \A o \in Orders : PagesBefore(S, 0, o) = {}  BY <3>1, PagesAre
    <3> QED  BY <3>2 DEF S, PagesBefore
  <2> QED  BY <1>4, <2>1, OnceIs DEF Abreast
<1>8. undisturbed' = FALSE  BY DEF StartFetch
<1> QED  BY <1>4, <1>5, <1>6, <1>7, <1>8 DEF NewestIsAbreast

\* A change has been missed: nothing is said of the fetches or the list.
LEMMA MissedKeeps ==
  ASSUME ListTypeOK, FetchIsATenants, Missed
  PROVE  /\ load' \in [Loads -> Load] /\ undisturbed' \in BOOLEAN
         /\ FetchIsATenants' /\ NewestIsAbreast'
<1>1. \A f \in Loads : /\ Stale(load[f]) \in Load /\ ~Stale(load[f]).fresh
                       /\ Stale(load[f]).state = load[f].state
                       /\ Stale(load[f]).on = load[f].on
  BY StaleIs DEF ListTypeOK
<1>2. /\ load' \in [Loads -> Load] /\ undisturbed' = FALSE
      /\ \A f \in Loads : load'[f] = Stale(load[f])
  BY <1>1 DEF Missed, AllStale
<1> QED  BY <1>1, <1>2 DEF FetchIsATenants, NewestIsAbreast, Under

\* The effect has run: a fetch of what is looked at now, or an empty list.
LEMMA RunEffectKeeps ==
  ASSUME ListTypeOK, FetchIsATenants, NEW s \in Selections \cup {SignedOut},
         RunEffect(s), UNCHANGED live
  PROVE  /\ load' \in [Loads -> Load] /\ shown' \in [Rows -> 0..2]
         /\ undisturbed' \in BOOLEAN
         /\ selection' = s /\ channel' \in {"none", "joining", "joined"}
         /\ timer' \in BOOLEAN /\ events' \in BOOLEAN
         /\ FetchIsATenants' /\ Subscribed' /\ NewestIsAbreast'
<1>1. /\ selection' = s /\ timer' = FALSE /\ events' = FALSE
      /\ channel' = IF s = SignedOut THEN "none" ELSE "joining"
  BY DEF RunEffect
<1>2. Subscribed'  BY <1>1 DEF Subscribed
<1>3. CASE s = SignedOut
  <2>1. shown' = Nothing /\ load' = AllStale /\ undisturbed' = TRUE
    BY <1>3 DEF RunEffect, Empty
  <2>2. \A f \in Loads : /\ Stale(load[f]) \in Load /\ ~Stale(load[f]).fresh
                         /\ Stale(load[f]).state = load[f].state
                         /\ Stale(load[f]).on = load[f].on
    BY StaleIs DEF ListTypeOK
  <2>3. load' \in [Loads -> Load] /\ \A f \in Loads : load'[f] = Stale(load[f])
    BY <2>1, <2>2 DEF AllStale
  <2>4. FetchIsATenants'  BY <2>2, <2>3 DEF FetchIsATenants, Under
  <2>5. Asked(selection)' = {}  BY <1>1, <1>3 DEF Asked
  <2>6. NewestIsAbreast'  BY <2>1, <2>2, <2>3, <2>5, OnceIs DEF NewestIsAbreast
  <2> QED  BY <1>1, <1>2, <2>1, <2>3, <2>4, <2>6, IdleIs
<1>4. CASE s # SignedOut
  <2>1. s \in Selections /\ StartFetch(s) /\ UNCHANGED shown  BY <1>4 DEF RunEffect
  <2>2. live' \in SUBSET Rows  BY DEF ListTypeOK
  <2>3. /\ load' \in [Loads -> Load] /\ undisturbed' \in BOOLEAN
        /\ FetchIsATenants' /\ NewestIsAbreast'
    BY <1>1, <2>1, <2>2, Starts
  <2> QED  BY <1>1, <1>2, <2>1, <2>3 DEF ListTypeOK
<1> QED  BY <1>3, <1>4

\* Where neither the table nor what is looked at changes, a fetch that is left alone is as
\* abreast as it was.
LEMMA AbreastStill ==
  ASSUME UNCHANGED <<live, selection>>, NEW f \in Loads, load'[f] = load[f],
         Abreast(f)
  PROVE  Abreast(f)'
BY DEF Abreast, Asked, Page, PagesBefore, Before

\* A step that leaves the table, the selection, the fetches and the list alone.
LEMMA ListStays ==
  ASSUME ListIInv, UNCHANGED <<live, selection, load, shown>>,
         undisturbed' => undisturbed, FetchDue => FetchDue',
         Deleting => Deleting' \/ undisturbed' = FALSE
  PROVE  FetchIsATenants' /\ NewestIsAbreast'
<1>1. \A f \in Loads : Abreast(f) => Abreast(f)'  BY AbreastStill
<1>2. Once(Asked(selection))' = Once(Asked(selection))  BY DEF Once, Asked
<1> QED  BY <1>1, <1>2 DEF ListIInv, FetchIsATenants, NewestIsAbreast, Under

\* A fetch lands.
LEMMA Lands ==
  ASSUME ListIInv, NEW f \in Loads, Under(f),
         NEW got \in [Rows -> 0..2], NEW complete \in BOOLEAN,
         Land(f, got, complete), UNCHANGED <<live, screen, events, mutation>>,
         complete /\ Abreast(f) => got = Once(Asked(selection))
  PROVE  ListIInv'
<1>1. /\ shown' = got /\ undisturbed' = (complete /\ load[f].fresh)
      /\ load' = [load EXCEPT ![f] = NoLoad]
      /\ load[f].fresh \in BOOLEAN
  BY DEF Land, ListIInv, ListTypeOK, Load
<1>2. load' \in [Loads -> Load]  BY <1>1, IdleIs DEF ListIInv, ListTypeOK
<1>3. ListTypeOK'  BY <1>1, <1>2 DEF ListIInv, ListTypeOK, screen
<1>4. \A g \in Loads : load'[g] = IF g = f THEN NoLoad ELSE load[g]
  BY <1>1 DEF ListIInv, ListTypeOK
<1>5. \A g \in Loads : Under(g)' => Under(g) /\ load'[g] = load[g]
  BY <1>4, IdleIs DEF Under
<1>6. FetchIsATenants'  BY <1>5 DEF ListIInv, FetchIsATenants
<1>7. Subscribed'  BY DEF ListIInv, Subscribed, screen
<1>8. NewestIsAbreast'
  <2> SUFFICES ASSUME ~FetchDue'
               PROVE  /\ \A g \in Loads : Under(g)' /\ load'[g].fresh => Abreast(g)'
                      /\ undisturbed' => shown' = Once(Asked(selection))'
    BY DEF NewestIsAbreast
  <2>1. \A g \in Loads : Under(g) /\ load[g].fresh => Abreast(g)
    BY DEF ListIInv, NewestIsAbreast, FetchDue, screen
  <2>2. \A g \in Loads : Under(g)' /\ load'[g].fresh => Abreast(g)'
    BY <1>5, <2>1, AbreastStill DEF screen
  <2>3. Once(Asked(selection))' = Once(Asked(selection))
    BY DEF Once, Asked, screen
  <2> QED  BY <1>1, <2>1, <2>2, <2>3
<1> QED  BY <1>3, <1>6, <1>7, <1>8 DEF ListIInv

LEMMA SelectKeeps ==
  ASSUME ListIInv, NEW s \in Selections \cup {SignedOut}, Select(s)
  PROVE  ListIInv'
<1>1. RunEffect(s) /\ UNCHANGED <<live, mutation>>  BY DEF Select
<1>2. ListTypeOK'  BY <1>1, RunEffectKeeps DEF ListIInv, ListTypeOK
<1> QED  BY <1>1, <1>2, RunEffectKeeps DEF ListIInv

LEMMA RefreshKeeps ==
  ASSUME ListIInv, Refresh
  PROVE  ListIInv'
<1>1. /\ RunEffect(selection) /\ mutation' = NoMutation /\ UNCHANGED live
      /\ selection \in Selections \cup {SignedOut}
  BY DEF Refresh, ListIInv, ListTypeOK
<1>2. ListTypeOK'  BY <1>1, RunEffectKeeps DEF ListIInv, ListTypeOK
<1> QED  BY <1>1, <1>2, RunEffectKeeps DEF ListIInv

LEMMA TimerFiresKeeps ==
  ASSUME ListIInv, TimerFires
  PROVE  ListIInv'
<1>1. /\ selection \in Selections /\ selection' = selection /\ StartFetch(selection)
      /\ UNCHANGED <<live, channel, events, shown, mutation>>
      /\ timer' = FALSE
  BY DEF TimerFires, ListIInv, Subscribed, ListTypeOK
<1>2. /\ load' \in [Loads -> Load] /\ undisturbed' \in BOOLEAN
      /\ FetchIsATenants' /\ NewestIsAbreast'
  BY <1>1, Starts DEF ListIInv, ListTypeOK
<1>3. ListTypeOK'  BY <1>1, <1>2 DEF ListIInv, ListTypeOK
<1>4. Subscribed'  BY <1>1 DEF ListIInv, Subscribed
<1> QED  BY <1>2, <1>3, <1>4 DEF ListIInv

LEMMA JoinKeeps ==
  ASSUME ListIInv, Join
  PROVE  ListIInv'
<1>1. /\ channel = "joining" /\ channel' = "joined"
      /\ UNCHANGED <<live, selection, timer, events, load, shown, undisturbed, mutation>>
  BY DEF Join, list
<1>2. ListTypeOK'  BY <1>1 DEF ListIInv, ListTypeOK
<1>3. Subscribed'  BY <1>1 DEF ListIInv, Subscribed
<1>4. FetchIsATenants' /\ NewestIsAbreast'
  BY <1>1, ListStays DEF FetchDue, Deleting
<1> QED  BY <1>2, <1>3, <1>4 DEF ListIInv

\* The events that a channel loses when it drops are missed changes.
LEMMA DropKeeps ==
  ASSUME ListIInv, Drop
  PROVE  ListIInv'
<1>1. /\ channel = "joined" /\ channel' = "joining" /\ events' = FALSE
      /\ UNCHANGED <<live, selection, timer, shown, mutation>>
  BY DEF Drop
<1>2. Subscribed'  BY <1>1 DEF ListIInv, Subscribed
<1>3. /\ load' \in [Loads -> Load] /\ undisturbed' \in BOOLEAN
      /\ FetchIsATenants' /\ NewestIsAbreast'
  <2>1. CASE events  BY <2>1, MissedKeeps DEF Drop, ListIInv
  <2>2. CASE ~events
    <3>1. UNCHANGED <<load, undisturbed>>  BY <2>2 DEF Drop
    <3> QED
      BY <1>1, <2>2, <3>1, ListStays DEF FetchDue, Deleting, ListIInv, ListTypeOK
  <2> QED  BY <2>1, <2>2
<1>4. ListTypeOK'  BY <1>1, <1>3 DEF ListIInv, ListTypeOK
<1> QED  BY <1>2, <1>3, <1>4 DEF ListIInv

LEMMA DeliverKeeps ==
  ASSUME ListIInv, Deliver
  PROVE  ListIInv'
<1>1. /\ events /\ events' = FALSE /\ timer' = TRUE
      /\ UNCHANGED <<live, selection, channel, load, shown, undisturbed, mutation>>
  BY DEF Deliver, list
<1>2. ListTypeOK'  BY <1>1 DEF ListIInv, ListTypeOK
<1>3. Subscribed'  BY <1>1 DEF ListIInv, Subscribed
<1>4. FetchIsATenants' /\ NewestIsAbreast'
  BY <1>1, ListStays DEF FetchDue, Deleting
<1> QED  BY <1>2, <1>3, <1>4 DEF ListIInv

\* A change is told to a joined subscription, or missed by a joining one; nobody who is
\* signed out is shown anything.
LEMMA SignalKeeps ==
  ASSUME ListIInv, Signal, UNCHANGED <<selection, channel, timer, shown>>, live' \in SUBSET Rows,
         Deleting' => Deleting
  PROVE  /\ load' \in [Loads -> Load] /\ undisturbed' \in BOOLEAN /\ events' \in BOOLEAN
         /\ FetchIsATenants' /\ Subscribed' /\ NewestIsAbreast'
<1>1. events' = (events \/ channel = "joined") /\ events' \in BOOLEAN
  BY DEF Signal, ListIInv, ListTypeOK
<1>2. Subscribed'  BY <1>1 DEF ListIInv, Subscribed
<1>3. CASE channel = "joining"
  <2>1. Missed  BY <1>3 DEF Signal
  <2> QED  BY <1>1, <1>2, <2>1, MissedKeeps DEF ListIInv
<1>4. CASE channel # "joining"
  <2>1. UNCHANGED <<load, undisturbed>>  BY <1>4 DEF Signal
  <2>2. FetchIsATenants'  BY <2>1 DEF ListIInv, FetchIsATenants, Under
  <2>3. CASE channel = "joined"
    <3>1. FetchDue'  BY <1>1, <2>3 DEF FetchDue
    <3> QED  BY <1>1, <1>2, <2>1, <2>2, <3>1 DEF NewestIsAbreast, ListIInv, ListTypeOK
  <2>4. CASE channel = "none"
    <3>1. selection = SignedOut /\ ~FetchDue
      BY <2>4 DEF ListIInv, Subscribed, FetchDue
    <3>2. Asked(selection) = {} /\ Asked(selection)' = {}  BY <3>1 DEF Asked
    <3>3. ASSUME NEW f \in Loads, Under(f), Abreast(f)  PROVE FALSE
      BY <3>1, <3>3, ListAssumption DEF ListAssumption, Abreast, ListIInv, FetchIsATenants
    <3>4. NewestIsAbreast'
      BY <2>1, <3>1, <3>2, <3>3 DEF ListIInv, NewestIsAbreast, Under
    <3> QED  BY <1>1, <1>2, <2>1, <2>2, <3>4 DEF ListIInv, ListTypeOK
  <2> QED  BY <1>4, <2>3, <2>4 DEF ListIInv, ListTypeOK
<1> QED  BY <1>3, <1>4

LEMMA ChangeKeeps ==
  ASSUME ListIInv, NEW r \in Rows, Change(r)
  PROVE  ListIInv'
<1>1. /\ live' = IF r \in live THEN live \ {r} ELSE live \cup {r}
      /\ Signal /\ UNCHANGED <<selection, channel, timer, shown, mutation>>
  BY DEF Change, screen
<1>2. live' \in SUBSET Rows  BY <1>1 DEF ListIInv, ListTypeOK
<1>3. Deleting' => Deleting  BY <1>1 DEF Deleting
<1>4. /\ load' \in [Loads -> Load] /\ undisturbed' \in BOOLEAN /\ events' \in BOOLEAN
      /\ FetchIsATenants' /\ Subscribed' /\ NewestIsAbreast'
  BY <1>1, <1>2, <1>3, SignalKeeps
<1>5. ListTypeOK'  BY <1>1, <1>2, <1>4 DEF ListIInv, ListTypeOK
<1> QED  BY <1>4, <1>5 DEF ListIInv

LEMMA MutateKeeps ==
  ASSUME ListIInv, NEW r \in Rows, NEW deletes \in BOOLEAN, Mutate(r, deletes)
  PROVE  ListIInv'
<1>1. /\ selection # SignedOut /\ mutation = NoMutation
      /\ mutation' = [row |-> r, deletes |-> deletes, state |-> "sent"]
      /\ shown' = IF deletes THEN [shown EXCEPT ![r] = 0] ELSE shown
      /\ UNCHANGED <<live, selection, channel, timer, events, load, undisturbed>>
  BY DEF Mutate, screen
<1>2. ListTypeOK'  BY <1>1 DEF ListIInv, ListTypeOK
<1>3. FetchIsATenants' /\ Subscribed'
  BY <1>1 DEF ListIInv, FetchIsATenants, Subscribed, Under
<1>4. NewestIsAbreast'
  <2>1. ~Deleting /\ (Deleting' <=> deletes) /\ (FetchDue' <=> FetchDue)
    BY <1>1 DEF NoMutation, Deleting, FetchDue
  <2>2. \A f \in Loads : Abreast(f) => Abreast(f)'  BY <1>1, AbreastStill
  <2>3. Once(Asked(selection))' = Once(Asked(selection))  BY <1>1 DEF Once, Asked
  <2> QED  BY <1>1, <2>1, <2>2, <2>3 DEF ListIInv, NewestIsAbreast, Under
<1> QED  BY <1>2, <1>3, <1>4 DEF ListIInv

\* What a mutation commits is signalled like any other change: the list does not depend on
\* its answer.
LEMMA CommitKeeps ==
  ASSUME ListIInv, Commit
  PROVE  ListIInv'
<1>1. /\ mutation.state = "sent" /\ mutation' = [mutation EXCEPT !.state = "committed"]
      /\ live' = IF mutation.deletes THEN live \ {mutation.row} ELSE live \cup {mutation.row}
      /\ Signal /\ UNCHANGED <<selection, channel, timer, shown>>
  BY DEF Commit, screen
<1>2. mutation \in [row : Rows, deletes : BOOLEAN, state : {"sent", "committed"}]
  BY <1>1 DEF ListIInv, ListTypeOK, NoMutation
<1>3. /\ mutation' \in [row : Rows, deletes : BOOLEAN, state : {"sent", "committed"}]
      /\ mutation'.state = "committed"
  BY <1>1, <1>2
<1>4. live' \in SUBSET Rows /\ ~Deleting'
  BY <1>1, <1>2, <1>3 DEF Deleting, ListIInv, ListTypeOK
<1>5. /\ load' \in [Loads -> Load] /\ undisturbed' \in BOOLEAN /\ events' \in BOOLEAN
      /\ FetchIsATenants' /\ Subscribed' /\ NewestIsAbreast'
  BY <1>1, <1>4, SignalKeeps
<1>6. ListTypeOK'  BY <1>1, <1>3, <1>4, <1>5 DEF ListIInv, ListTypeOK
<1> QED  BY <1>5, <1>6 DEF ListIInv

LEMMA LoseAnswerKeeps ==
  ASSUME ListIInv, LoseAnswer
  PROVE  ListIInv'
<1>1. /\ mutation.state = "committed" /\ mutation' = NoMutation
      /\ UNCHANGED <<live, selection, channel, timer, events, load, shown, undisturbed>>
  BY DEF LoseAnswer, screen, list
<1>2. ListTypeOK'  BY <1>1 DEF ListIInv, ListTypeOK
<1>3. Subscribed'  BY <1>1 DEF ListIInv, Subscribed
<1>4. FetchIsATenants' /\ NewestIsAbreast'
  BY <1>1, ListStays DEF FetchDue, Deleting
<1> QED  BY <1>2, <1>3, <1>4 DEF ListIInv

LEMMA MutationFailsKeeps ==
  ASSUME ListIInv, MutationFails
  PROVE  ListIInv'
<1>1. /\ mutation.state = "sent" /\ mutation' = NoMutation
      /\ undisturbed' = (undisturbed /\ ~mutation.deletes)
      /\ UNCHANGED <<live, selection, channel, timer, events, load, shown>>
  BY DEF MutationFails, screen
<1>2. mutation.deletes \in BOOLEAN  BY <1>1 DEF ListIInv, ListTypeOK, NoMutation
<1>3. ListTypeOK'  BY <1>1, <1>2 DEF ListIInv, ListTypeOK
<1>4. Subscribed'  BY <1>1 DEF ListIInv, Subscribed
<1>5. FetchIsATenants' /\ NewestIsAbreast'
  BY <1>1, ListStays DEF FetchDue, Deleting
<1> QED  BY <1>3, <1>4, <1>5 DEF ListIInv

\* A step of fetch f that neither starts nor ends it.
LEMMA GoesOn ==
  ASSUME ListIInv, NEW f \in Loads, Under(f), NEW next \in Load,
         load' = [load EXCEPT ![f] = next],
         next.state # "idle", next.fresh = load[f].fresh, next.on = load[f].on,
         UNCHANGED <<live, screen, events, shown, undisturbed, mutation>>,
         load[f].fresh /\ Abreast(f) => Abreast(f)'
  PROVE  ListIInv'
<1>1. \A g \in Loads : load'[g] = IF g = f THEN next ELSE load[g]  BY DEF ListIInv, ListTypeOK
<1>2. load' \in [Loads -> Load]  BY DEF ListIInv, ListTypeOK
<1>3. ListTypeOK'  BY <1>2 DEF ListIInv, ListTypeOK, screen
<1>4. \A g \in Loads : /\ Under(g)' <=> Under(g)
                       /\ load'[g].fresh = load[g].fresh /\ load'[g].on = load[g].on
  BY <1>1 DEF Under
<1>5. FetchIsATenants'  BY <1>4 DEF ListIInv, FetchIsATenants
<1>6. Subscribed'  BY DEF ListIInv, Subscribed, screen
<1>7. \A g \in Loads : load[g].fresh /\ Abreast(g) => Abreast(g)'
  BY <1>1, AbreastStill DEF screen
<1>8. /\ FetchDue' <=> FetchDue
      /\ Deleting' <=> Deleting
      /\ Once(Asked(selection))' = Once(Asked(selection))
  BY DEF FetchDue, Deleting, Once, Asked, screen
<1>9. NewestIsAbreast'  BY <1>4, <1>7, <1>8 DEF ListIInv, NewestIsAbreast, screen
<1> QED  BY <1>3, <1>5, <1>6, <1>9 DEF ListIInv

\* A page more is read in the order of those before it, or the orders are not one.
LEMMA ReadKeeps ==
  ASSUME ListIInv, NEW f \in Loads, Read(f)
  PROVE  ListIInv'
<1>1. PICK o \in Orders :
        load' = [load EXCEPT ![f] =
                   [load[f] EXCEPT !.state = "answered",
                                   !.answer = Page(Asked(load[f].on), load[f].page, o),
                                   !.orders = IF load[f].fresh THEN load[f].orders \cup {o}
                                              ELSE {}]]
  BY DEF Read
<1> DEFINE page == Page(Asked(load[f].on), load[f].page, o)
           orders == IF load[f].fresh THEN load[f].orders \cup {o} ELSE {}
           next == [load[f] EXCEPT !.state = "answered", !.answer = page, !.orders = orders]
<1>2. /\ load[f].state = "asking" /\ load' = [load EXCEPT ![f] = next]
      /\ UNCHANGED <<live, screen, events, shown, undisturbed, mutation>>
  BY <1>1 DEF Read
<1>3. load[f] \in Load  BY DEF ListIInv, ListTypeOK
<1>4. page \in SUBSET Rows
  <2>1. live \in SUBSET Rows /\ load[f].on \in Selections \cup {SignedOut}
    BY <1>3 DEF Load, ListIInv, ListTypeOK
  <2> QED  BY <2>1, AskedIs DEF Page
<1>5. orders \in SUBSET Orders  BY <1>3 DEF Load
<1> HIDE DEF page, orders
<1>6. /\ next \in Load /\ next.state = "answered" /\ next.answer = page
      /\ next.orders = orders /\ next.page = load[f].page /\ next.fresh = load[f].fresh
      /\ next.rows = load[f].rows /\ next.on = load[f].on
  BY <1>3, <1>4, <1>5 DEF Load
<1> HIDE DEF next
<1>7. load'[f] = next  BY <1>2 DEF ListIInv, ListTypeOK
<1>8. ASSUME load[f].fresh, Abreast(f)  PROVE Abreast(f)'
  <2>1. /\ selection' = selection
        /\ \A n, q : /\ Page(Asked(selection), n, q)' = Page(Asked(selection), n, q)
                     /\ PagesBefore(Asked(selection), n, q)'
                          = PagesBefore(Asked(selection), n, q)
    BY <1>2 DEF screen, Page, PagesBefore, Asked, Before
  <2>2. orders = load[f].orders \cup {o}  BY <1>8 DEF orders
  <2>3. ASSUME NEW q \in Orders, orders \subseteq {q}
        PROVE  /\ next.rows = Once(PagesBefore(Asked(selection), next.page, q))
               /\ next.answer = Page(Asked(selection), next.page, q)
    <3>1. q = o /\ load[f].orders \subseteq {q}  BY <2>2, <2>3
    <3> QED  BY <1>6, <1>8, <3>1 DEF Abreast, page
  <2>4. load[f].on = selection  BY <1>8 DEF Abreast
  <2>5. /\ next.on = selection'
        /\ \A q \in Orders : orders \subseteq {q} =>
             /\ next.rows = Once(PagesBefore(Asked(selection)', next.page, q))
             /\ next.answer = Page(Asked(selection)', next.page, q)
    <3>1. Asked(selection)' = Asked(selection)  BY <1>2, <2>1 DEF Asked, screen
    <3> QED  BY <1>6, <2>1, <2>3, <2>4, <3>1
  <2> QED  BY <1>6, <1>7, <2>5 DEF Abreast, PagesBefore, Page, Before, Once
<1>9. Under(f)  BY <1>2 DEF Under
<1> QED  BY <1>2, <1>6, <1>8, <1>9, GoesOn

LEMMA ArriveKeeps ==
  ASSUME ListIInv, NEW f \in Loads, Arrive(f)
  PROVE  ListIInv'
<1> DEFINE S == Asked(selection)
           got == With(load[f].rows, load[f].answer)
           next == [load[f] EXCEPT !.state = "asking", !.answer = {}, !.rows = got,
                                    !.page = NextPage(load[f].page)]
<1>1. /\ load[f].state = "answered" /\ Under(f)
      /\ UNCHANGED <<live, screen, events, mutation>>
  BY DEF Arrive, Under
<1>2. load[f] \in Load  BY DEF ListIInv, ListTypeOK
<1>3. got \in [Rows -> 0..2] /\ load[f].page \in Nat  BY <1>2, WithIs DEF Load
<1>4. ASSUME Abreast(f), NEW o \in Orders, load[f].orders \subseteq {o}
      PROVE  /\ got = Once(PagesBefore(S, load[f].page + 1, o))
             /\ Cardinality(load[f].answer) # PageSize => got = Once(S)
  <2>1. S \in SUBSET Rows  BY AskedIs DEF ListIInv, ListTypeOK
  <2>2. /\ load[f].rows = Once(PagesBefore(S, load[f].page, o))
        /\ load[f].answer = Page(S, load[f].page, o)
    BY <1>1, <1>4 DEF Abreast
  <2> HIDE DEF S
  <2>3. load[f].page \in Nat  BY <1>3
  <2> DEFINE A == PagesBefore(S, load[f].page, o)
             B == Page(S, load[f].page, o)
             C == PagesBefore(S, load[f].page + 1, o)
  <2>4. /\ A \in SUBSET S /\ B \in SUBSET S /\ A \cap B = {} /\ C = A \cup B
        /\ Cardinality(B) # PageSize => C = S
    BY <2>1, <2>3, PagesAre
  <2>5. load[f].rows = Once(A) /\ load[f].answer = B  BY <2>2
  <2>6. got = Once(C)
    <3> HIDE DEF A, B, C
    <3>1. A \in SUBSET Rows /\ B \in SUBSET Rows  BY <2>1, <2>4
    <3>2. With(Once(A), B) = Once(A \cup B)  BY <2>4, <3>1, OneMore
    <3> QED  BY <2>4, <2>5, <3>2
  <2> HIDE DEF A, B, C, got
  <2>7. Cardinality(load[f].answer) # PageSize => got = Once(S)  BY <2>4, <2>5, <2>6
  <2> QED  BY <2>6, <2>7 DEF C
<1>5. CASE Cardinality(load[f].answer) = PageSize
  <2>1. /\ load' = [load EXCEPT ![f] = next] /\ UNCHANGED <<shown, undisturbed>>
    BY <1>5 DEF Arrive
  <2>2. /\ next \in Load /\ next.state = "asking" /\ next.rows = got
        /\ next.page = load[f].page + 1 /\ next.on = load[f].on
        /\ next.fresh = load[f].fresh /\ next.orders = load[f].orders
    <3>1. NextPage(load[f].page) = load[f].page + 1 /\ load[f].page + 1 \in Nat
      BY <1>3 DEF NextPage
    <3> HIDE DEF got
    <3>2. /\ next.state = "asking" /\ next.rows = got
          /\ next.page = load[f].page + 1 /\ next.on = load[f].on
          /\ next.fresh = load[f].fresh /\ next.orders = load[f].orders
      BY <1>2, <3>1 DEF Load
    <3>3. next \in Load  BY <1>2, <1>3, <3>1 DEF Load
    <3> QED  BY <3>2, <3>3
  <2> HIDE DEF next
  <2>3. load'[f] = next  BY <2>1 DEF ListIInv, ListTypeOK
  <2>4. ASSUME Abreast(f)  PROVE Abreast(f)'
    <3>1. selection' = selection /\ Asked(selection)' = S
      BY <1>1 DEF screen, Asked
    <3>2. load[f].on = selection  BY <2>4 DEF Abreast
    <3>3. \A o \in Orders : next.orders \subseteq {o} =>
            next.rows = Once(PagesBefore(S, next.page, o))
      BY <1>4, <2>2, <2>4
    <3>4. /\ next.on = selection' /\ next.state = "asking"
          /\ \A o \in Orders : next.orders \subseteq {o} =>
               next.rows = Once(PagesBefore(Asked(selection)', next.page, o))
      BY <2>2, <3>1, <3>2, <3>3
    <3> QED  BY <2>3, <3>4 DEF Abreast, PagesBefore, Before, Once
  <2> QED  BY <1>1, <2>1, <2>2, <2>4, GoesOn
<1>6. CASE Cardinality(load[f].answer) # PageSize
  <2>1. Land(f, got, InOneOrder(f))  BY <1>6 DEF Arrive
  <2>2. InOneOrder(f) /\ Abreast(f) => got = Once(Asked(selection))
    BY <1>4, <1>6 DEF InOneOrder
  <2>3. InOneOrder(f) \in BOOLEAN  BY DEF InOneOrder
  <2> QED  BY <1>1, <1>3, <2>1, <2>2, <2>3, Lands
<1> QED  BY <1>5, <1>6

LEMMA PageFailsKeeps ==
  ASSUME ListIInv, NEW f \in Loads, PageFails(f)
  PROVE  ListIInv'
<1>1. /\ Under(f) /\ Land(f, load[f].rows, FALSE)
      /\ UNCHANGED <<live, screen, events, mutation>>
  BY DEF PageFails, Under
<1>2. load[f].rows \in [Rows -> 0..2]  BY DEF ListIInv, ListTypeOK, Load
<1> QED  BY <1>1, <1>2, Lands

LEMMA ListInitIInv == ListInit => ListIInv
<1> SUFFICES ASSUME ListInit PROVE ListIInv  OBVIOUS
<1>1. ListTypeOK
  <2>1. /\ live \in SUBSET Rows /\ selection \in Selections \cup {SignedOut}
        /\ channel \in {"none", "joining", "joined"} /\ shown \in [Rows -> 0..2]
        /\ load \in [Loads -> Load] /\ mutation = NoMutation
    BY IdleIs DEF ListInit
  <2>2. {events, timer, undisturbed} \subseteq BOOLEAN  BY DEF ListInit
  <2> QED  BY <2>1, <2>2 DEF ListTypeOK
<1>2. \A f \in Loads : ~Under(f)  BY IdleIs DEF ListInit, Under
<1>3. FetchIsATenants /\ Subscribed  BY <1>2 DEF ListInit, FetchIsATenants, Subscribed
<1>4. shown = Once(Asked(selection))  BY OnceIs DEF ListInit, Asked
<1>5. NewestIsAbreast  BY <1>2, <1>4 DEF NewestIsAbreast
<1> QED  BY <1>1, <1>3, <1>5 DEF ListIInv

LEMMA ListNextKeeps == ListIInv /\ [ListNext]_listVars => ListIInv'
<1> SUFFICES ASSUME ListIInv, [ListNext]_listVars PROVE ListIInv'  OBVIOUS
<1>1. ASSUME NEW f \in Loads, Read(f) \/ Arrive(f) \/ PageFails(f)  PROVE ListIInv'
  BY <1>1, ReadKeeps, ArriveKeeps, PageFailsKeeps
<1>2. CASE GoOn
  BY <1>1, <1>2, JoinKeeps, DeliverKeeps, TimerFiresKeeps, CommitKeeps, RefreshKeeps DEF GoOn
<1>3. ASSUME NEW r \in Rows, Mutate(r, TRUE) \/ Mutate(r, FALSE)  PROVE ListIInv'
  BY <1>3, MutateKeeps
<1>4. CASE UNCHANGED listVars
  <2>1. ListTypeOK'  BY <1>4 DEF ListIInv, ListTypeOK, listVars, screen, list
  <2>2. Subscribed'  BY <1>4 DEF ListIInv, Subscribed, listVars, screen
  <2>3. FetchIsATenants' /\ NewestIsAbreast'
    BY <1>4, ListStays DEF FetchDue, Deleting, listVars, screen, list
  <2> QED  BY <2>1, <2>2, <2>3 DEF ListIInv
<1> QED
  BY <1>1, <1>2, <1>3, <1>4, SelectKeeps, ChangeKeeps, DropKeeps, LoseAnswerKeeps,
     MutationFailsKeeps DEF ListNext

\* The inductive invariant: the fetch started last has read, page by page, what it would
\* read now, or another fetch is due, or it missed a change.
THEOREM ListInvariance == ListSpec => []ListIInv
BY ListInitIInv, ListNextKeeps, PTL DEF ListSpec

\* When nothing is under way the list shows every row that is asked for once, whatever
\* changed while useTransactions fetched its pages; unless an older fetch landed last, a
\* page failed, two pages ordered tied rows differently, a change fell while the
\* subscription was not joined, or a deletion failed.
THEOREM SettledIsCurrent == ListSpec => []SettledIsCurrentUnlessDisturbed
<1>1. ListIInv => SettledIsCurrentUnlessDisturbed
  <2> SUFFICES ASSUME ListIInv, Settled, undisturbed
               PROVE  shown = Once(Asked(selection))
    BY DEF SettledIsCurrentUnlessDisturbed
  <2>1. ~FetchDue /\ ~Deleting
    BY DEF Settled, FetchDue, Deleting, NoMutation
  <2> QED  BY <2>1 DEF ListIInv, NewestIsAbreast
<1> QED  BY <1>1, ListInvariance, PTL
=============================================================================
