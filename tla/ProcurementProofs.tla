-------------------------- MODULE ProcurementProofs --------------------------
(***************************************************************************)
(* Proofs about Procurement for every number of requests, orders, lines    *)
(* and connections.  IInv and AloneInv are inductive under any             *)
(* interleaving; AloneInv speaks of the orders that no two requests have   *)
(* been at work on at once.                                                *)
(***************************************************************************)
EXTENDS Procurement, FiniteSetTheorems, WellFoundedInduction, TLAPS

-----------------------------------------------------------------------------
(* The operators on lines and lots *)

\* A set of natural numbers that is not empty has a least element.
LEMMA LeastNatural ==
  ASSUME NEW T, T \subseteq Nat, T # {}
  PROVE  \E x \in T : \A y \in T : x =< y
  <1> DEFINE R == {ss \in Nat \X Nat : ss[1] < ss[2]}
  <1>1. IsWellFoundedOn(R, Nat)
    BY NatLessThanWellFounded, Zenon DEF OpToRel
  <1>2. \A y, x \in Nat : y < x => <<y, x>> \in R
    OBVIOUS
  <1> HIDE DEF R
  <1>3. PICK x \in T : \A y \in T : ~ (<<y, x>> \in R)
    BY <1>1, WFMin, Zenon
  <1>4. ASSUME NEW y \in T
        PROVE  x =< y
    <2>1. ~ (y < x)
      BY <1>2, <1>3
    <2> QED
      BY <2>1
  <1> QED
    BY <1>4

\* One that has a bound has a greatest element too.
LEMMA GreatestNatural ==
  ASSUME NEW T, NEW bound \in Nat, T \subseteq 1..bound, T # {}
  PROVE  \E x \in T : \A y \in T : y =< x
  <1> DEFINE Mirror == {bound - x : x \in T}
  <1>0. Mirror \subseteq Nat /\ Mirror # {}
    <2>1. \A x \in T : x \in Int /\ bound - x \in Nat
      OBVIOUS
    <2> QED
      BY <2>1
  <1> HIDE DEF Mirror
  <1>1. \E x \in Mirror : \A y \in Mirror : x =< y
    BY <1>0, LeastNatural
  <1> USE DEF Mirror
  <1>2. PICK x \in T : \A y \in Mirror : bound - x =< y
    BY <1>1
  <1>3. \A y \in T : bound - x =< bound - y
    BY <1>2
  <1> QED
    BY <1>3

\* A landed unit cost is a natural number, or invalid.
LEMMA LandedUnitCostType ==
  ASSUME NEW price \in Nat, NEW freight \in Nat, NEW lineCount, NEW ordered
  PROVE  LandedUnitCost(price, freight, lineCount, ordered) \in Nat \union {Invalid}
  BY DEF LandedUnitCost

\* The lots of a delivery have their shape when every statement succeeds.
LEMMA LotsType ==
  ASSUME NEW f \in Forms, NEW d \in Deliveries \union {<<>>}, NEW find \in Finds(f.lines),
         Bookable(Lots(f, d, find))
  PROVE  Lots(f, d, find) \in Posting
  <1> DEFINE lots == Lots(f, d, find)
  <1>1. d \in Seq(Delivered)
    <2>1. <<>> \in Seq(Delivered)
      OBVIOUS
    <2> QED
      BY <2>1, ProcurementAssumption
  <1>2. f.lines \in Seq(Line) /\ f.freight \in Nat
    BY ProcurementAssumption
  <1>3. ASSUME NEW n \in DOMAIN d
        PROVE  lots[n] \in Lot \union {NoLot}
    <2> DEFINE k == find[d[n].item]
    <2>1. d[n] \in Delivered
      BY <1>1
    <2>2. k \in 0..Len(f.lines) /\ Len(f.lines) \in Nat /\ d[n].qty \in Nat
      BY <1>2, <2>1 DEF Finds, Delivered
    <2>3. CASE k = 0
      BY <2>3 DEF Lots
    <2>4. CASE k # 0
      <3>1. k \in Nat \ {0} /\ f.lines[k].price \in Nat
        <4>1. f.lines[k] \in Line
          BY <1>2, <2>2, <2>4
        <4> QED
          BY <2>2, <2>4, <4>1 DEF Line
      <3>2. lots[n] = [line |-> k, qty |-> d[n].qty,
                       cost |-> LandedUnitCost(f.lines[k].price, f.freight,
                                               Len(f.lines), f.lines[k].ordered)]
        BY <2>4 DEF Lots
      <3>3. lots[n].cost \in Nat \union {Invalid}
        BY <1>2, <3>1, <3>2, LandedUnitCostType
      <3>4. lots[n] # NoLot => lots[n].qty # 0 /\ lots[n].cost # Invalid
        BY DEF Bookable, Lots
      <3> HIDE DEF lots
      <3>5. lots[n] = [line |-> lots[n].line, qty |-> lots[n].qty, cost |-> lots[n].cost]
        BY <3>2
      <3> QED
        BY <2>2, <3>1, <3>2, <3>3, <3>4, <3>5 DEF Lot
    <2> QED
      BY <2>3, <2>4
  <1>4. DOMAIN d = 1..Len(d) /\ Len(d) \in Nat
    BY <1>1
  <1>5. lots = [n \in 1..Len(d) |-> lots[n]]
    BY <1>4 DEF Lots
  <1> HIDE DEF lots
  <1>6. lots \in Seq(Lot \union {NoLot})
    BY <1>3, <1>4, <1>5
  <1> QED
    BY <1>6 DEF Posting, lots

\* Writing quantities received to the lines leaves natural numbers.
LEMMA ReceivedAfterType ==
  ASSUME NEW old \in Seq(Nat), NEW lots \in Posting
  PROVE  ReceivedAfter(old, lots) \in Seq(Nat)
  <1> DEFINE new == ReceivedAfter(old, lots)
  <1>1. ASSUME NEW k \in DOMAIN old
        PROVE  new[k] \in Nat
    <2>1. CASE For(lots, k) = {}
      BY <2>1 DEF ReceivedAfter
    <2>2. CASE For(lots, k) # {}
      <3>1. For(lots, k) \subseteq 1..Len(lots) /\ Len(lots) \in Nat
        BY DEF For, Posting
      <3>2. \E n \in For(lots, k) : \A m \in For(lots, k) : m =< n
        BY <2>2, <3>1, GreatestNatural
      <3>3. PICK n \in For(lots, k) : new[k] = lots[n].qty
        BY <2>2, <3>2 DEF ReceivedAfter
      <3>4. lots[n] \in Lot
        BY <3>3 DEF For, Posting
      <3> QED
        BY <3>3, <3>4 DEF Lot
    <2> QED
      BY <2>1, <2>2
  <1>2. new = [k \in 1..Len(old) |-> new[k]]
    BY DEF ReceivedAfter
  <1> HIDE DEF new
  <1>3. Len(old) \in Nat /\ DOMAIN old = 1..Len(old)
    OBVIOUS
  <1>4. new \in [1..Len(old) -> Nat]
    BY <1>1, <1>2, <1>3
  <1>5. new \in Seq(Nat)
    BY <1>3, <1>4
  <1> QED
    BY <1>5 DEF new

-----------------------------------------------------------------------------
(* Type correctness and the invariant under any interleaving *)

\* Handlers start from well-typed local variables.
LEMMA TaskType ==
  ASSUME NEW p \in Orders \union {NoForm}, NEW d \in Deliveries \union {<<>>},
         NEW lots \in Posting
  PROVE  Task(p, d, lots) \in Tasks
  BY DEF Task, Tasks

LEMMA NoTaskType ==
  NoTask \in Tasks /\ NoLots \in Posting
  <1>1. <<>> \in Posting
    BY DEF Posting
  <1> QED
    BY <1>1, TaskType DEF NoTask, NoLots

\* Continue changes the two variables of one request only.
LEMMA ContinueType ==
  ASSUME TypeOK, NEW r \in Requests, NEW next \in States, NEW t \in Tasks,
         Continue(r, next, t)
  PROVE  /\ pc' \in [Requests -> States]
         /\ task' \in [Requests -> Tasks]
         /\ alone' \subseteq Orders
         /\ pc'[r] = next
         /\ next # "idle" => task'[r] = t
         /\ \A q \in Requests \ {r} : pc'[q] = pc[q] /\ task'[q] = task[q]
  BY NoTaskType DEF TypeOK, Continue

\* No status goes back to DRAFT or to ABSENT.
Onward ==
  \A p \in Orders :
    /\ status[p] # "ABSENT" => status'[p] # "ABSENT"
    /\ status[p] \notin {"ABSENT", "DRAFT"} => status'[p] # "DRAFT"

\* What handlers know survives a step that leads onward, if the one that takes
\* it knows what it should of its own order.
LEMMA KnowsPreserved ==
  ASSUME TypeOK, HandlersKnowTheirOrder, Onward,
         NEW r \in Requests, NEW next \in States, NEW t \in Tasks,
         Continue(r, next, t),
         next # "idle" => t.order \in Orders /\ status'[t.order] # "ABSENT",
         next \in Receiving => status'[t.order] # "DRAFT"
  PROVE  HandlersKnowTheirOrder'
  <1> SUFFICES ASSUME NEW q \in Requests
               PROVE  Knows(pc[q], task[q])'
    BY DEF HandlersKnowTheirOrder
  <1>1. /\ pc'[r] = next
        /\ next # "idle" => task'[r] = t
        /\ \A u \in Requests \ {r} : pc'[u] = pc[u] /\ task'[u] = task[u]
    BY ContinueType
  <1>2. CASE q = r
    BY <1>1, <1>2 DEF Knows, Receiving
  <1>3. CASE q # r
    <2>1. Knows(pc[q], task[q]) /\ pc'[q] = pc[q] /\ task'[q] = task[q]
      BY <1>1, <1>3 DEF HandlersKnowTheirOrder
    <2> QED
      BY <2>1 DEF Knows, Onward, Receiving
  <1> QED
    BY <1>2, <1>3

THEOREM InitIInv == Init => IInv
  <1> SUFFICES ASSUME Init PROVE IInv
    OBVIOUS
  <1>1. TypeOK
    <2>1. <<>> \in Seq(Nat) /\ <<>> \in Seq(Posting)
      OBVIOUS
    <2> QED
      BY <2>1, NoTaskType DEF Init, TypeOK, Statuses, States
  <1>2. NoStockYet /\ HandlersKnowTheirOrder /\ Placed
    BY DEF Init, NoStockYet, HandlersKnowTheirOrder, Knows, Placed, Receiving
  <1> QED
    BY <1>1, <1>2 DEF IInv

\* The check of a status keeps the invariant, for handlers of any operation.
LEMMA CheckIInv ==
  ASSUME IInv, NEW r \in Requests, NEW allowed, "ABSENT" \notin allowed,
         NEW next \in States, next \in Receiving => "DRAFT" \notin allowed,
         NEW d \in Deliveries \union {<<>>}, Check(r, allowed, next, d)
  PROVE  IInv'
  <1>1. PICK p \in Orders : status[p] \in allowed /\ Continue(r, next, Task(p, d, NoLots))
    BY DEF Check
  <1> DEFINE t == Task(p, d, NoLots)
  <1>2. t \in Tasks /\ t.order = p
    BY TaskType, NoTaskType DEF Task
  <1>3. UNCHANGED <<status, form, received, receipts>>
    BY DEF Check, table
  <1> HIDE DEF t
  <1>4. TypeOK'
    BY <1>1, <1>2, <1>3, ContinueType DEF IInv, TypeOK, t
  <1>5. HandlersKnowTheirOrder'
    <2>1. Onward
      BY <1>3 DEF Onward
    <2>2. next # "idle" => t.order \in Orders /\ status'[t.order] # "ABSENT"
      BY <1>1, <1>2, <1>3
    <2>3. next \in Receiving => status'[t.order] # "DRAFT"
      BY <1>1, <1>2, <1>3
    <2> QED
      BY <1>1, <1>2, <2>1, <2>2, <2>3, KnowsPreserved DEF IInv, t
  <1> QED
    BY <1>3, <1>4, <1>5 DEF IInv, NoStockYet, Placed

\* A write of the status onward keeps it, when the handler ends or goes on
\* receiving the order.
LEMMA SetStatusIInv ==
  ASSUME IInv, NEW r \in Requests, pc[r] # "idle",
         NEW s \in {"SUBMITTED", "RECEIVED", "CANCELLED"},
         NEW next \in States, SetStatus(task[r].order, s),
         (next = "idle" /\ Finish(r)) \/ Continue(r, next, task[r])
  PROVE  IInv'
  <1> DEFINE p == task[r].order
  <1>1. p \in Orders /\ status[p] # "ABSENT" /\ task[r] \in Tasks
    BY DEF IInv, HandlersKnowTheirOrder, Knows, TypeOK
  <1>2. /\ status' \in [Orders -> Statuses]
        /\ status'[p] = s
        /\ \A q \in Orders \ {p} : status'[q] = status[q]
        /\ UNCHANGED <<form, received, receipts>>
    BY <1>1 DEF IInv, TypeOK, SetStatus, Statuses
  <1>3. Onward
    BY <1>1, <1>2 DEF Onward
  <1>4. PICK t \in Tasks : Continue(r, next, t) /\ (next # "idle" => t = task[r])
    BY <1>1, NoTaskType DEF Finish
  <1> HIDE DEF p
  <1>5. TypeOK'
    BY <1>2, <1>4, ContinueType DEF IInv, TypeOK
  <1>6. HandlersKnowTheirOrder'
    <2>1. next # "idle" => t.order \in Orders /\ status'[t.order] = s
      BY <1>1, <1>2, <1>4 DEF p
    <2>2. next # "idle" => t.order \in Orders /\ status'[t.order] # "ABSENT"
      BY <2>1
    <2>3. next \in Receiving => status'[t.order] # "DRAFT"
      BY <2>1 DEF Receiving
    <2>4. TypeOK /\ HandlersKnowTheirOrder
      BY DEF IInv
    <2> QED
      BY <1>3, <1>4, <2>2, <2>3, <2>4, KnowsPreserved
  <1>7. NoStockYet' /\ Placed'
    BY <1>1, <1>2 DEF IInv, NoStockYet, Placed
  <1> QED
    BY <1>5, <1>6, <1>7 DEF IInv

\* A step that leaves the statuses and forms alone keeps the invariant, when it
\* keeps the types and the drafts' receipts.
LEMMA HandlerIInv ==
  ASSUME IInv, NEW r \in Requests, pc[r] \in Receiving,
         NEW next \in States, NEW t \in Tasks, Continue(r, next, t),
         next # "idle" => t.order = task[r].order,
         UNCHANGED <<status, form>>,
         received' \in [Orders -> Seq(Nat)], receipts' \in [Orders -> Seq(Posting)],
         NoStockYet'
  PROVE  IInv'
  <1>1. task[r].order \in Orders /\ status[task[r].order] \notin {"ABSENT", "DRAFT"}
    BY DEF IInv, HandlersKnowTheirOrder, Knows, Receiving
  <1>2. TypeOK'
    BY ContinueType DEF IInv, TypeOK
  <1>3. HandlersKnowTheirOrder'
    <2>1. Onward
      BY DEF Onward
    <2>2. TypeOK /\ HandlersKnowTheirOrder
      BY DEF IInv
    <2>3. next # "idle" => t.order \in Orders /\ status'[t.order] # "ABSENT"
      BY <1>1
    <2>4. next \in Receiving => status'[t.order] # "DRAFT"
      BY <1>1 DEF Receiving
    <2> QED
      BY <2>1, <2>2, <2>3, <2>4, KnowsPreserved
  <1> QED
    BY <1>2, <1>3 DEF IInv, Placed

\* A new order has its form, and no quantity received.
LEMMA CreateIInv ==
  ASSUME IInv, NEW r \in Requests, CreatePO(r)
  PROVE  IInv'
  <1>1. PICK p \in Orders, f \in Forms :
          /\ status[p] = "ABSENT"
          /\ status' = [status EXCEPT ![p] = "DRAFT"]
          /\ form' = [form EXCEPT ![p] = f]
          /\ received' = [received EXCEPT ![p] = [k \in DOMAIN f.lines |-> 0]]
          /\ UNCHANGED <<receipts, pc, task, alone>>
    BY DEF CreatePO
  <1>2. [k \in DOMAIN f.lines |-> 0] \in Seq(Nat)
    <2>1. f.lines \in Seq(Line)
      BY ProcurementAssumption
    <2>2. Len(f.lines) \in Nat /\ DOMAIN f.lines = 1..Len(f.lines)
      BY <2>1
    <2> QED
      BY <2>2
  <1>3. TypeOK'
    BY <1>1, <1>2 DEF IInv, TypeOK, Statuses
  <1>4. NoStockYet' /\ Placed'
    BY <1>1 DEF IInv, TypeOK, NoStockYet, Placed
  <1>5. HandlersKnowTheirOrder'
    <2> SUFFICES ASSUME NEW q \in Requests
                 PROVE  Knows(pc[q], task[q])'
      BY DEF HandlersKnowTheirOrder
    <2>1. Knows(pc[q], task[q])
      BY DEF IInv, HandlersKnowTheirOrder
    <2> QED
      BY <1>1, <2>1 DEF Knows, Receiving, IInv, TypeOK
  <1> QED
    BY <1>3, <1>4, <1>5 DEF IInv

LEMMA ReceiveLotsIInv ==
  ASSUME IInv, NEW r \in Requests, ReceiveLots(r)
  PROVE  IInv'
  <1> DEFINE p == task[r].order
             d == task[r].delivery
  <1>0. PICK find \in Finds(form[p].lines) :
          IF Bookable(Lots(form[p], d, find))
            THEN Continue(r, "receive_status", Task(p, d, Lots(form[p], d, find)))
            ELSE Finish(r)
    BY DEF ReceiveLots
  <1> DEFINE lots == Lots(form[p], d, find)
  <1>1. pc[r] = "receive_lots" /\ UNCHANGED <<status, form, received, receipts>>
    BY DEF ReceiveLots, table
  <1>2. p \in Orders /\ form[p] \in Forms /\ d \in Deliveries \union {<<>>}
    BY <1>1 DEF IInv, TypeOK, HandlersKnowTheirOrder, Knows, Placed, Tasks
  <1>3. received' \in [Orders -> Seq(Nat)] /\ receipts' \in [Orders -> Seq(Posting)]
        /\ NoStockYet'
    BY <1>1 DEF IInv, TypeOK, NoStockYet
  <1>4. CASE Bookable(lots)
    <2>1. Task(p, d, lots) \in Tasks
      <3>1. lots \in Posting
        BY <1>2, <1>4, LotsType
      <3> HIDE DEF lots
      <3> QED
        BY <1>2, <3>1, TaskType
    <2>2. Continue(r, "receive_status", Task(p, d, lots))
      BY <1>0, <1>4
    <2>3. Task(p, d, lots).order = p
      BY DEF Task
    <2> HIDE DEF lots, d
    <2> QED
      BY <1>1, <1>3, <2>1, <2>2, <2>3, HandlerIInv DEF Receiving, States
  <1>5. CASE ~ Bookable(lots)
    <2>1. Continue(r, "idle", NoTask)
      BY <1>0, <1>5 DEF Finish
    <2> QED
      BY <1>1, <1>3, <2>1, NoTaskType, HandlerIInv DEF Receiving, States
  <1> QED
    BY <1>4, <1>5

LEMMA ReceiveCommitIInv ==
  ASSUME IInv, NEW r \in Requests, ReceiveCommit(r)
  PROVE  IInv'
  <1> DEFINE p == task[r].order
             after == ReceivedAfter(received[p], task[r].lots)
             booked == Append(receipts[p], task[r].lots)
  <1>1. /\ pc[r] = "receive_commit"
        /\ received' = [received EXCEPT ![p] = after]
        /\ receipts' = [receipts EXCEPT ![p] = booked]
        /\ Continue(r, "idle", NoTask)
        /\ UNCHANGED <<status, form>>
    BY DEF ReceiveCommit, Finish
  <1>2. p \in Orders /\ status[p] \notin {"ABSENT", "DRAFT"} /\ task[r].lots \in Posting
    BY <1>1 DEF IInv, TypeOK, HandlersKnowTheirOrder, Knows, Receiving, Tasks
  <1>3. after \in Seq(Nat) /\ booked \in Seq(Posting)
    BY <1>2, ReceivedAfterType DEF IInv, TypeOK
  <1> HIDE DEF p, after, booked
  <1>4. received' \in [Orders -> Seq(Nat)] /\ receipts' \in [Orders -> Seq(Posting)]
    BY <1>1, <1>2, <1>3 DEF IInv, TypeOK
  <1>5. NoStockYet'
    BY <1>1, <1>2 DEF IInv, TypeOK, NoStockYet
  <1> QED
    BY <1>1, <1>4, <1>5, NoTaskType, HandlerIInv DEF Receiving, States

THEOREM NextIInv == IInv /\ [Next]_vars => IInv'
  <1> SUFFICES ASSUME IInv, [Next]_vars PROVE IInv'
    OBVIOUS
  <1>1. CASE UNCHANGED vars
    BY <1>1 DEF vars, IInv, TypeOK, NoStockYet, HandlersKnowTheirOrder, Knows, Placed
  <1>2. ASSUME NEW r \in Requests, CreatePO(r)
        PROVE  IInv'
    BY <1>2, CreateIInv
  <1>3. ASSUME NEW r \in Requests, SubmitCheck(r)
        PROVE  IInv'
    BY <1>3, CheckIInv DEF SubmitCheck, States, Receiving
  <1>4. ASSUME NEW r \in Requests, CancelCheck(r)
        PROVE  IInv'
    BY <1>4, CheckIInv DEF CancelCheck, States, Receiving
  <1>5. ASSUME NEW r \in Requests, ReceiveCheck(r)
        PROVE  IInv'
    BY <1>5, CheckIInv DEF ReceiveCheck, States
  <1>6. ASSUME NEW r \in Requests, SubmitWrite(r)
        PROVE  IInv'
    BY <1>6, SetStatusIInv DEF SubmitWrite, States
  <1>7. ASSUME NEW r \in Requests, CancelWrite(r)
        PROVE  IInv'
    BY <1>7, SetStatusIInv DEF CancelWrite, States
  <1>8. ASSUME NEW r \in Requests, ReceiveBegin(r)
        PROVE  IInv'
    <2>1. /\ pc[r] \in Receiving /\ Continue(r, "receive_lots", task[r])
          /\ UNCHANGED <<status, form, received, receipts>>
      BY <1>8 DEF ReceiveBegin, table, Receiving
    <2>2. /\ task[r] \in Tasks /\ NoStockYet'
          /\ received' \in [Orders -> Seq(Nat)] /\ receipts' \in [Orders -> Seq(Posting)]
      BY <2>1 DEF IInv, TypeOK, NoStockYet
    <2> QED
      BY <2>1, <2>2, HandlerIInv DEF States
  <1>9. ASSUME NEW r \in Requests, ReceiveLots(r)
        PROVE  IInv'
    BY <1>9, ReceiveLotsIInv
  <1>10. ASSUME NEW r \in Requests, ReceiveStatus(r)
         PROVE  IInv'
    BY <1>10, SetStatusIInv DEF ReceiveStatus, States
  <1>11. ASSUME NEW r \in Requests, ReceiveCommit(r)
         PROVE  IInv'
    BY <1>11, ReceiveCommitIInv
  <1>12. ASSUME NEW r \in Requests, Fail(r)
         PROVE  IInv'
    <2>1. Continue(r, "idle", NoTask) /\ UNCHANGED <<status, form, received, receipts>>
      BY <1>12 DEF Fail, Finish, table
    <2>2. Onward /\ TypeOK /\ HandlersKnowTheirOrder
      BY <2>1 DEF Onward, IInv
    <2>3. HandlersKnowTheirOrder'
      BY <2>1, <2>2, NoTaskType, KnowsPreserved DEF States, Receiving
    <2>4. TypeOK'
      BY <2>1, <2>2, NoTaskType, ContinueType DEF TypeOK, States
    <2> QED
      BY <2>1, <2>3, <2>4 DEF IInv, NoStockYet, Placed
  <1> QED
    BY <1>1, <1>2, <1>3, <1>4, <1>5, <1>6, <1>7, <1>8, <1>9, <1>10, <1>11, <1>12
    DEF Next, Proceed

THEOREM Invariance == Spec => []IInv
  BY InitIInv, NextIInv, PTL DEF Spec

\* The tables and local variables keep their types under every interleaving.
THEOREM TypeCorrect == Spec => []TypeOK
  <1>1. IInv => TypeOK
    BY DEF IInv
  <1> QED
    BY <1>1, Invariance, PTL

-----------------------------------------------------------------------------
\* Under every interleaving a draft is not received and gets no stock.
THEOREM DraftsStayUnbooked == Spec => DraftsGetNoStock
  <1> DEFINE Safe(p) == status[p] \in {"ABSENT", "DRAFT"} =>
                          status'[p] # "RECEIVED" /\ receipts'[p] = <<>>
  <1>1. IInv /\ [Next]_vars => [\A p \in Orders : Safe(p)]_vars
    <2> SUFFICES ASSUME IInv, Next, NEW p \in Orders, status[p] \in {"ABSENT", "DRAFT"}
                 PROVE  status'[p] # "RECEIVED" /\ receipts'[p] = <<>>
      OBVIOUS
    <2>1. IInv'
      BY NextIInv
    <2>2. receipts[p] = <<>> /\ status[p] # "RECEIVED" /\ p \in DOMAIN status
      BY DEF IInv, NoStockYet, TypeOK
    <2>3. ASSUME NEW r \in Requests, pc[r] \in Receiving
          PROVE  task[r].order # p
      BY <2>3 DEF IInv, HandlersKnowTheirOrder, Knows, Receiving
    <2>4. ASSUME NEW r \in Requests, CreatePO(r)
          PROVE  status'[p] # "RECEIVED" /\ receipts'[p] = <<>>
      BY <2>2, <2>4 DEF CreatePO, IInv, TypeOK
    <2>5. ASSUME NEW r \in Requests,
                 SubmitCheck(r) \/ CancelCheck(r) \/ ReceiveCheck(r) \/ ReceiveBegin(r)
                 \/ ReceiveLots(r) \/ Fail(r)
          PROVE  status'[p] # "RECEIVED" /\ receipts'[p] = <<>>
      <3>1. UNCHANGED <<status, receipts>>
        BY <2>5 DEF SubmitCheck, CancelCheck, ReceiveCheck, Check, ReceiveBegin,
                    ReceiveLots, Fail, table
      <3> QED
        BY <2>2, <3>1
    <2>6. ASSUME NEW r \in Requests, SubmitWrite(r) \/ CancelWrite(r)
          PROVE  status'[p] # "RECEIVED" /\ receipts'[p] = <<>>
      BY <2>2, <2>6 DEF SubmitWrite, CancelWrite, SetStatus, IInv, TypeOK
    <2>7. ASSUME NEW r \in Requests, ReceiveStatus(r) \/ ReceiveCommit(r)
          PROVE  status'[p] # "RECEIVED" /\ receipts'[p] = <<>>
      <3>1. task[r].order # p
        BY <2>3, <2>7 DEF ReceiveStatus, ReceiveCommit, Receiving
      <3> QED
        BY <2>2, <2>7, <3>1 DEF ReceiveStatus, ReceiveCommit, SetStatus, IInv, TypeOK
    <2> QED
      BY <2>4, <2>5, <2>6, <2>7 DEF Next, Proceed
  <1> QED
    BY <1>1, Invariance, PTL DEF Spec, DraftsGetNoStock

-----------------------------------------------------------------------------
(* Orders whose requests never overlapped *)

THEOREM InitAloneInv == Init => AloneInv
  <1> SUFFICES ASSUME Init PROVE AloneInv
    OBVIOUS
  <1>1. OneHandler /\ \A r \in Requests : AloneKnows(pc[r], task[r])
    BY DEF Init, AloneKnows, OneHandler, Busy
  <1>2. OneReceiptWhenReceived
    BY DEF Init, OneReceiptWhenReceived
  <1> QED
    BY <1>1, <1>2, InitIInv DEF AloneInv

\* An order on which a second handler starts work is no longer alone.
LEMMA AloneShrinks ==
  ASSUME NEW r \in Requests, NEW next, NEW t, Continue(r, next, t)
  PROVE  /\ alone' \subseteq alone
         /\ next # "idle" /\ t.order \in alone' =>
              \A q \in Requests \ {r} : ~ Busy(q, t.order)
  BY DEF Continue

\* What AloneInv says of order p when it is alone, and of the handler r at work
\* on it.
HandlerAlone(r, p) ==
  p \in alone => /\ AloneKnows(pc[r], task[r])
                 /\ receipts[p] = <<>> \/ (status[p] = "RECEIVED" /\ Len(receipts[p]) = 1)

\* A step of r that touches order p only, as the handler at work on it if it
\* changes it, has only to keep what is said of r and p.
LEMMA AloneStep ==
  ASSUME AloneInv, NEW r \in Requests, NEW next \in States, NEW t \in Tasks,
         Continue(r, next, t), NEW p \in Orders,
         next # "idle" => t.order = p,
         \A o \in Orders \ {p} : status'[o] = status[o] /\ receipts'[o] = receipts[o],
         Busy(r, p) \/ UNCHANGED <<status, receipts>>,
         IInv', HandlerAlone(r, p)'
  PROVE  AloneInv'
  <1>0. TypeOK /\ HandlersKnowTheirOrder
    BY DEF AloneInv, IInv
  <1>1. /\ pc'[r] = next
        /\ next # "idle" => task'[r] = t
        /\ \A q \in Requests \ {r} : pc'[q] = pc[q] /\ task'[q] = task[q]
    BY <1>0, ContinueType
  <1>2. alone' \subseteq alone /\ alone \subseteq Orders
    BY <1>0, AloneShrinks DEF TypeOK
  <1>3. next # "idle" /\ p \in alone' => \A q \in Requests \ {r} : ~ Busy(q, p)
    BY AloneShrinks
  <1>4. OneHandler'
    <2> SUFFICES ASSUME NEW o \in alone', NEW q \in Requests, NEW u \in Requests,
                        Busy(q, o)', Busy(u, o)', q # u
                 PROVE  FALSE
      BY DEF OneHandler
    <2>1. CASE q # r /\ u # r
      BY <1>1, <1>2, <2>1 DEF AloneInv, OneHandler, Busy
    <2>2. CASE q = r \/ u = r
      <3>1. next # "idle" /\ o = p
        BY <1>1, <2>2 DEF Busy
      <3>2. PICK other \in {q, u} : other # r /\ Busy(other, o)'
        BY <2>2
      <3>3. Busy(other, o)
        BY <1>1, <3>2 DEF Busy
      <3> QED
        BY <1>3, <3>1, <3>2, <3>3
    <2> QED
      BY <2>1, <2>2
  <1>5. ASSUME NEW q \in Requests, task'[q].order \in alone'
        PROVE  AloneKnows(pc[q], task[q])'
    <2>1. CASE pc'[q] = "idle"
      BY <2>1 DEF AloneKnows
    <2>2. CASE q = r /\ pc'[q] # "idle"
      BY <1>1, <1>5, <2>2 DEF HandlerAlone
    <2>3. CASE q # r /\ pc'[q] # "idle"
      <3> DEFINE o == task[q].order
      <3>1. pc'[q] = pc[q] /\ task'[q] = task[q] /\ o \in alone /\ Busy(q, o)
        BY <1>1, <1>2, <1>5, <2>3 DEF Busy
      <3>2. AloneKnows(pc[q], task[q])
        BY <3>1 DEF AloneInv
      <3>3. Busy(r, p) => o # p
        BY <2>3, <3>1 DEF AloneInv, OneHandler
      <3>4. status'[o] = status[o] /\ receipts'[o] = receipts[o]
        BY <1>2, <3>1, <3>3
      <3> QED
        BY <3>1, <3>2, <3>4 DEF AloneKnows
    <2> QED
      BY <2>1, <2>2, <2>3
  <1>6. OneReceiptWhenReceived'
    <2> SUFFICES ASSUME NEW o \in alone'
                 PROVE  \/ receipts'[o] = <<>>
                        \/ status'[o] = "RECEIVED" /\ Len(receipts'[o]) = 1
      BY DEF OneReceiptWhenReceived
    <2>1. CASE o = p
      BY <2>1 DEF HandlerAlone
    <2>2. CASE o # p
      BY <1>2, <2>2 DEF AloneInv, OneReceiptWhenReceived
    <2> QED
      BY <2>1, <2>2
  <1> QED
    BY <1>4, <1>5, <1>6 DEF AloneInv

LEMMA NextAloneInv ==
  ASSUME AloneInv, [Next]_vars
  PROVE  AloneInv'
  <1>0. IInv' /\ IInv /\ TypeOK
    BY NextIInv DEF AloneInv, IInv
  <1>1. CASE UNCHANGED vars
    BY <1>0, <1>1 DEF vars, AloneInv, AloneKnows, OneReceiptWhenReceived, OneHandler, Busy
  <1>2. ASSUME NEW r \in Requests, CreatePO(r)
        PROVE  AloneInv'
    <2>1. PICK p \in Orders : /\ status[p] = "ABSENT"
                             /\ status' = [status EXCEPT ![p] = "DRAFT"]
                             /\ UNCHANGED <<receipts, pc, task, alone>>
      BY <1>2 DEF CreatePO
    <2>2. receipts[p] = <<>> /\ alone \subseteq Orders
          /\ \A o \in Orders \ {p} : status'[o] = status[o]
      BY <1>0, <2>1 DEF IInv, TypeOK, NoStockYet
    <2>3. OneHandler' /\ OneReceiptWhenReceived'
      BY <2>1, <2>2 DEF AloneInv, OneHandler, OneReceiptWhenReceived, Busy
    <2>4. ASSUME NEW q \in Requests, task'[q].order \in alone'
          PROVE  AloneKnows(pc[q], task[q])'
      <3>1. AloneKnows(pc[q], task[q])
        BY <2>1, <2>4 DEF AloneInv
      <3>2. pc[q] # "idle" => task[q].order # p
        BY <1>0, <2>1 DEF IInv, HandlersKnowTheirOrder, Knows
      <3> QED
        BY <2>1, <2>2, <2>4, <3>1, <3>2 DEF AloneKnows
    <2> QED
      BY <1>0, <2>3, <2>4 DEF AloneInv
  <1>3. ASSUME NEW r \in Requests, NEW allowed, NEW next \in States,
               NEW d \in Deliveries \union {<<>>},
               Check(r, allowed, next, d), next # "receive_commit",
               next = "submit_write" => allowed = {"DRAFT"},
               next = "cancel_write" => allowed = {"DRAFT", "SUBMITTED"},
               next \in Receiving => allowed = {"SUBMITTED"}
        PROVE  AloneInv'
    <2>1. PICK p \in Orders : status[p] \in allowed /\ Continue(r, next, Task(p, d, NoLots))
      BY <1>3 DEF Check
    <2> DEFINE t == Task(p, d, NoLots)
    <2>2. t \in Tasks /\ t.order = p
      BY TaskType, NoTaskType DEF Task
    <2>3. UNCHANGED <<status, receipts>>
      BY <1>3 DEF Check, table
    <2> HIDE DEF t
    <2>4. pc'[r] = next /\ (next # "idle" => task'[r] = t) /\ alone' \subseteq alone
      BY <1>0, <2>1, <2>2, ContinueType, AloneShrinks DEF t
    <2>5. HandlerAlone(r, p)'
      BY <1>3, <2>1, <2>2, <2>3, <2>4
      DEF HandlerAlone, AloneKnows, AloneInv, OneReceiptWhenReceived, Receiving
    <2> QED
      BY <1>0, <2>1, <2>2, <2>3, <2>5, AloneStep DEF t
  <1>4. ASSUME NEW r \in Requests, SubmitCheck(r)
        PROVE  AloneInv'
    BY <1>3, <1>4 DEF SubmitCheck, States, Receiving
  <1>5. ASSUME NEW r \in Requests, CancelCheck(r)
        PROVE  AloneInv'
    BY <1>3, <1>5 DEF CancelCheck, States, Receiving
  <1>6. ASSUME NEW r \in Requests, ReceiveCheck(r)
        PROVE  AloneInv'
    BY <1>3, <1>6 DEF ReceiveCheck, States, Receiving
  <1>7. ASSUME NEW r \in Requests, pc[r] # "idle", Fail(r) \/ Proceed(r)
        PROVE  AloneInv'
    <2>1. PICK p \in Orders : p = task[r].order /\ Busy(r, p) /\ task[r] \in Tasks
      BY <1>0, <1>7 DEF IInv, HandlersKnowTheirOrder, Knows, Busy, TypeOK
    <2>2. HandlerAlone(r, p)
      BY <2>1 DEF AloneInv, HandlerAlone, OneReceiptWhenReceived
    <2>3. status[p] \in {"DRAFT", "SUBMITTED"} /\ p \in alone => receipts[p] = <<>>
      BY <2>2 DEF HandlerAlone
    <2>4. ASSUME NEW next \in States, NEW t \in Tasks, Continue(r, next, t)
          PROVE  pc'[r] = next /\ (next # "idle" => task'[r] = t) /\ alone' \subseteq alone
      BY <1>0, <2>4, ContinueType, AloneShrinks
    <2>5. ASSUME NEW s \in Statuses, SetStatus(p, s)
          PROVE  /\ status'[p] = s /\ receipts' = receipts
                 /\ \A o \in Orders \ {p} : status'[o] = status[o]
      BY <1>0, <2>1, <2>5 DEF SetStatus, TypeOK
    <2>6. CASE Fail(r)
      <3>1. UNCHANGED <<status, receipts>> /\ Continue(r, "idle", NoTask)
        BY <2>6 DEF Fail, Finish, table
      <3>2. HandlerAlone(r, p)'
        BY <2>1, <2>2, <2>4, <3>1, NoTaskType DEF HandlerAlone, AloneKnows, States
      <3> QED
        BY <1>0, <2>1, <3>1, <3>2, NoTaskType, AloneStep DEF States
    <2>7. CASE SubmitWrite(r) \/ CancelWrite(r)
      <3>1. PICK s \in {"SUBMITTED", "CANCELLED"} :
              SetStatus(p, s) /\ Continue(r, "idle", NoTask)
        BY <2>1, <2>7 DEF SubmitWrite, CancelWrite, Finish
      <3>2. p \in alone => receipts[p] = <<>>
        BY <2>1, <2>2, <2>3, <2>7 DEF HandlerAlone, AloneKnows, SubmitWrite, CancelWrite
      <3>3. receipts' = receipts /\ \A o \in Orders \ {p} : status'[o] = status[o]
        BY <2>5, <3>1 DEF Statuses
      <3>4. HandlerAlone(r, p)'
        BY <2>4, <3>1, <3>2, <3>3, NoTaskType DEF HandlerAlone, AloneKnows, States
      <3> QED
        BY <1>0, <2>1, <3>1, <3>3, <3>4, NoTaskType, AloneStep DEF States
    <2>8. CASE ReceiveBegin(r)
      <3>1. UNCHANGED <<status, receipts>> /\ Continue(r, "receive_lots", task[r])
            /\ pc[r] = "receive_begin"
        BY <2>8 DEF ReceiveBegin, table
      <3>2. HandlerAlone(r, p)'
        BY <2>1, <2>2, <2>4, <3>1 DEF HandlerAlone, AloneKnows, States
      <3> QED
        BY <1>0, <2>1, <3>1, <3>2, AloneStep DEF States
    <2>9. CASE ReceiveLots(r)
      <3>1. UNCHANGED <<status, receipts>> /\ pc[r] = "receive_lots"
        BY <2>9 DEF ReceiveLots, table
      <3>a. PICK next \in {"idle", "receive_status"} :
              \E t : Continue(r, next, t) /\ (next # "idle" => t.order = p)
        BY <2>1, <2>9 DEF ReceiveLots, Finish, Task
      <3>2. PICK t : Continue(r, next, t) /\ (next # "idle" => t.order = p)
        BY <3>a
      <3>3. pc'[r] = next /\ (next # "idle" => task'[r] = t) /\ alone' \subseteq alone
        BY <1>0, <3>2, AloneShrinks DEF Continue, TypeOK
      <3>4. HandlerAlone(r, p)'
        BY <2>1, <2>2, <3>1, <3>2, <3>3 DEF HandlerAlone, AloneKnows
      <3>5. next = "idle" => Continue(r, "idle", NoTask)
        BY <3>2 DEF Continue
      <3>6. next # "idle" => t \in Tasks
        BY <1>0, <3>3 DEF IInv, TypeOK
      <3>7. next \in States
        BY DEF States
      <3> QED
        BY <1>0, <2>1, <3>1, <3>2, <3>4, <3>5, <3>6, <3>7, NoTaskType, AloneStep
    <2>10. CASE ReceiveStatus(r)
      <3>1. SetStatus(p, "RECEIVED") /\ Continue(r, "receive_commit", task[r])
            /\ pc[r] = "receive_status"
        BY <2>1, <2>10 DEF ReceiveStatus
      <3>2. p \in alone => receipts[p] = <<>>
        BY <2>1, <2>2, <2>3, <3>1 DEF HandlerAlone, AloneKnows
      <3>3. /\ receipts' = receipts /\ status'[p] = "RECEIVED"
            /\ \A o \in Orders \ {p} : status'[o] = status[o]
        BY <2>5, <3>1 DEF Statuses
      <3>4. HandlerAlone(r, p)'
        BY <2>1, <2>4, <3>1, <3>2, <3>3 DEF HandlerAlone, AloneKnows, States
      <3> QED
        BY <1>0, <2>1, <3>1, <3>3, <3>4, AloneStep DEF States
    <2>11. CASE ReceiveCommit(r)
      <3>1. /\ receipts' = [receipts EXCEPT ![p] = Append(receipts[p], task[r].lots)]
            /\ UNCHANGED status /\ pc[r] = "receive_commit" /\ Continue(r, "idle", NoTask)
        BY <2>1, <2>11 DEF ReceiveCommit, Finish
      <3>2. p \in alone => status[p] = "RECEIVED" /\ receipts[p] = <<>>
        BY <2>1, <2>2, <3>1 DEF HandlerAlone, AloneKnows
      <3>3. \A o \in Orders \ {p} : receipts'[o] = receipts[o]
        BY <1>0, <3>1 DEF TypeOK
      <3>4. p \in alone => Len(receipts'[p]) = 1
        <4>1. Len(Append(<<>>, task[r].lots)) = 1
          OBVIOUS
        <4> QED
          BY <1>0, <2>1, <3>1, <3>2, <4>1 DEF TypeOK
      <3>5. HandlerAlone(r, p)'
        BY <2>4, <3>1, <3>2, <3>4, NoTaskType DEF HandlerAlone, AloneKnows, States
      <3> QED
        BY <1>0, <2>1, <3>1, <3>3, <3>5, NoTaskType, AloneStep DEF States
    <2> QED
      BY <1>7, <2>6, <2>7, <2>8, <2>9, <2>10, <2>11 DEF Proceed
  <1>8. ASSUME NEW r \in Requests, Fail(r) \/ Proceed(r)
        PROVE  pc[r] # "idle"
    BY <1>8 DEF Fail, Proceed, SubmitWrite, CancelWrite, ReceiveBegin, ReceiveLots,
                ReceiveStatus, ReceiveCommit
  <1> QED
    BY <1>1, <1>2, <1>4, <1>5, <1>6, <1>7, <1>8 DEF Next

THEOREM AloneInvariance == Spec => []AloneInv
  <1>1. AloneInv /\ [Next]_vars => AloneInv'
    BY NextAloneInv
  <1> QED
    BY InitAloneInv, <1>1, PTL DEF Spec

\* A step of one handler that leaves the receipts alone is a step of the order it
\* works on, or of none.
LEMMA StatusStep ==
  ASSUME TypeOK, NEW o \in Orders, NEW from \in SUBSET Statuses, NEW to,
         o \in alone => status[o] \in from, SetStatus(o, to),
         \A p \in Orders : Book(p)!Step(from, to) => Book(p)!Next,
         NEW p \in alone
  PROVE  Book(p)!Next \/ UNCHANGED <<status[p], receipts[p]>>
  <1>1. p \in Orders /\ UNCHANGED receipts
        /\ status' = [status EXCEPT ![o] = to] /\ status \in [Orders -> Statuses]
    BY DEF TypeOK, SetStatus
  <1>2. CASE p = o
    BY <1>1, <1>2 DEF Book!Step
  <1>3. CASE p # o
    BY <1>1, <1>3
  <1> QED
    BY <1>2, <1>3

\* Until its requests overlap, each step of an order is one of the order book's.
THEOREM Refinement == Spec => ImplementsOrderBook
  <1>1. Init => \A p \in Orders : Book(p)!Init
    BY DEF Init, Book!Init
  <1>2. AloneInv /\ AloneInv' /\ [Next]_vars =>
          [\A p \in alone' : [Book(p)!Next]_(Book(p)!orderVars)]_vars
    <2> SUFFICES ASSUME AloneInv, Next, NEW p \in alone'
                 PROVE  Book(p)!Next \/ UNCHANGED <<status[p], receipts[p]>>
      BY DEF vars, Book!orderVars
    <2>0. IInv /\ TypeOK /\ alone \subseteq Orders
      BY DEF AloneInv, IInv, TypeOK
    <2>1. PICK r \in Requests :
            CreatePO(r) \/ SubmitCheck(r) \/ CancelCheck(r) \/ ReceiveCheck(r)
            \/ Proceed(r) \/ Fail(r)
      BY DEF Next
    <2>2. p \in alone
      BY <2>1 DEF CreatePO, SubmitCheck, CancelCheck, ReceiveCheck, Check, Proceed, Fail,
                  SubmitWrite, CancelWrite, ReceiveBegin, ReceiveLots, ReceiveStatus,
                  ReceiveCommit, Finish, Continue
    <2>3. pc[r] # "idle" => task[r].order \in Orders
                           /\ (task[r].order \in alone => AloneKnows(pc[r], task[r]))
      BY <2>0 DEF AloneInv, IInv, HandlersKnowTheirOrder, Knows
    <2>4. CASE CreatePO(r)
      <3>1. PICK o \in Orders : status[o] = "ABSENT" /\ UNCHANGED receipts
                               /\ status' = [status EXCEPT ![o] = "DRAFT"]
        BY <2>4 DEF CreatePO
      <3> QED
        BY <2>0, <2>2, <3>1 DEF TypeOK, Book!Next, Book!Step
    <2>5. CASE SubmitCheck(r) \/ CancelCheck(r) \/ ReceiveCheck(r) \/ ReceiveBegin(r)
               \/ ReceiveLots(r) \/ Fail(r)
      BY <2>5 DEF SubmitCheck, CancelCheck, ReceiveCheck, Check, ReceiveBegin, ReceiveLots,
                  Fail, table
    <2>6. CASE SubmitWrite(r)
      <3>1. PICK o \in Orders : o = task[r].order /\ SetStatus(o, "SUBMITTED")
                               /\ (o \in alone => status[o] \in {"DRAFT"})
        BY <2>3, <2>6 DEF SubmitWrite, AloneKnows
      <3>2. \A q \in Orders : Book(q)!Step({"DRAFT"}, "SUBMITTED") => Book(q)!Next
        BY DEF Book!Next
      <3> QED
        BY <2>0, <2>2, <3>1, <3>2, StatusStep DEF Statuses
    <2>7. CASE CancelWrite(r)
      <3>1. PICK o \in Orders : o = task[r].order /\ SetStatus(o, "CANCELLED")
                               /\ (o \in alone => status[o] \in {"DRAFT", "SUBMITTED"})
        BY <2>3, <2>7 DEF CancelWrite, AloneKnows
      <3>2. \A q \in Orders :
              Book(q)!Step({"DRAFT", "SUBMITTED"}, "CANCELLED") => Book(q)!Next
        BY DEF Book!Next
      <3> QED
        BY <2>0, <2>2, <3>1, <3>2, StatusStep DEF Statuses
    <2>8. CASE ReceiveStatus(r)
      <3>1. PICK o \in Orders : o = task[r].order /\ SetStatus(o, "RECEIVED")
                               /\ (o \in alone => status[o] \in {"SUBMITTED"})
        BY <2>3, <2>8 DEF ReceiveStatus, AloneKnows
      <3>2. \A q \in Orders : Book(q)!Step({"SUBMITTED"}, "RECEIVED") => Book(q)!Next
        BY DEF Book!Next
      <3> QED
        BY <2>0, <2>2, <3>1, <3>2, StatusStep DEF Statuses
    <2>9. CASE ReceiveCommit(r)
      <3>1. PICK o \in Orders : o = task[r].order
              /\ receipts' = [receipts EXCEPT ![o] = Append(receipts[o], task[r].lots)]
              /\ UNCHANGED status
              /\ (o \in alone => status[o] = "RECEIVED" /\ receipts[o] = <<>>)
        BY <2>3, <2>9 DEF ReceiveCommit, AloneKnows
      <3>2. CASE p = o
        <4>1. Len(Append(<<>>, task[r].lots)) = 1
          OBVIOUS
        <4> QED
          BY <2>0, <2>2, <3>1, <3>2, <4>1 DEF TypeOK, Book!Next, Book!Book
      <3>3. CASE p # o
        BY <2>0, <2>2, <3>1, <3>3 DEF TypeOK
      <3> QED
        BY <3>2, <3>3
    <2> QED
      BY <2>1, <2>4, <2>5, <2>6, <2>7, <2>8, <2>9 DEF Proceed
  <1> QED
    BY <1>1, <1>2, AloneInvariance, PTL DEF Spec, ImplementsOrderBook
-----------------------------------------------------------------------------
(* What the lines of an order show *)

\* LinesShowReceipts, of one line and the quantity it shows.
Shows(posted, k, quantity) ==
  LET its == {n \in DOMAIN posted : For(posted[n], k) # {}} IN
  \/ its = {} /\ quantity = 0
  \/ \E n \in its : /\ \A m \in its : m =< n
                   /\ \E l \in For(posted[n], k) :
                        /\ \A m \in For(posted[n], k) : m =< l
                        /\ quantity = posted[n][l].qty

\* A receipt that is committed shows in the lines it has lots for, and the others
\* go on showing what they showed.
LEMMA CommitShows ==
  ASSUME NEW posted \in Seq(Posting), NEW lots \in Posting, NEW old \in Seq(Nat),
         NEW k \in DOMAIN old, Shows(posted, k, old[k])
  PROVE  Shows(Append(posted, lots), k, ReceivedAfter(old, lots)[k])
  <1> DEFINE after == Append(posted, lots)
             last == Len(posted) + 1
             its == {n \in DOMAIN posted : For(posted[n], k) # {}}
             itsAfter == {n \in DOMAIN after : For(after[n], k) # {}}
  <1>1. /\ Len(posted) \in Nat /\ DOMAIN posted = 1..Len(posted)
        /\ DOMAIN after = 1..last
        /\ after[last] = lots
        /\ \A n \in 1..Len(posted) : after[n] = posted[n]
    OBVIOUS
  <1>2. last \notin DOMAIN posted /\ \A n \in DOMAIN after : n =< last
    BY <1>1
  <1> HIDE DEF after
  <1>3. CASE For(lots, k) = {}
    <2>1. itsAfter = its
      BY <1>1, <1>3
    <2>2. ReceivedAfter(old, lots)[k] = old[k]
      BY <1>3 DEF ReceivedAfter
    <2>3. \A n \in its : after[n] = posted[n]
      BY <1>1
    <2>4. CASE its = {} /\ old[k] = 0
      BY <2>1, <2>2, <2>4 DEF Shows, after
    <2>5. CASE its # {} \/ old[k] # 0
      <3>1. PICK n \in its : /\ \A m \in its : m =< n
                             /\ \E l \in For(posted[n], k) :
                                  /\ \A m \in For(posted[n], k) : m =< l
                                  /\ old[k] = posted[n][l].qty
        BY <2>5 DEF Shows
      <3>2. after[n] = posted[n] /\ n \in itsAfter /\ \A m \in itsAfter : m =< n
        BY <2>1, <2>3, <3>1
      <3> QED
        BY <2>2, <3>1, <3>2 DEF Shows, after
    <2> QED
      BY <2>4, <2>5
  <1>4. CASE For(lots, k) # {}
    <2>1. For(lots, k) \subseteq 1..Len(lots) /\ Len(lots) \in Nat
      BY DEF For, Posting
    <2>2. \E l \in For(lots, k) : \A m \in For(lots, k) : m =< l
      BY <1>4, <2>1, GreatestNatural
    <2>3. PICK l \in For(lots, k) :
            /\ \A m \in For(lots, k) : m =< l
            /\ ReceivedAfter(old, lots)[k] = lots[l].qty
      BY <1>4, <2>2 DEF ReceivedAfter
    <2>4. last \in itsAfter /\ \A m \in itsAfter : m =< last
      BY <1>1, <1>2, <1>4
    <2> QED
      BY <1>1, <2>3, <2>4 DEF Shows, after
  <1> QED
    BY <1>3, <1>4

LEMMA ReceiveCommitShows ==
  ASSUME IInv, LinesShowReceipts, NEW r \in Requests, ReceiveCommit(r)
  PROVE  LinesShowReceipts'
  <1> DEFINE p == task[r].order
             lots == task[r].lots
  <1>1. /\ received' = [received EXCEPT ![p] = ReceivedAfter(@, lots)]
        /\ receipts' = [receipts EXCEPT ![p] = Append(@, lots)]
    BY DEF ReceiveCommit
  <1>2. p \in Orders /\ lots \in Posting
    BY DEF ReceiveCommit, IInv, HandlersKnowTheirOrder, Knows, TypeOK, Tasks
  <1>3. /\ received \in [Orders -> Seq(Nat)] /\ receipts \in [Orders -> Seq(Posting)]
    BY DEF IInv, TypeOK
  <1>4. ASSUME NEW q \in Orders, NEW k \in DOMAIN received'[q]
        PROVE  Shows(receipts'[q], k, received'[q][k])
    <2>1. CASE q # p
      BY <1>1, <1>3, <2>1 DEF LinesShowReceipts, Shows
    <2>2. CASE q = p
      <3>1. /\ received'[q] = ReceivedAfter(received[p], lots)
            /\ receipts'[q] = Append(receipts[p], lots)
        BY <1>1, <1>2, <1>3, <2>2
      <3>2. k \in DOMAIN received[p]
        BY <1>4, <3>1 DEF ReceivedAfter
      <3>3. Shows(receipts[p], k, received[p][k])
        BY <1>2, <3>2 DEF LinesShowReceipts, Shows
      <3>4. received[p] \in Seq(Nat) /\ receipts[p] \in Seq(Posting)
        BY <1>2, <1>3
      <3> QED
        BY <1>2, <3>1, <3>2, <3>3, <3>4, CommitShows
    <2> QED
      BY <2>1, <2>2
  <1> QED
    BY <1>4 DEF LinesShowReceipts, Shows

\* Under any interleaving and wherever receivePO dies, quantity_received of a line is
\* what the last committed receipt booked for it.
THEOREM LinesAgree == Spec => []LinesShowReceipts
  <1>1. Init => LinesShowReceipts
    BY DEF Init, LinesShowReceipts
  <1>2. IInv /\ LinesShowReceipts /\ [Next]_vars => LinesShowReceipts'
    <2> SUFFICES ASSUME IInv, LinesShowReceipts, [Next]_vars PROVE LinesShowReceipts'
      OBVIOUS
    <2>1. ASSUME NEW r \in Requests, CreatePO(r) PROVE LinesShowReceipts'
      <3>1. PICK p \in Orders, f \in Forms :
              /\ status[p] = "ABSENT"
              /\ received' = [received EXCEPT ![p] = [k \in DOMAIN f.lines |-> 0]]
        BY <2>1 DEF CreatePO
      <3>2. receipts' = receipts /\ receipts[p] = <<>>
        BY <2>1, <3>1 DEF CreatePO, IInv, NoStockYet
      <3>3. ASSUME NEW q \in Orders, NEW k \in DOMAIN received'[q]
            PROVE  Shows(receipts'[q], k, received'[q][k])
        <4>1. CASE q # p
          BY <3>1, <3>2, <3>3, <4>1 DEF LinesShowReceipts, Shows, IInv, TypeOK
        <4>2. CASE q = p
          BY <3>1, <3>2, <3>3, <4>2 DEF Shows, IInv, TypeOK
        <4> QED
          BY <4>1, <4>2
      <3> QED
        BY <3>3 DEF LinesShowReceipts, Shows
    <2>2. ASSUME NEW r \in Requests, ReceiveCommit(r) PROVE LinesShowReceipts'
      BY <2>2, ReceiveCommitShows
    <2>3. CASE UNCHANGED <<received, receipts>>
      BY <2>3 DEF LinesShowReceipts, For
    <2>4. ASSUME NEW r \in Requests,
                 \/ SubmitCheck(r) \/ CancelCheck(r) \/ ReceiveCheck(r) \/ Fail(r)
                 \/ SubmitWrite(r) \/ CancelWrite(r) \/ ReceiveBegin(r)
                 \/ ReceiveLots(r) \/ ReceiveStatus(r)
          PROVE  UNCHANGED <<received, receipts>>
      BY <2>4 DEF SubmitCheck, CancelCheck, ReceiveCheck, Check, Fail, SubmitWrite,
         CancelWrite, ReceiveBegin, ReceiveLots, ReceiveStatus, SetStatus, table
    <2>5. CASE UNCHANGED vars
      BY <2>3, <2>5 DEF vars
    <2> QED
      BY <2>1, <2>2, <2>3, <2>4, <2>5 DEF Next, Proceed
  <1> QED
    BY Invariance, InitIInv, NextIInv, <1>1, <1>2, PTL DEF Spec

-----------------------------------------------------------------------------
(* What requests wait for *)

\* With a connection free, the pool is not empty and one more transaction fits.
LEMMA FreeMeansRoom ==
  ASSUME PoolInv, ConnectionFree
  PROVE  /\ Cardinality(InTransaction) \in Nat /\ PoolSize \in Nat /\ PoolSize > 0
         /\ Cardinality(InTransaction) + 1 =< PoolSize
  <1>1. Cardinality(InTransaction) \in Nat /\ PoolSize \in Nat
    BY FS_CardinalityType, ProcurementAssumption DEF PoolInv
  <1>2. Cardinality(InTransaction) < PoolSize
    BY DEF ConnectionFree
  <1> QED
    BY <1>1, <1>2

Transaction == {"receive_lots", "receive_status", "receive_commit"}

\* A handler comes in, and begins its transaction, when a connection is free.
LEMMA PoolStep ==
  ASSUME TypeOK, PoolInv, NEW r \in Requests, NEW next \in States, NEW t \in Tasks,
         Continue(r, next, t),
         pc[r] = "idle" \/ next = "receive_lots" => ConnectionFree,
         next \in {"receive_status", "receive_commit"} => pc[r] \in Transaction,
         next \in {"receive_begin", "receive_lots"} => t.lots = NoLots
  PROVE  PoolInv'
  <1>1. /\ pc'[r] = next /\ (next # "idle" => task'[r] = t)
        /\ \A q \in Requests \ {r} : pc'[q] = pc[q] /\ task'[q] = task[q]
    BY ContinueType
  <1>2. IsFiniteSet(InTransaction) /\ Cardinality(InTransaction) =< PoolSize
    BY DEF PoolInv
  <1>3. Cardinality(InTransaction) \in Nat /\ PoolSize \in Nat
    BY <1>2, FS_CardinalityType, ProcurementAssumption
  <1>4. IsFiniteSet(InTransaction)' /\ Cardinality(InTransaction') =< PoolSize
    <2>1. CASE next = "receive_lots"
      <3>1. InTransaction' = InTransaction \cup {r}
        BY <1>1, <2>1 DEF InTransaction
      <3>2. /\ IsFiniteSet(InTransaction \cup {r})
            /\ Cardinality(InTransaction \cup {r}) =< Cardinality(InTransaction) + 1
            /\ Cardinality(InTransaction \cup {r}) \in Nat
        <4>1. /\ IsFiniteSet(InTransaction \cup {r})
              /\ Cardinality(InTransaction \cup {r}) =
                   IF r \in InTransaction THEN Cardinality(InTransaction)
                                          ELSE Cardinality(InTransaction) + 1
          BY <1>2, FS_AddElement
        <4> QED
          BY <1>3, <4>1
      <3> QED
        BY <1>3, <2>1, <3>1, <3>2, FreeMeansRoom
    <2>2. CASE next # "receive_lots"
      <3>1. InTransaction' \subseteq InTransaction
        BY <1>1, <2>2 DEF InTransaction, Transaction
      <3>2. /\ IsFiniteSet(InTransaction')
            /\ Cardinality(InTransaction') =< Cardinality(InTransaction)
            /\ Cardinality(InTransaction') \in Nat
        BY <1>2, <3>1, FS_Subset, FS_CardinalityType
      <3> QED
        BY <1>2, <1>3, <3>2
    <2> QED
      BY <2>1, <2>2
  <1>5. ASSUME NEW q \in Requests
        PROVE  /\ pc'[q] # "idle" => PoolSize > 0
               /\ pc'[q] \in {"receive_begin", "receive_lots"} => task'[q].lots = NoLots
    <2>1. CASE q = r
      <3>1. PoolSize > 0
        BY FreeMeansRoom DEF PoolInv
      <3> QED
        BY <1>1, <2>1, <3>1
    <2>2. CASE q # r
      BY <1>1, <2>2 DEF PoolInv
    <2> QED
      BY <2>1, <2>2
  <1> QED
    BY <1>4, <1>5 DEF PoolInv

LEMMA InitPool == Init => PoolInv
  <1> SUFFICES ASSUME Init PROVE PoolInv
    OBVIOUS
  <1>1. InTransaction = {} /\ \A r \in Requests : pc[r] = "idle"
    BY DEF Init, InTransaction
  <1>2. IsFiniteSet({}) /\ Cardinality({}) = 0
    BY FS_EmptySet
  <1> QED
    BY <1>1, <1>2, ProcurementAssumption DEF PoolInv

\* Each step of a handler accounts for the connections of transactions.
LEMMA NextPool == IInv /\ PoolInv /\ [Next]_vars => PoolInv'
  <1> SUFFICES ASSUME IInv, PoolInv, [Next]_vars PROVE PoolInv'
    OBVIOUS
  <1>0. TypeOK
    BY DEF IInv
  <1>1. CASE UNCHANGED <<pc, task>>
    BY <1>1 DEF PoolInv, InTransaction
  <1>2. ASSUME NEW r \in Requests, NEW next \in {"submit_write", "cancel_write", "receive_begin"},
               NEW allowed, NEW d \in Deliveries \union {<<>>}, Check(r, allowed, next, d)
        PROVE  PoolInv'
    <2>1. PICK p \in Orders : Continue(r, next, Task(p, d, NoLots))
      BY <1>2 DEF Check
    <2>2. Task(p, d, NoLots) \in Tasks /\ Task(p, d, NoLots).lots = NoLots
      BY NoTaskType, TaskType DEF Task
    <2>3. ConnectionFree /\ next \in States
      BY <1>2 DEF Check, States
    <2> QED
      BY <1>0, <2>1, <2>2, <2>3, PoolStep
  <1>3. ASSUME NEW r \in Requests, pc[r] # "idle", Finish(r)
        PROVE  PoolInv'
    BY <1>0, <1>3, NoTaskType, PoolStep DEF Finish, States
  <1>4. ASSUME NEW r \in Requests, ReceiveBegin(r)
        PROVE  PoolInv'
    <2>1. task[r].lots = NoLots /\ task[r] \in Tasks /\ "receive_lots" \in States
      BY <1>0, <1>4 DEF ReceiveBegin, PoolInv, TypeOK, States
    <2> QED
      BY <1>0, <1>4, <2>1, PoolStep DEF ReceiveBegin
  <1>5. ASSUME NEW r \in Requests, ReceiveLots(r)
        PROVE  PoolInv'
    <2> DEFINE p == task[r].order
               f == form[p]
    <2>1. PICK find \in Finds(f.lines) :
            IF Bookable(Lots(f, task[r].delivery, find))
            THEN Continue(r, "receive_status",
                          Task(p, task[r].delivery, Lots(f, task[r].delivery, find)))
            ELSE Finish(r)
      BY <1>5 DEF ReceiveLots
    <2>2. /\ pc[r] = "receive_lots" /\ f \in Forms /\ p \in Orders
          /\ task[r].delivery \in Deliveries \union {<<>>}
      BY <1>0, <1>5
         DEF ReceiveLots, IInv, HandlersKnowTheirOrder, Knows, Placed, TypeOK, Tasks
    <2>3. CASE Bookable(Lots(f, task[r].delivery, find))
      <3>1. Lots(f, task[r].delivery, find) \in Posting
        BY <2>2, <2>3, LotsType
      <3>2. Task(p, task[r].delivery, Lots(f, task[r].delivery, find)) \in Tasks
        BY <2>2, <3>1, TaskType
      <3> QED
        BY <1>0, <2>1, <2>2, <2>3, <3>2, PoolStep DEF States, Transaction
    <2>4. CASE ~Bookable(Lots(f, task[r].delivery, find))
      BY <1>3, <2>1, <2>2, <2>4
    <2> QED
      BY <2>3, <2>4
  <1>6. ASSUME NEW r \in Requests, ReceiveStatus(r)
        PROVE  PoolInv'
    <2>1. task[r] \in Tasks /\ "receive_commit" \in States /\ pc[r] \in Transaction
      BY <1>0, <1>6 DEF ReceiveStatus, TypeOK, States, Transaction
    <2> QED
      BY <1>0, <1>6, <2>1, PoolStep DEF ReceiveStatus, Transaction
  <1>7. ASSUME NEW r \in Requests, SubmitCheck(r) \/ CancelCheck(r) \/ ReceiveCheck(r)
        PROVE  PoolInv'
    BY <1>2, <1>7 DEF SubmitCheck, CancelCheck, ReceiveCheck
  <1>8. ASSUME NEW r \in Requests,
               SubmitWrite(r) \/ CancelWrite(r) \/ ReceiveCommit(r) \/ Fail(r)
        PROVE  PoolInv'
    BY <1>3, <1>8 DEF SubmitWrite, CancelWrite, ReceiveCommit, Fail
  <1> QED
    BY <1>1, <1>4, <1>5, <1>6, <1>7, <1>8 DEF Next, Proceed, CreatePO, vars

\* lineItems.find has something to return.
LEMMA FindsExist ==
  ASSUME NEW lines \in Seq(Line)
  PROVE  Finds(lines) # {}
  <1> DEFINE find == [i \in Items |-> IF \E k \in DOMAIN lines : lines[k].item = i
                                      THEN CHOOSE k \in DOMAIN lines : lines[k].item = i
                                      ELSE 0]
  <1>1. DOMAIN lines = 1..Len(lines) /\ Len(lines) \in Nat
    OBVIOUS
  <1>2. ASSUME NEW i \in Items
        PROVE  /\ find[i] \in 0..Len(lines)
               /\ IF find[i] = 0 THEN \A k \in DOMAIN lines : lines[k].item # i
                                 ELSE lines[find[i]].item = i
    <2>1. CASE \E k \in DOMAIN lines : lines[k].item = i
      <3>1. find[i] \in DOMAIN lines /\ lines[find[i]].item = i
        BY <2>1
      <3>2. find[i] \in 1..Len(lines) /\ find[i] # 0
        BY <1>1, <3>1
      <3> QED
        BY <1>1, <3>1, <3>2
    <2>2. CASE ~\E k \in DOMAIN lines : lines[k].item = i
      BY <1>1, <2>2
    <2> QED
      BY <2>1, <2>2
  <1>3. find = [i \in Items |-> find[i]]
    OBVIOUS
  <1> HIDE DEF find
  <1>4. find \in [Items -> 0..Len(lines)]
    BY <1>2, <1>3
  <1>5. find \in Finds(lines)
    BY <1>2, <1>4 DEF Finds
  <1> QED
    BY <1>5

\* A transaction that comes to its loop has to wait only for one that is through its own.
LEMMA LoopsGoOn ==
  ASSUME IInv, PoolInv, NEW r \in Requests, pc[r] = "receive_lots",
         \A q \in InTransaction : pc[q] = "receive_lots"
  PROVE  GoesOn(r)
  <1> DEFINE f == form[task[r].order]
  <1>1. f \in Forms
    BY DEF IInv, HandlersKnowTheirOrder, Knows, Placed
  <1>2. f.lines \in Seq(Line)
    BY <1>1, ProcurementAssumption
  <1>3. PICK find \in Finds(f.lines) : TRUE
    BY <1>2, FindsExist
  <1>4. ASSUME NEW q \in InTransaction, NEW k
        PROVE  For(task[q].lots, k) = {}
    <2>1. q \in Requests /\ task[q].lots = <<>>
      BY <1>4 DEF InTransaction, PoolInv, NoLots
    <2>2. \A n : n \notin DOMAIN <<>>
      OBVIOUS
    <2> QED
      BY <2>1, <2>2 DEF For
  <1>5. LinesUnlocked(r, Lots(f, task[r].delivery, find))
    BY <1>4 DEF LinesUnlocked
  <1> QED
    BY <1>3, <1>5 DEF GoesOn

\* Whom nobody else keeps waiting goes on; with no connection left, somebody has one and
\* waits for another, or is in its loop, and those who block a loop wait for the pool.
LEMMA SomeoneGoesOnOrPoolIsSpent ==
  ASSUME IInv, PoolInv
  PROVE  OnlyThePoolDeadlocks
  <1> SUFFICES ASSUME NEW r \in Requests, pc[r] # "idle",
                      \A q \in Requests : ~GoesOn(q)
               PROVE  /\ Cardinality(InTransaction) = PoolSize
                      /\ \E q \in InTransaction : pc[q] = "receive_status"
    BY DEF OnlyThePoolDeadlocks
  <1>1. \A q \in InTransaction :
          q \in Requests /\ pc[q] \in {"receive_lots", "receive_status"}
    BY DEF InTransaction, GoesOn
  <1>2. IsFiniteSet(InTransaction) /\ Cardinality(InTransaction) =< PoolSize
    BY DEF PoolInv
  <1>3. Cardinality(InTransaction) \in Nat /\ PoolSize \in Nat /\ PoolSize > 0
    BY <1>2, FS_CardinalityType, ProcurementAssumption DEF PoolInv
  <1>4. ASSUME \A q \in InTransaction : pc[q] = "receive_lots"
        PROVE  InTransaction = {}
    BY <1>1, <1>4, LoopsGoOn
  <1>5. CASE ConnectionFree
    <2>1. \A q \in Requests : pc[q] \in {"idle", "receive_lots"}
      <3> TAKE q \in Requests
      <3>1. pc[q] \in States
        BY DEF IInv, TypeOK
      <3>2. pc[q] \notin {"submit_write", "cancel_write", "receive_begin",
                         "receive_status", "receive_commit"}
        BY <1>5 DEF GoesOn
      <3> QED
        BY <3>1, <3>2 DEF States
    <2>2. r \in InTransaction /\ \A q \in InTransaction : pc[q] = "receive_lots"
      BY <1>1, <2>1 DEF InTransaction
    <2> QED
      BY <1>4, <2>2
  <1>6. CASE ~ConnectionFree
    <2>1. Cardinality(InTransaction) = PoolSize
      BY <1>2, <1>3, <1>6 DEF ConnectionFree
    <2>2. InTransaction # {}
      BY <1>3, <2>1, FS_EmptySet
    <2>3. \E q \in InTransaction : pc[q] # "receive_lots"
      BY <1>4, <2>2
    <2> QED
      BY <1>1, <2>1, <2>3
  <1> QED
    BY <1>5, <1>6

\* For any number of requests, orders and lines: requests in flight come to a standstill
\* only when receivePO's transactions use up the pool and one waits for a second
\* connection of it.
THEOREM StandstillIsThePool == Spec => []OnlyThePoolDeadlocks
  BY Invariance, InitPool, NextPool, SomeoneGoesOnOrPoolIsSpent, PTL DEF Spec
=============================================================================
