----------------------------- MODULE Procurement -----------------------------
(***************************************************************************)
(* Purchase orders of the IMS API: ProcurementService over the tables      *)
(* purchase_orders, po_line_items, inventory_batches and inventory_ledger, *)
(* and the pool of database connections its queries go through.            *)
(*                                                                         *)
(* Each action is one query or one step of a transaction, with the code up *)
(* to the next await.  The transaction of receivePO is not one action: in  *)
(* its middle it runs updatePOStatus, which is given no transaction and so *)
(* takes a connection of its own and commits at once.  What the            *)
(* transaction itself writes is kept in `lots` of its handler and reaches  *)
(* the tables when it commits.                                             *)
(***************************************************************************)
EXTENDS Integers, Sequences, FiniteSets

CONSTANTS
  Requests,   \* the HTTP requests that can be in flight at once
  PoolSize,   \* connections of the pg pool (10 unless configured)
  Orders,     \* the purchase order ids randomUUID() can draw
  Items,      \* catalogue items
  Forms,      \* the orders a client can place: freight charge and lines
  Deliveries, \* the lines a client can report as received
  NoForm,     \* no such purchase order
  NoLot       \* a reported line that the order has no line for

Line == [item : Items, ordered : Nat \ {0}, price : Nat]
Delivered == [item : Items, qty : Nat]
Lot == [line : Nat \ {0}, qty : Nat \ {0}, cost : Nat]

ASSUME ProcurementAssumption ==
  /\ PoolSize \in Nat
  /\ Forms \subseteq [freight : Nat, lines : Seq(Line) \ {<<>>}]
  /\ Deliveries \subseteq Seq(Delivered) \ {<<>>}
  /\ NoForm \notin Forms
  /\ NoLot \notin Lot

VARIABLES
  status,   \* purchase_orders.status, "ABSENT" before the INSERT
  form,     \* the columns createPO writes once: freight_charge, and the lines
  received, \* received[p][k]: po_line_items.quantity_received of line k
  receipts, \* the committed receipts of each order, in order: the lots (rows of
            \* inventory_batches, each with its PO_RECEIPT entry in the ledger), by
            \* the reported line each comes from
  pc,       \* what each request does next; "idle" when it is not in flight
  task,     \* the local variables of each request's handler
  alone     \* history: the orders no two requests have yet been at work on at once

table == <<status, form, received, receipts>>
vars == <<status, form, received, receipts, pc, task, alone>>

NoLots == <<>>
Task(p, delivery, lots) == [order |-> p, delivery |-> delivery, lots |-> lots]
NoTask == Task(NoForm, <<>>, NoLots)

-----------------------------------------------------------------------------
(* The lots of a delivery *)

Invalid == -1  \* text that Postgres does not read as a number

\* The first decimal digit of a positive number.
Leading(n) == n \div 10^(CHOOSE k \in 0..9 : n \div 10^k \in 1..9)

\* rawUnitPrice + proratedFreight / quantityOrdered, in cents.  The driver hands
\* out NUMERIC columns as text with two decimals, so that + is concatenation:
\* "2.50" + 0 is 2.500; a whole 7 gives "2.507", which the column rounds to
\* 2.51; a fraction gives a text with two points.
LandedUnitCost(price, freight, lineCount, ordered) ==
  LET unit == 100 * lineCount * ordered IN
  CASE freight = 0 -> price
    [] freight # 0 /\ freight % unit # 0 -> Invalid
    [] freight # 0 /\ freight % unit = 0 ->
         price + (IF Leading(freight \div unit) >= 5 THEN 1 ELSE 0)

\* lineItems.find, by item: the rows come in no particular order, so that it
\* returns any line for the item; 0 when there is none.
Finds(lines) ==
  {find \in [Items -> 0..Len(lines)] :
     \A i \in Items : IF find[i] = 0 THEN \A k \in DOMAIN lines : lines[k].item # i
                                    ELSE lines[find[i]].item = i}

\* The loop of receivePO: for each reported line, the lot of the order line it
\* is matched with; a line for another item is skipped.
Lots(f, delivery, find) ==
  [n \in DOMAIN delivery |->
     LET k == find[delivery[n].item] IN
     IF k = 0 THEN NoLot
     ELSE [line |-> k,
           qty  |-> delivery[n].qty,
           cost |-> LandedUnitCost(f.lines[k].price, f.freight, Len(f.lines),
                                   f.lines[k].ordered)]]

\* The reported lines that line k of the order is matched with.
For(lots, k) == {n \in DOMAIN lots : lots[n] # NoLot /\ lots[n].line = k}

\* Every statement of the loop succeeds: LedgerService.record refuses the amount
\* 0, and landed_unit_cost must be a number.
Bookable(lots) ==
  \A n \in DOMAIN lots : lots[n] # NoLot => lots[n].qty # 0 /\ lots[n].cost # Invalid

\* updateLineItemReceived, for each lot in turn: the last one for a line wins.
ReceivedAfter(old, lots) ==
  [k \in DOMAIN old |->
     IF For(lots, k) = {} THEN old[k]
     ELSE lots[CHOOSE n \in For(lots, k) : \A m \in For(lots, k) : m =< n].qty]

-----------------------------------------------------------------------------
Init ==
  /\ status = [p \in Orders |-> "ABSENT"]
  /\ form = [p \in Orders |-> NoForm]
  /\ received = [p \in Orders |-> <<>>]
  /\ receipts = [p \in Orders |-> <<>>]
  /\ pc = [r \in Requests |-> "idle"]
  /\ task = [r \in Requests |-> NoTask]
  /\ alone = Orders

Busy(r, p) == pc[r] # "idle" /\ task[r].order = p

Continue(r, next, t) ==
  /\ pc' = [pc EXCEPT ![r] = next]
  /\ task' = [task EXCEPT ![r] = IF next = "idle" THEN NoTask ELSE t]
  /\ alone' = IF next # "idle" /\ \E q \in Requests \ {r} : Busy(q, t.order)
                THEN alone \ {t.order} ELSE alone

Finish(r) == Continue(r, "idle", NoTask)

SetStatus(p, s) ==
  /\ status' = [status EXCEPT ![p] = s]
  /\ UNCHANGED <<form, received, receipts>>

\* A transaction keeps its connection from BEGIN to COMMIT or ROLLBACK; any
\* other query takes one and gives it back when it is done.
InTransaction ==
  {r \in Requests : pc[r] \in {"receive_lots", "receive_status", "receive_commit"}}

\* Faulty variant of ConnectionFree: used by no action.
TwoNeeded == Cardinality(InTransaction) < PoolSize - 1

\* Another connection can be taken.
ConnectionFree == Cardinality(InTransaction) < PoolSize

\* Two transactions never both hold the row lock of one line.
LinesUnlocked(r, lots) ==
  \A q \in InTransaction \ {r} :
    task[q].order = task[r].order =>
      \A k \in DOMAIN form[task[r].order].lines :
        For(task[q].lots, k) = {} \/ For(lots, k) = {}

-----------------------------------------------------------------------------
(* createDraftPO, submitPO and cancelPO *)

\* One transaction: the order and its lines.
CreatePO(r) ==
  /\ pc[r] = "idle"
  /\ ConnectionFree
  /\ \E p \in Orders, f \in Forms :
       /\ status[p] = "ABSENT"
       /\ status' = [status EXCEPT ![p] = "DRAFT"]
       /\ form' = [form EXCEPT ![p] = f]
       /\ received' = [received EXCEPT ![p] = [k \in DOMAIN f.lines |-> 0]]
  /\ UNCHANGED <<receipts, pc, task, alone>>

\* findOrThrow, and the check of the status just read.
Check(r, allowed, next, delivery) ==
  /\ pc[r] = "idle"
  /\ ConnectionFree
  /\ \E p \in Orders :
       /\ status[p] \in allowed
       /\ Continue(r, next, Task(p, delivery, NoLots))
  /\ UNCHANGED table

SubmitCheck(r) == Check(r, {"DRAFT"}, "submit_write", <<>>)

\* updatePOStatus sets the status whatever it has become since.
SubmitWrite(r) ==
  /\ pc[r] = "submit_write"
  /\ ConnectionFree
  /\ SetStatus(task[r].order, "SUBMITTED")
  /\ Finish(r)

\* Faulty variant of CancelCheck: used by no action.
CancelAny(r) == Check(r, {"DRAFT", "SUBMITTED", "RECEIVED"}, "cancel_write", <<>>)

CancelCheck(r) == Check(r, {"DRAFT", "SUBMITTED"}, "cancel_write", <<>>)

CancelWrite(r) ==
  /\ pc[r] = "cancel_write"
  /\ ConnectionFree
  /\ SetStatus(task[r].order, "CANCELLED")
  /\ Finish(r)

-----------------------------------------------------------------------------
(* receivePO *)

\* Faulty variant of ReceiveCheck: used by no action.
ReceiveNotCancelled(r) ==
  \E d \in Deliveries : Check(r, {"DRAFT", "SUBMITTED"}, "receive_begin", d)

\* The line items read next never change in what the loop uses of them.
ReceiveCheck(r) ==
  \E d \in Deliveries : Check(r, {"SUBMITTED"}, "receive_begin", d)

\* BEGIN, on a connection the transaction keeps.
ReceiveBegin(r) ==
  /\ pc[r] = "receive_begin"
  /\ ConnectionFree
  /\ Continue(r, "receive_lots", task[r])
  /\ UNCHANGED table

\* Faulty variant of ReceiveLots: used by no action.
AutocommittedLots(r) ==
  LET p == task[r].order IN
  /\ pc[r] = "receive_lots"
  /\ \E find \in Finds(form[p].lines) :
       LET lots == Lots(form[p], task[r].delivery, find) IN
       /\ LinesUnlocked(r, lots)
       /\ IF Bookable(lots)
            THEN /\ Continue(r, "receive_status", Task(p, task[r].delivery, lots))
                 /\ received' = [received EXCEPT ![p] = ReceivedAfter(@, lots)]
            ELSE Finish(r) /\ UNCHANGED received
  /\ UNCHANGED <<status, form, receipts>>

\* The loop: once no other transaction has the rows locked, the lots are
\* written, or a statement fails and the transaction rolls back.
ReceiveLots(r) ==
  LET p == task[r].order IN
  /\ pc[r] = "receive_lots"
  /\ \E find \in Finds(form[p].lines) :
       LET lots == Lots(form[p], task[r].delivery, find) IN
       /\ LinesUnlocked(r, lots)
       /\ IF Bookable(lots)
            THEN Continue(r, "receive_status", Task(p, task[r].delivery, lots))
            ELSE Finish(r)
  /\ UNCHANGED table

\* updatePOStatus, on a second connection, committed at once.
ReceiveStatus(r) ==
  /\ pc[r] = "receive_status"
  /\ ConnectionFree
  /\ SetStatus(task[r].order, "RECEIVED")
  /\ Continue(r, "receive_commit", task[r])

ReceiveCommit(r) ==
  LET p == task[r].order IN
  /\ pc[r] = "receive_commit"
  /\ received' = [received EXCEPT ![p] = ReceivedAfter(@, task[r].lots)]
  /\ receipts' = [receipts EXCEPT ![p] = Append(@, task[r].lots)]
  /\ Finish(r)
  /\ UNCHANGED <<status, form>>

-----------------------------------------------------------------------------
\* A query fails, Postgres breaks a deadlock of row locks, or the API process
\* dies: the handler goes no further and its transaction rolls back.
Fail(r) ==
  /\ pc[r] # "idle"
  /\ Finish(r)
  /\ UNCHANGED table

\* A request in flight goes on.
Proceed(r) == SubmitWrite(r) \/ CancelWrite(r) \/ ReceiveBegin(r)
              \/ ReceiveLots(r) \/ ReceiveStatus(r) \/ ReceiveCommit(r)

Next ==
  \E r \in Requests :
    \/ CreatePO(r)
    \/ SubmitCheck(r)
    \/ CancelCheck(r)
    \/ ReceiveCheck(r)
    \/ Proceed(r)
    \/ Fail(r)

Spec == Init /\ [][Next]_vars

\* The API process keeps running its handlers, and every query is answered:
\* no request in flight is starved of its next step for ever.
FairSpec == Spec /\ \A r \in Requests : SF_vars(Proceed(r))

-----------------------------------------------------------------------------
(* Properties *)

Statuses == {"ABSENT", "DRAFT", "SUBMITTED", "RECEIVED", "CANCELLED"}

States == {"idle", "submit_write", "cancel_write", "receive_begin",
           "receive_lots", "receive_status", "receive_commit"}

Posting == Seq(Lot \union {NoLot})

Tasks == [order : Orders \union {NoForm},
          delivery : Deliveries \union {<<>>},
          lots : Posting]

\* The tables and the handlers' local variables have their shapes; a lot names
\* a line of the order, has a positive quantity and a cost that is a number.
TypeOK ==
  /\ status \in [Orders -> Statuses]
  /\ form \in [Orders -> Forms \union {NoForm}]
  /\ received \in [Orders -> Seq(Nat)]
  /\ receipts \in [Orders -> Seq(Posting)]
  /\ pc \in [Requests -> States]
  /\ task \in [Requests -> Tasks]
  /\ alone \subseteq Orders

\* However requests race, a draft is not received and no stock is booked for it:
\* receivePO has read SUBMITTED, and nothing leads back to DRAFT.
DraftsGetNoStock ==
  [][\A p \in Orders : status[p] \in {"ABSENT", "DRAFT"} =>
       status'[p] # "RECEIVED" /\ receipts'[p] = <<>>]_vars

\* Wherever receivePO dies, quantity_received of a line is the quantity that the
\* last committed receipt booked for it, and 0 when none did.
LinesShowReceipts ==
  \A p \in Orders : \A k \in DOMAIN received[p] :
    LET its == {n \in DOMAIN receipts[p] : For(receipts[p][n], k) # {}} IN
    \/ its = {} /\ received[p][k] = 0
    \/ \E n \in its : /\ \A m \in its : m =< n
                     /\ \E l \in For(receipts[p][n], k) :
                          /\ \A m \in For(receipts[p][n], k) : m =< l
                          /\ received[p][k] = receipts[p][n][l].qty

\* The inductive invariant behind the safety properties: what a handler knows of
\* the order it works on, under any interleaving.
Receiving == {"receive_begin", "receive_lots", "receive_status", "receive_commit"}

Knows(p, t) ==
  /\ p # "idle" => t.order \in Orders /\ status[t.order] # "ABSENT"
  /\ p \in Receiving => status[t.order] # "DRAFT"

NoStockYet ==
  \A p \in Orders : status[p] \in {"ABSENT", "DRAFT"} => receipts[p] = <<>>

HandlersKnowTheirOrder == \A r \in Requests : Knows(pc[r], task[r])

Placed == \A p \in Orders : status[p] # "ABSENT" => form[p] \in Forms

IInv == TypeOK /\ NoStockYet /\ HandlersKnowTheirOrder /\ Placed

\* Until its requests overlap, an order is one of the order book, whatever happens
\* to others: no status is left the wrong way, and one receipt at most is booked,
\* when it is RECEIVED.
Book(p) == INSTANCE PurchaseOrderBook WITH status <- status[p], booked <- receipts[p]

ImplementsOrderBook ==
  /\ \A p \in Orders : Book(p)!Init
  /\ [][\A p \in alone' : [Book(p)!Next]_(Book(p)!orderVars)]_vars

\* What the only handler at work on an order knows of it between its queries.
AloneKnows(p, t) ==
  /\ p = "submit_write" => status[t.order] = "DRAFT"
  /\ p = "cancel_write" => status[t.order] \in {"DRAFT", "SUBMITTED"}
  /\ p \in {"receive_begin", "receive_lots", "receive_status"} =>
       status[t.order] = "SUBMITTED"
  /\ p = "receive_commit" =>
       status[t.order] = "RECEIVED" /\ receipts[t.order] = <<>>

OneHandler ==
  \A p \in alone, q, r \in Requests : Busy(q, p) /\ Busy(r, p) => q = r

OneReceiptWhenReceived ==
  \A p \in alone :
    \/ receipts[p] = <<>>
    \/ status[p] = "RECEIVED" /\ Len(receipts[p]) = 1

AloneInv ==
  /\ IInv
  /\ OneHandler
  /\ \A r \in Requests : task[r].order \in alone => AloneKnows(pc[r], task[r])
  /\ OneReceiptWhenReceived

\* 'ACID: writes batch + ledger entry + status update atomically': an order that
\* no request is at work on is RECEIVED only together with its stock.
ReceivedMeansBooked ==
  \A p \in Orders :
    status[p] = "RECEIVED" /\ (\A r \in Requests : ~Busy(r, p)) => receipts[p] # <<>>

\* The next step of a request in flight waits for no connection and no row lock.
GoesOn(r) ==
  \/ pc[r] = "receive_commit"
  \/ pc[r] \in {"submit_write", "cancel_write", "receive_begin", "receive_status"}
       /\ ConnectionFree
  \/ pc[r] = "receive_lots"
       /\ LET f == form[task[r].order] IN
          \E find \in Finds(f.lines) : LinesUnlocked(r, Lots(f, task[r].delivery, find))

\* Nothing will be given back: the transactions of receivePO have every connection, and
\* each waits for its second one, for updatePOStatus, or for a row lock of one that does.
Dry ==
  /\ Cardinality(InTransaction) = PoolSize
  /\ \A r \in InTransaction : ~GoesOn(r)

\* Every request ends unless the pool runs dry: short of that nobody waits for ever for a
\* row lock or a connection, the second one of receivePO included.
EveryRequestEnds == \A r \in Requests : pc[r] # "idle" ~> pc[r] = "idle" \/ Dry

-----------------------------------------------------------------------------
(* What requests wait for, proved in ProcurementProofs.                       *)

\* The safety behind EveryRequestEnds: row locks and connections together never make all
\* requests in flight wait for each other, unless the transactions of receivePO have every
\* connection and one of them waits for its second, for updatePOStatus.
OnlyThePoolDeadlocks ==
  (\E r \in Requests : pc[r] # "idle") =>
    \/ \E r \in Requests : GoesOn(r)
    \/ /\ Cardinality(InTransaction) = PoolSize
       /\ \E r \in InTransaction : pc[r] = "receive_status"

\* A transaction has a connection of the pool, and holds no row lock before its loop.
PoolInv ==
  /\ IsFiniteSet(InTransaction) /\ Cardinality(InTransaction) =< PoolSize
  /\ \A r \in Requests :
       /\ pc[r] # "idle" => PoolSize > 0
       /\ pc[r] \in {"receive_begin", "receive_lots"} => task[r].lots = NoLots
=============================================================================
