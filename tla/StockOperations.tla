--------------------------- MODULE StockOperations ---------------------------
(***************************************************************************)
(* Transfers, waste, preparation and opening balances:                     *)
(* InventoryOperationsService of the IMS API and the LedgerService it      *)
(* books with, over inventory_transfers, waste_logs, prep_production_logs  *)
(* and inventory_ledger.                                                   *)
(*                                                                         *)
(* The tables' quantities are NUMERIC(12,2): a quantity is an amount of    *)
(* thousandths as a client sends it and of hundredths once it is stored.   *)
(* createWasteLog, createPrepLog and recordOpeningBalance are one          *)
(* transaction and so one action; completeTransfer reads before its own.   *)
(***************************************************************************)
EXTENDS Integers, Sequences, FiniteSets

CONSTANTS
  Calls,         \* the calls of completeTransfer that can be in flight at once
  Restaurants,
  StockItems,    \* the items they move
  TransferIds,   \* the ids randomUUID() can draw for a transfer
  LogIds,        \* the ids it can draw for a waste log, a preparation or an opening balance
  Quantities,    \* the quantities a client can send, in thousandths
  Statuses,      \* the values of inventory_transfers.status
  GroupNullable, \* whether inventory_transfers takes the row createTransfer inserts,
                 \* with no franchise group; under 00001 it does not
  ReasonCodes,   \* the reason codes the ledger's CHECK accepts; under 00001 those of
                 \* LEDGER_REASON_CODES without OPENING_BALANCE
  Absent         \* no row

ASSUME StockAssumption ==
  /\ Quantities \subseteq Nat \ {0}
  /\ TransferIds \cap LogIds = {}
  /\ GroupNullable \in BOOLEAN
  /\ {"PENDING", "COMPLETED"} \subseteq Statuses
  /\ Absent \notin [from : Restaurants, to : Restaurants, item : StockItems, qty : Nat,
                    status : Statuses]
  /\ Absent \notin [restaurant : Restaurants, item : StockItems, qty : Nat,
                    reason : ReasonCodes]
  /\ Absent \notin [id : TransferIds, row : [from : Restaurants, to : Restaurants,
                      item : StockItems, qty : Nat, status : Statuses]]

VARIABLES
  transfers, \* rows of inventory_transfers by id, or Absent
  logs,      \* rows of waste_logs and prep_production_logs, and the opening balances
             \* clients were told of, by id, or Absent
  ledger,    \* the entries of inventory_ledger with each reference, in their order
  step,      \* what each completeTransfer does next; "idle" when it is not in flight
  call,      \* the row each completeTransfer has read, and its id
  raced      \* history: the transfers two calls have been completing at once

tables == <<transfers, logs, ledger>>
stockVars == <<transfers, logs, ledger, step, call, raced>>

Refs == TransferIds \cup LogIds
Transfer == [from : Restaurants, to : Restaurants, item : StockItems, qty : Nat, status : Statuses]
Log == [restaurant : Restaurants, item : StockItems, qty : Nat, reason : ReasonCodes]
Entry == [restaurant : Restaurants, item : StockItems, amount : Int, reason : ReasonCodes]

\* A NUMERIC(12,2) column keeps a number of thousandths: halves go away from zero.
Stored(q) == IF q >= 0 THEN (q + 5) \div 10 ELSE -((5 - q) \div 10)

-----------------------------------------------------------------------------
StockInit ==
  /\ transfers = [t \in TransferIds |-> Absent]
  /\ logs = [l \in LogIds |-> Absent]
  /\ ledger = [ref \in Refs |-> <<>>]
  /\ step = [r \in Calls |-> "idle"]
  /\ call = [r \in Calls |-> Absent]
  /\ raced = {}

\* LedgerService.record: a number that is 0 and an unknown reason are refused, the
\* latter by the table at the latest.
Recorded(ref, restaurant, item, thousandths, reason) ==
  /\ thousandths # 0
  /\ reason \in ReasonCodes
  /\ ledger' = [ledger EXCEPT ![ref] = Append(@,
       [restaurant |-> restaurant, item |-> item, amount |-> Stored(thousandths),
        reason |-> reason])]

CreateTransfer(from, to, item, q) ==
  /\ GroupNullable
  /\ from # to
  /\ \E t \in TransferIds :
       /\ transfers[t] = Absent
       /\ transfers' = [transfers EXCEPT ![t] =
            [from |-> from, to |-> to, item |-> item, qty |-> Stored(q), status |-> "PENDING"]]
  /\ UNCHANGED <<logs, ledger, step, call, raced>>

\* Faulty variant of ReadTransfer: used by no action.
ReadAnyTransfer(r, t) ==
  /\ step[r] = "idle"
  /\ transfers[t] # Absent
  /\ step' = [step EXCEPT ![r] = "complete"]
  /\ call' = [call EXCEPT ![r] = [id |-> t, row |-> transfers[t]]]
  /\ raced' = raced \cup {u \in {t} : \E q \in Calls : step[q] # "idle" /\ call[q].id = t}
  /\ UNCHANGED tables

\* completeTransfer reads the row and goes on when it is PENDING.
ReadTransfer(r, t) ==
  /\ step[r] = "idle"
  /\ transfers[t] # Absent
  /\ transfers[t].status = "PENDING"
  /\ step' = [step EXCEPT ![r] = "complete"]
  /\ call' = [call EXCEPT ![r] = [id |-> t, row |-> transfers[t]]]
  /\ raced' = raced \cup {u \in {t} : \E q \in Calls : step[q] # "idle" /\ call[q].id = t}
  /\ UNCHANGED tables

Done(r) ==
  /\ step' = [step EXCEPT ![r] = "idle"]
  /\ call' = [call EXCEPT ![r] = Absent]
  /\ UNCHANGED <<logs, raced>>

\* The two entries for the row that was read; its quantity has been stored before.
Pair(row) ==
  <<[restaurant |-> row.from, item |-> row.item, amount |-> -row.qty, reason |-> "TRANSFER_OUT"],
    [restaurant |-> row.to, item |-> row.item, amount |-> row.qty, reason |-> "TRANSFER_IN"]>>

\* The transaction sets the status by id, whatever it is by now, and books; record
\* throws, and nothing of it stays, when the quantity is 0.
CompleteTransfer(r) ==
  /\ step[r] = "complete"
  /\ LET t == call[r].id
         row == call[r].row IN
     /\ row.qty # 0
     /\ {"TRANSFER_OUT", "TRANSFER_IN"} \subseteq ReasonCodes
     /\ transfers' = [transfers EXCEPT ![t].status = "COMPLETED"]
     /\ ledger' = [ledger EXCEPT ![t] = @ \o Pair(row)]
  /\ Done(r)

\* The transaction throws or the connection breaks.
CompletionFails(r) ==
  /\ step[r] = "complete"
  /\ Done(r)
  /\ UNCHANGED <<transfers, ledger>>

\* createWasteLog, createPrepLog, recordOpeningBalance: the log's row, if it has one,
\* and its ledger entry.
WriteLog(restaurant, item, q, reason, sign) ==
  /\ \E l \in LogIds :
       /\ logs[l] = Absent
       /\ logs' = [logs EXCEPT ![l] = [restaurant |-> restaurant, item |-> item,
                                       qty |-> Stored(q), reason |-> reason]]
       /\ Recorded(l, restaurant, item, sign * q, reason)
  /\ UNCHANGED <<transfers, step, call, raced>>

CreateWasteLog(restaurant, item, q) == WriteLog(restaurant, item, q, "WASTE", -1)
CreatePrepLog(restaurant, item, q) == WriteLog(restaurant, item, q, "PREP_PRODUCTION", 1)
RecordOpeningBalance(restaurant, item, q) ==
  WriteLog(restaurant, item, q, "OPENING_BALANCE", 1)

StockNext ==
  \/ \E from, to \in Restaurants, i \in StockItems, q \in Quantities :
       CreateTransfer(from, to, i, q)
  \/ \E restaurant \in Restaurants, i \in StockItems, q \in Quantities :
       \/ CreateWasteLog(restaurant, i, q)
       \/ CreatePrepLog(restaurant, i, q)
       \/ RecordOpeningBalance(restaurant, i, q)
  \/ \E r \in Calls :
       \/ \E t \in TransferIds : ReadTransfer(r, t)
       \/ CompleteTransfer(r)
       \/ CompletionFails(r)

StockSpec == StockInit /\ [][StockNext]_stockVars
-----------------------------------------------------------------------------
(* Properties *)

StockTypeOK ==
  /\ transfers \in [TransferIds -> Transfer \cup {Absent}]
  /\ logs \in [LogIds -> Log \cup {Absent}]
  /\ ledger \in [Refs -> Seq(Entry)]
  /\ step \in [Calls -> {"idle", "complete"}]
  /\ call \in [Calls -> {Absent} \cup [id : TransferIds, row : Transfer]]
  /\ raced \in SUBSET TransferIds

\* What a log has in the ledger: one entry, of the amount the log's row shows, taken
\* out for waste and put in for the rest.
LogEntry(log) ==
  <<[restaurant |-> log.restaurant, item |-> log.item, reason |-> log.reason,
     amount |-> IF log.reason = "WASTE" THEN -log.qty ELSE log.qty]>>

\* Every waste log, preparation and opening balance is in the ledger exactly once and
\* with the quantity its own row was rounded to, even when that is 0.00; an id without a
\* log is not in it.
LogsAreBooked ==
  \A l \in LogIds : ledger[l] = IF logs[l] = Absent THEN <<>> ELSE LogEntry(logs[l])

\* A completeTransfer in flight carries the PENDING row it read; of a transfer, only
\* the status changes.
ReadRows ==
  \A r \in Calls :
    IF step[r] = "idle" THEN call[r] = Absent
    ELSE /\ call[r] # Absent
         /\ call[r].row.status = "PENDING"
         /\ transfers[call[r].id] # Absent
         /\ call[r].row = [transfers[call[r].id] EXCEPT !.status = "PENDING"]

\* Two calls completing one transfer are noticed.
RacesAreSeen ==
  \A r, q \in Calls :
    r # q /\ step[r] # "idle" /\ step[q] # "idle" /\ call[r].id = call[q].id => call[r].id \in raced

\* A call in flight for a transfer that never raced has read what is still there.
StillPending ==
  \A r \in Calls :
    step[r] # "idle" /\ call[r].id \notin raced => transfers[call[r].id].status = "PENDING"

\* completeTransfer refuses a transfer that is not PENDING: the stock of a transfer
\* leaves its origin and reaches its destination together, exactly once when it is
\* COMPLETED and not before, unless two calls have been completing it at once.
TransferredOnceUnlessRaced ==
  \A t \in TransferIds \ raced :
    ledger[t] = IF transfers[t] = Absent \/ transfers[t].status = "PENDING" THEN <<>>
                ELSE Pair(transfers[t])

StockIInv ==
  StockTypeOK /\ LogsAreBooked /\ ReadRows /\ RacesAreSeen /\ StillPending
    /\ TransferredOnceUnlessRaced
=============================================================================
