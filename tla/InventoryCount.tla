--------------------------- MODULE InventoryCount ---------------------------
(***************************************************************************)
(* Stock counting of one restaurant: InventoryCountService of the IMS API, *)
(* over the tables inventory_count_batches and inventory_count_rows and    *)
(* the append-only inventory_ledger.                                       *)
(*                                                                         *)
(* Requests are handled concurrently, by any number of API processes, and  *)
(* a handler gives up control at every query: each action below is one     *)
(* query (autocommitted) or one whole database transaction, with the code  *)
(* up to the next await.  A transaction is one action because Postgres     *)
(* shows nothing of it before its commit, and its only guarded statement   *)
(* (UPDATE ... WHERE version = v) waits for the row's lock and evaluates   *)
(* its condition on the committed row.                                     *)
(***************************************************************************)
EXTENDS Integers, Sequences

CONSTANTS
  Requests, \* the HTTP requests that can be in flight at once
  Batches,  \* the batch identifiers randomUUID() can draw
  Items,    \* catalogue items
  Counts,   \* the quantities a count sheet can report
  Versions, \* the versions a client can send when it closes a batch
  Deltas,   \* the amounts other services post to the ledger
  MaxMoves, \* BOUND: how many such postings happen
  Null,     \* actual_qty IS NULL
  NoRow     \* the batch has no row for the item

ASSUME CountAssumption ==
  /\ Counts \subseteq Int
  /\ Versions \subseteq Nat
  /\ Deltas \subseteq Int \ {0}
  /\ MaxMoves \in Nat
  /\ Null \notin Int
  /\ NoRow \notin [expected : Int, actual : Int \union {Null}]

VARIABLES
  batches,     \* inventory_count_batches: status ("ABSENT": no such row) and version
  rows,        \* inventory_count_rows: rows[b][i], or NoRow
  adjustments, \* the ledger's COUNT_ADJUSTMENT entries: amounts by reference and item
  stock,       \* SUM(change_amount) of the ledger, by item
  tracked,     \* the items with at least one ledger entry
  moves,       \* number of postings by other services so far
  pc,          \* what each request does next; "idle" when it is not in flight
  task,        \* the local variables of each request's handler
  alone        \* history: never yet were two requests in flight at once

table == <<batches, rows, adjustments, stock, tracked, moves>>
vars == <<batches, rows, adjustments, stock, tracked, moves, pc, task, alone>>

Row == [expected : Int, actual : Int \union {Null}]
NoRows == [i \in Items |-> NoRow]
Task(b, version, sheet) ==
  [batch |-> b, rowsOf |-> b, version |-> version, sheet |-> sheet]
NoTask == Task(Null, 0, NoRows)

\* findRowsByBatchId: the items batch b has a row for.
Counted(b) == {i \in Items : rows[b][i] # NoRow}

\* findOpenBatchByRestaurant: the batches it can return.
OpenBatches == {b \in Batches : batches[b].status = "OPEN"}

\* Faulty variant of Variance: used by no action.
SwappedVariance(row) ==
  row.expected - (IF row.actual = Null THEN row.expected ELSE row.actual)

\* closeBatch: (row.actualQty ?? row.expectedQty) - row.expectedQty
Variance(row) ==
  (IF row.actual = Null THEN row.expected ELSE row.actual) - row.expected

-----------------------------------------------------------------------------
Init ==
  /\ batches = [b \in Batches |-> [status |-> "ABSENT", version |-> 0]]
  /\ rows = [b \in Batches |-> NoRows]
  /\ adjustments = [b \in Batches |-> [i \in Items |-> <<>>]]
  /\ tracked \in SUBSET Items
  /\ stock = [i \in Items |-> 0]
  /\ moves = 0
  /\ pc = [r \in Requests |-> "idle"]
  /\ task = [r \in Requests |-> NoTask]
  /\ alone = TRUE

\* Request r goes on at pc `next` with local variables t; it is done when
\* `next` is "idle", and its local variables are gone.
Continue(r, next, t) ==
  /\ pc' = [pc EXCEPT ![r] = next]
  /\ task' = [task EXCEPT ![r] = IF next = "idle" THEN NoTask ELSE t]
  /\ alone' = (alone /\ (next = "idle" \/ \A q \in Requests \ {r} : pc[q] = "idle"))

Finish(r) == Continue(r, "idle", NoTask)

\* LedgerService.record: any other service posts an entry for item i.
Movement(i, delta) ==
  /\ moves < MaxMoves
  /\ moves' = moves + 1
  /\ stock' = [stock EXCEPT ![i] = @ + delta]
  /\ tracked' = tracked \union {i}
  /\ UNCHANGED <<batches, rows, adjustments, pc, task, alone>>

-----------------------------------------------------------------------------
(* startBatch *)

\* The handler looks for an OPEN batch of the restaurant: any one, if there is
\* one.
StartFind(r) ==
  /\ pc[r] = "idle"
  /\ \/ /\ OpenBatches = {}
        /\ Continue(r, "start_snapshot", NoTask)
     \/ \E b \in OpenBatches :
          Continue(r, "start_check", Task(b, batches[b].version, NoRows))
  /\ UNCHANGED table

\* Faulty variant of StartCheck: used by no action.
StartCheckNoThrow(r) ==
  /\ pc[r] = "start_check"
  /\ Continue(r, IF Counted(task[r].batch) = {} THEN "start_reap" ELSE "start_snapshot",
              task[r])
  /\ UNCHANGED table

\* An open batch that has rows makes the request fail; an empty one was left by
\* a start that died half way, and is closed.
StartCheck(r) ==
  /\ pc[r] = "start_check"
  /\ IF Counted(task[r].batch) = {}
       THEN Continue(r, "start_reap", task[r])
       ELSE Finish(r)
  /\ UNCHANGED table

\* Faulty variant of VersionMatches: used by no action.
VersionIgnored(b, version) == TRUE

\* UPDATE ... WHERE id = b AND version = v: does it match a row?
VersionMatches(b, version) == batches[b].version = version

\* updateBatchStatus(..., CLOSED, version): batches after the UPDATE.
Closed(b, version) ==
  [batches EXCEPT ![b] = [status |-> "CLOSED", version |-> version + 1]]

\* The abandoned batch is closed; whether the UPDATE matched is not looked at.
StartReap(r) ==
  /\ pc[r] = "start_reap"
  /\ batches' = IF VersionMatches(task[r].batch, task[r].version)
                  THEN Closed(task[r].batch, task[r].version)
                  ELSE batches
  /\ Continue(r, "start_snapshot", NoTask)
  /\ UNCHANGED <<rows, adjustments, stock, tracked, moves>>

\* getCurrentStockBulk: one expected quantity for each item with an entry.
StartSnapshot(r) ==
  /\ pc[r] = "start_snapshot"
  /\ Continue(r, "start_create",
       Task(Null, 0, [i \in Items |-> IF i \in tracked
                                        THEN [expected |-> stock[i], actual |-> Null]
                                        ELSE NoRow]))
  /\ UNCHANGED table

\* createBatch: an autocommitted INSERT with a fresh id.
StartCreate(r) ==
  /\ pc[r] = "start_create"
  /\ \E b \in Batches :
       /\ batches[b].status = "ABSENT"
       /\ batches' = [batches EXCEPT ![b] = [status |-> "OPEN", version |-> 1]]
       /\ Continue(r, "start_fill", Task(b, 0, task[r].sheet))
  /\ UNCHANGED <<rows, adjustments, stock, tracked, moves>>

\* createCountRows: one INSERT of all rows, a second autocommitted statement.
StartFill(r) ==
  /\ pc[r] = "start_fill"
  /\ rows' = [rows EXCEPT ![task[r].batch] =
                [i \in Items |-> IF task[r].sheet[i] # NoRow
                                   THEN task[r].sheet[i] ELSE @[i]]]
  /\ Finish(r)
  /\ UNCHANGED <<batches, adjustments, stock, tracked, moves>>

-----------------------------------------------------------------------------
(* submitActualCount and importBatch *)

\* Faulty variant of AcceptsCounts: used by no action.
AnyStatus(b) == batches[b].status # "ABSENT"

\* The check both make on the batch they have read.
AcceptsCounts(b) == batches[b].status = "OPEN"

\* The path names a batch and a row.  The handler goes on only when the batch it reads
\* is OPEN; whether the row is one of that batch it never asks.
SubmitCheck(r) ==
  /\ pc[r] = "idle"
  /\ \E b, c \in Batches : \E i \in Counted(c), q \in Counts :
       /\ AcceptsCounts(b)
       /\ Continue(r, "write_counts",
            [Task(b, 0, [NoRows EXCEPT ![i] = [expected |-> 0, actual |-> q]])
               EXCEPT !.rowsOf = c])
  /\ UNCHANGED table

\* importBatch: the file's lines are at most one quantity per item.
ImportCheck(r) ==
  /\ pc[r] = "idle"
  /\ \E b \in Batches : \E lines \in [Items -> Counts \union {Null}] :
       /\ AcceptsCounts(b)
       /\ Continue(r, "import_match",
            Task(b, 0, [i \in Items |->
                          IF lines[i] = Null THEN NoRow
                          ELSE [expected |-> 0, actual |-> lines[i]]]))
  /\ UNCHANGED table

\* findRowsByBatchId: lines for items the batch does not list are skipped.
ImportMatch(r) ==
  /\ pc[r] = "import_match"
  /\ Continue(r, "write_counts",
       Task(task[r].batch, 0,
            [i \in Items |-> IF i \in Counted(task[r].batch)
                               THEN task[r].sheet[i] ELSE NoRow]))
  /\ UNCHANGED table

Pending(r) == {i \in Items : task[r].sheet[i] # NoRow}

\* updateCountRow: an autocommitted UPDATE by row id alone for each line in turn,
\* whatever batch the row is of and whatever has become of it.
WriteCount(r) ==
  /\ pc[r] = "write_counts"
  /\ \/ /\ Pending(r) = {}
        /\ Finish(r)
        /\ UNCHANGED rows
     \/ \E i \in Pending(r) :
          /\ rows' = [rows EXCEPT ![task[r].rowsOf][i].actual = task[r].sheet[i].actual]
          /\ IF Pending(r) = {i}
               THEN Finish(r)
               ELSE Continue(r, "write_counts", [task[r] EXCEPT !.sheet[i] = NoRow])
  /\ UNCHANGED <<batches, adjustments, stock, tracked, moves>>

-----------------------------------------------------------------------------
(* closeCountBatch *)

\* The controller reads the batch first and refuses an unknown or CLOSED one.
CloseCheck(r) ==
  /\ pc[r] = "idle"
  /\ \E b \in Batches, v \in Versions :
       /\ batches[b].status \notin {"ABSENT", "CLOSED"}
       /\ Continue(r, "close_verify", Task(b, v, NoRows))
  /\ UNCHANGED table

\* closeBatch reads it again: its version must be the client's, and it must
\* not be CLOSED.
CloseVerify(r) ==
  /\ pc[r] = "close_verify"
  /\ IF /\ batches[task[r].batch].version = task[r].version
        /\ batches[task[r].batch].status # "CLOSED"
       THEN Continue(r, "close_rows", task[r])
       ELSE Finish(r)
  /\ UNCHANGED table

\* findRowsByBatchId, outside the transaction.
CloseReadRows(r) ==
  /\ pc[r] = "close_rows"
  /\ Continue(r, "close_commit",
              Task(task[r].batch, task[r].version, rows[task[r].batch]))
  /\ UNCHANGED table

\* The items the transaction writes a ledger entry for.
Varying(sheet) == {i \in Items : sheet[i] # NoRow /\ Variance(sheet[i]) # 0}

\* The transaction: COUNT_ADJUSTMENT entries from the rows read before it, and
\* the batch CLOSED if it still has the version; if not, all of it rolls back.
CloseCommit(r) ==
  LET b == task[r].batch
      sheet == task[r].sheet
  IN
  /\ pc[r] = "close_commit"
  /\ \/ /\ VersionMatches(b, task[r].version)
        /\ batches' = Closed(b, task[r].version)
        /\ adjustments' =
             [adjustments EXCEPT ![b] =
                [i \in Items |-> IF i \in Varying(sheet)
                                   THEN Append(adjustments[b][i], Variance(sheet[i]))
                                   ELSE adjustments[b][i]]]
        /\ stock' = [i \in Items |-> IF i \in Varying(sheet)
                                       THEN stock[i] + Variance(sheet[i])
                                       ELSE stock[i]]
        /\ tracked' = tracked \union Varying(sheet)
     \/ /\ ~VersionMatches(b, task[r].version)
        /\ UNCHANGED <<batches, adjustments, stock, tracked>>
  /\ Finish(r)
  /\ UNCHANGED <<rows, moves>>

-----------------------------------------------------------------------------
\* A query fails or the API process dies: the handler goes no further, and a
\* transaction it had begun rolls back.
Fail(r) ==
  /\ pc[r] # "idle"
  /\ Finish(r)
  /\ UNCHANGED table

Start(r) == StartFind(r) \/ StartCheck(r) \/ StartReap(r) \/ StartSnapshot(r)
            \/ StartCreate(r) \/ StartFill(r)
Count(r) == SubmitCheck(r) \/ ImportCheck(r) \/ ImportMatch(r) \/ WriteCount(r)
Close(r) == CloseCheck(r) \/ CloseVerify(r) \/ CloseReadRows(r) \/ CloseCommit(r)

Next ==
  \/ \E i \in Items, delta \in Deltas : Movement(i, delta)
  \/ \E r \in Requests : Start(r) \/ Count(r) \/ Close(r) \/ Fail(r)

Spec == Init /\ [][Next]_vars

-----------------------------------------------------------------------------
(* Properties *)

Sheets == [Items -> Row \union {NoRow}]

Tasks == [batch : Batches \union {Null}, rowsOf : Batches \union {Null},
          version : Nat, sheet : Sheets]

States == {"idle", "start_check", "start_reap", "start_snapshot", "start_create",
           "start_fill", "import_match", "write_counts", "close_verify",
           "close_rows", "close_commit"}

\* The tables and the handlers' local variables have the shapes the SQL schema
\* and the TypeScript types give them.
TypeOK ==
  /\ batches \in [Batches -> [status : {"ABSENT", "OPEN", "CLOSED"}, version : Nat]]
  /\ rows \in [Batches -> Sheets]
  /\ adjustments \in [Batches -> [Items -> Seq(Int)]]
  /\ stock \in [Items -> Int]
  /\ tracked \in SUBSET Items
  /\ moves \in Nat
  /\ pc \in [Requests -> States]
  /\ task \in [Requests -> Tasks]
  /\ alone \in BOOLEAN

\* However many close and start requests race, and wherever one dies, a count
\* corrects the stock of an item at most once (closeBatch's optimistic lock).
AdjustedOnce == \A b \in Batches, i \in Items : Len(adjustments[b][i]) <= 1

\* Ledger entries of a count exist only together with its CLOSED status, and
\* the version column tells whether it was closed: the transaction of
\* closeBatch leaves nothing behind when its UPDATE matches no row.
BookedByItsClose ==
  \A b \in Batches :
    /\ (\E i \in Items : adjustments[b][i] # <<>>) => batches[b].status = "CLOSED"
    /\ batches[b].version = CASE batches[b].status = "ABSENT" -> 0
                              [] batches[b].status = "OPEN" -> 1
                              [] batches[b].status = "CLOSED" -> 2

\* Nothing that is still in flight when a batch is closed touches the batch
\* or its ledger entries again: a stale reader loses.
ClosedIsFinal ==
  [][\A b \in Batches : batches[b].status = "CLOSED" =>
       /\ batches'[b] = batches[b]
       /\ adjustments'[b] = adjustments[b]]_vars

\* The inductive invariant behind the four properties above: an adjustment is
\* booked for no batch that is not CLOSED, and a handler about to close a batch
\* holds version 1, the version a batch has only while it is OPEN.
Unbooked ==
  \A b \in Batches, i \in Items :
    \/ adjustments[b][i] = <<>>
    \/ /\ batches[b].status = "CLOSED"
       /\ adjustments[b][i] = <<adjustments[b][i][1]>>
       /\ adjustments[b][i][1] # 0

VersionTellsStatus ==
  \A b \in Batches :
    batches[b] \in {[status |-> "ABSENT", version |-> 0],
                    [status |-> "OPEN", version |-> 1],
                    [status |-> "CLOSED", version |-> 2]}

\* What a handler at p with local variables t knows of the batch it works on.
Knows(p, t) ==
  /\ p \notin {"idle", "start_snapshot", "start_create"} => t.batch \in Batches
  /\ p \in {"start_check", "start_reap", "close_rows", "close_commit"} => t.version = 1
  /\ p = "close_verify" => batches[t.batch].status # "ABSENT"
  /\ p = "write_counts" =>
       /\ t.rowsOf \in Batches
       /\ \A i \in Items : t.sheet[i] # NoRow => rows[t.rowsOf][i] # NoRow

HandlersKnowTheirBatch == \A r \in Requests : Knows(pc[r], task[r])

IInv == TypeOK /\ Unbooked /\ VersionTellsStatus /\ HandlersKnowTheirBatch

\* Seen through its batches and their ledger entries, the service is the
\* count book: it opens, and later closes and books in one step.
Book == INSTANCE CountBook WITH
          status <- [b \in Batches |-> batches[b].status],
          booked <- adjustments
ImplementsCountBook == Book!Spec

\* startBatch: "An open count batch already exists. Close it before starting a
\* new one."  While no two requests overlap, and wherever one dies, a restaurant
\* never has two OPEN batches: a start reaps what another left half done.
OneOpenUnlessRaced ==
  alone => \A b, c \in Batches :
             batches[b].status = "OPEN" /\ batches[c].status = "OPEN" => b = c

\* Unless requests overlapped, rows are written only while their batch is OPEN:
\* neither the counts of submitActualCount and importBatch, nor the rows startBatch
\* inserts after its batch, arrive in a batch that was closed meanwhile.  Only a
\* submitActualCount that names an OPEN batch and a row of another one writes, there,
\* whatever that other batch's status.
WrittenWhileOpen ==
  [][alone' => \A b \in Batches : rows'[b] # rows[b] =>
       \/ batches[b].status = "OPEN"
       \/ \E r \in Requests : /\ pc[r] = "write_counts" /\ task[r].rowsOf = b
                             /\ task[r].batch \in OpenBatches \ {b}]_vars

\* Unless requests overlapped, closeBatch books the counts the table holds when
\* the batch is closed: no quantity reported before the close is lost.
CloseBooksTheCounts ==
  [][alone' => \A b \in Batches :
       batches[b].status = "OPEN" /\ batches'[b].status = "CLOSED" =>
         \A i \in Items :
           adjustments'[b][i] =
             IF i \in Counted(b) /\ rows[b][i].actual \notin {Null, rows[b][i].expected}
               THEN <<rows[b][i].actual - rows[b][i].expected>>
               ELSE <<>>]_vars

\* The inductive invariant behind these three: until requests have overlapped, the
\* one in flight still finds the batch as it read it.  A start goes on only when no
\* batch is OPEN or to reap the OPEN one, which has no rows; counts and closes have
\* an OPEN batch, and what a close is about to book is what the table holds.
SoleHandler(r) ==
  LET b == task[r].batch IN
  /\ pc[r] \in {"start_check", "start_reap"} => OpenBatches = {b}
  /\ pc[r] = "start_reap" => Counted(b) = {}
  /\ pc[r] \in {"start_snapshot", "start_create"} => OpenBatches = {}
  /\ pc[r] \in {"start_fill", "import_match", "write_counts",
                "close_verify", "close_rows", "close_commit"} => b \in OpenBatches
  /\ pc[r] = "close_commit" => task[r].sheet = rows[b]

AloneInv ==
  alone =>
    /\ \A q, r \in Requests : pc[q] # "idle" /\ pc[r] # "idle" => q = r
    /\ \A b, c \in OpenBatches : b = c
    /\ \A r \in Requests : SoleHandler(r)
=============================================================================
