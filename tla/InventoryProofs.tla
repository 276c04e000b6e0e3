--------------------------- MODULE InventoryProofs ---------------------------
(***************************************************************************)
(* Theorems about the two services that write the inventory:              *)
(* InventoryCount for every number of requests, batches and items, and     *)
(* StockOperations for any number of calls, restaurants, items, ids and    *)
(* quantities and whatever the schema accepts.  The two share nothing:     *)
(* what each proves is of its own specification.                           *)
(***************************************************************************)
EXTENDS InventoryCount, StockOperations, TLAPS

-----------------------------------------------------------------------------
(* InventoryCount                                                            *)

\* Computing a variance from a row of the table gives an integer.
LEMMA VarianceType == \A row \in Row : Variance(row) \in Int
  BY CountAssumption DEF Row, Variance

\* The sequence with the single element x.
LEMMA SingletonSeq ==
  ASSUME NEW s, NEW x, s = <<x>>
  PROVE  s[1] = x /\ Len(s) = 1
  <1>1. Len(<<x>>) = 1 /\ <<x>>[1] = x
    OBVIOUS
  <1> QED
    BY <1>1

\* Handlers start from well-typed local variables.
LEMMA NoTaskType ==
  NoTask \in Tasks
  BY DEF NoTask, Task, NoRows, Tasks, Sheets

\* Continue changes the two variables of one request only.
LEMMA ContinueType ==
  ASSUME TypeOK, NEW r \in Requests, NEW next \in States, NEW t,
         t \in Tasks,
         Continue(r, next, t)
  PROVE  /\ pc' \in [Requests -> States]
         /\ task' \in [Requests -> Tasks]
         /\ alone' \in BOOLEAN
         /\ pc'[r] = next
         /\ next # "idle" => task'[r] = t
         /\ \A q \in Requests \ {r} : pc'[q] = pc[q] /\ task'[q] = task[q]
  BY NoTaskType DEF TypeOK, Continue

THEOREM InitIInv == Init => IInv
  <1> SUFFICES ASSUME Init PROVE IInv
    OBVIOUS
  <1>1. TypeOK
    BY NoTaskType DEF Init, TypeOK, NoRows, Sheets, States
  <1>2. Unbooked
    BY DEF Init, Unbooked
  <1>3. VersionTellsStatus
    BY DEF Init, VersionTellsStatus
  <1>4. HandlersKnowTheirBatch
    BY DEF Init, HandlersKnowTheirBatch, Knows
  <1> QED
    BY <1>1, <1>2, <1>3, <1>4 DEF IInv

-----------------------------------------------------------------------------
\* What no step undoes: a batch that exists goes on existing, and so does a row.
TablesGrow ==
  /\ \A b \in Batches : batches[b].status # "ABSENT" => batches'[b].status # "ABSENT"
  /\ \A b \in Batches, i \in Items : rows[b][i] # NoRow => rows'[b][i] # NoRow

\* A handler's local variables are well-typed if their parts are.
LEMMA TaskType ==
  ASSUME NEW b \in Batches \union {Null}, NEW version \in Nat, NEW sheet \in Sheets
  PROVE  /\ Task(b, version, sheet) \in Tasks
         /\ Task(b, version, sheet).batch = b
         /\ Task(b, version, sheet).rowsOf = b
         /\ Task(b, version, sheet).version = version
         /\ Task(b, version, sheet).sheet = sheet
  BY DEF Task, Tasks

\* A step of request r leaves what the other handlers know of their batches true.
LEMMA OthersKnowTheirBatch ==
  ASSUME IInv, NEW r \in Requests, NEW next \in States, NEW t \in Tasks,
         Continue(r, next, t), TablesGrow, Knows(pc[r], task[r])'
  PROVE  HandlersKnowTheirBatch'
  <1> SUFFICES ASSUME NEW q \in Requests, q # r PROVE Knows(pc[q], task[q])'
    BY DEF HandlersKnowTheirBatch
  <1>1. pc'[q] = pc[q] /\ task'[q] = task[q]
    BY ContinueType DEF IInv
  <1>2. Knows(pc[q], task[q]) /\ task[q] \in Tasks
    BY DEF IInv, HandlersKnowTheirBatch, TypeOK
  <1> QED
    BY <1>1, <1>2 DEF Knows, TablesGrow, Tasks

\* A handler that is done knows nothing any more.
LEMMA FinishingStep ==
  ASSUME IInv, NEW r \in Requests, Finish(r), TablesGrow
  PROVE  /\ HandlersKnowTheirBatch'
         /\ pc' \in [Requests -> States]
         /\ task' \in [Requests -> Tasks]
         /\ alone' \in BOOLEAN
  <1>1. Continue(r, "idle", NoTask)
    BY DEF Finish
  <1>2. /\ pc'[r] = "idle"
        /\ pc' \in [Requests -> States]
        /\ task' \in [Requests -> Tasks]
        /\ alone' \in BOOLEAN
    BY <1>1, ContinueType, NoTaskType DEF IInv, States
  <1>3. Knows(pc[r], task[r])'
    BY <1>2 DEF Knows
  <1> QED
    BY <1>1, <1>2, <1>3, OthersKnowTheirBatch, NoTaskType DEF States

\* A step that only reads keeps IInv if the handler knows what it goes on with.
LEMMA ReadingStep ==
  ASSUME IInv, NEW r \in Requests, NEW next \in States, NEW t \in Tasks,
         Continue(r, next, t), UNCHANGED table, Knows(next, t)
  PROVE  IInv'
  <1> USE DEF table
  <1>1. TypeOK'
    BY ContinueType DEF IInv, TypeOK
  <1>2. Unbooked' /\ VersionTellsStatus'
    BY DEF IInv, Unbooked, VersionTellsStatus
  <1>3. Knows(pc[r], task[r])'
    <2>1. pc'[r] = next /\ (next # "idle" => task'[r] = t)
      BY ContinueType DEF IInv
    <2> QED
      BY <2>1 DEF Knows
  <1>4. HandlersKnowTheirBatch'
    BY <1>3, OthersKnowTheirBatch DEF TablesGrow
  <1> QED
    BY <1>1, <1>2, <1>4 DEF IInv

\* A handler that only stops keeps IInv.
LEMMA StoppingStep ==
  ASSUME IInv, NEW r \in Requests, Finish(r), UNCHANGED table
  PROVE  IInv'
  BY ReadingStep, NoTaskType DEF Finish, States, Knows

-----------------------------------------------------------------------------
\* The steps of other services and of startBatch.

LEMMA MovementStep ==
  ASSUME IInv, NEW i \in Items, NEW delta \in Deltas, Movement(i, delta)
  PROVE  IInv'
  BY CountAssumption DEF IInv, Movement, TypeOK, Unbooked, VersionTellsStatus,
     HandlersKnowTheirBatch, Knows

LEMMA StartFindStep ==
  ASSUME IInv, NEW r \in Requests, StartFind(r)
  PROVE  IInv'
  <1>1. CASE Continue(r, "start_snapshot", NoTask) /\ UNCHANGED table
    BY <1>1, ReadingStep, NoTaskType DEF States, Knows
  <1>2. ASSUME NEW b \in OpenBatches, UNCHANGED table,
               Continue(r, "start_check", Task(b, batches[b].version, NoRows))
        PROVE  IInv'
    <2>1. batches[b].version = 1
      BY <1>2 DEF IInv, VersionTellsStatus, OpenBatches
    <2>2. NoRows \in Sheets
      BY DEF NoRows, Sheets
    <2> QED
      BY <1>2, <2>1, <2>2, TaskType, ReadingStep DEF States, Knows, OpenBatches
  <1> QED
    BY <1>1, <1>2 DEF StartFind

LEMMA StartCheckStep ==
  ASSUME IInv, NEW r \in Requests, StartCheck(r)
  PROVE  IInv'
  <1>1. task[r] \in Tasks /\ Knows(pc[r], task[r])
    BY DEF IInv, TypeOK, HandlersKnowTheirBatch
  <1>2. CASE Finish(r)
    BY <1>2, StoppingStep DEF StartCheck
  <1>3. CASE Continue(r, "start_reap", task[r])
    <2>1. Knows("start_reap", task[r])
      BY <1>1 DEF StartCheck, Knows
    <2> QED
      BY <1>1, <1>3, <2>1, ReadingStep DEF States, StartCheck
  <1> QED
    BY <1>2, <1>3 DEF StartCheck

\* Closing batch b when it has version 1 keeps what IInv says of batches.
LEMMA ClosingBatch ==
  ASSUME IInv, NEW b \in Batches, VersionMatches(b, 1), batches' = Closed(b, 1)
  PROVE  /\ batches[b].status = "OPEN"
         /\ batches'[b].status = "CLOSED"
         /\ \A c \in Batches : c # b => batches'[c] = batches[c]
         /\ batches' \in [Batches -> [status : {"ABSENT", "OPEN", "CLOSED"}, version : Nat]]
         /\ VersionTellsStatus'
  BY DEF IInv, TypeOK, VersionTellsStatus, VersionMatches, Closed

LEMMA StartReapStep ==
  ASSUME IInv, NEW r \in Requests, StartReap(r)
  PROVE  IInv'
  <1> DEFINE b == task[r].batch
  <1>1. b \in Batches /\ task[r].version = 1
    BY DEF IInv, HandlersKnowTheirBatch, Knows, StartReap
  <1>2. Continue(r, "start_snapshot", NoTask)
    BY DEF StartReap
  <1>3. CASE ~VersionMatches(b, 1)
    <2>1. UNCHANGED table
      BY <1>1, <1>3 DEF StartReap, table
    <2> QED
      BY <1>2, <2>1, ReadingStep, NoTaskType DEF States, Knows
  <1>4. CASE VersionMatches(b, 1)
    <2>1. batches' = Closed(b, 1) /\ UNCHANGED <<rows, adjustments, stock, tracked, moves>>
      BY <1>1, <1>4 DEF StartReap
    <2>2. TypeOK'
      BY <1>1, <1>2, <1>4, <2>1, ClosingBatch, ContinueType, NoTaskType DEF IInv, TypeOK, States
    <2>3. Unbooked' /\ VersionTellsStatus'
      BY <1>1, <1>4, <2>1, ClosingBatch DEF IInv, Unbooked
    <2>4. TablesGrow
      BY <1>1, <1>4, <2>1, ClosingBatch DEF TablesGrow
    <2>5. pc'[r] = "start_snapshot"
      BY <1>2, ContinueType, NoTaskType DEF IInv, States
    <2>6. HandlersKnowTheirBatch'
      BY <1>2, <2>4, <2>5, OthersKnowTheirBatch, NoTaskType DEF States, Knows
    <2> QED
      BY <2>2, <2>3, <2>6 DEF IInv
  <1> QED
    BY <1>3, <1>4

LEMMA StartSnapshotStep ==
  ASSUME IInv, NEW r \in Requests, StartSnapshot(r)
  PROVE  IInv'
  <1> DEFINE sheet == [i \in Items |-> IF i \in tracked
                                         THEN [expected |-> stock[i], actual |-> Null]
                                         ELSE NoRow]
  <1>1. sheet \in Sheets
    BY DEF IInv, TypeOK, Sheets, Row
  <1>2. Task(Null, 0, sheet) \in Tasks
    BY <1>1, TaskType
  <1> QED
    BY <1>2, ReadingStep DEF StartSnapshot, States, Knows

LEMMA StartCreateStep ==
  ASSUME IInv, NEW r \in Requests, StartCreate(r)
  PROVE  IInv'
  <1>1. PICK b \in Batches :
          /\ batches[b].status = "ABSENT"
          /\ batches' = [batches EXCEPT ![b] = [status |-> "OPEN", version |-> 1]]
          /\ Continue(r, "start_fill", Task(b, 0, task[r].sheet))
    BY DEF StartCreate
  <1>2. UNCHANGED <<rows, adjustments, stock, tracked, moves>>
    BY DEF StartCreate
  <1>3. task[r].sheet \in Sheets
    BY DEF IInv, TypeOK, Tasks
  <1> DEFINE t == Task(b, 0, task[r].sheet)
  <1>4. t \in Tasks /\ t.batch = b
    BY <1>3, TaskType
  <1> HIDE DEF t
  <1>5. TypeOK'
    BY <1>1, <1>2, <1>4, ContinueType DEF IInv, TypeOK, States, t
  <1>6. Unbooked' /\ VersionTellsStatus'
    BY <1>1, <1>2 DEF IInv, TypeOK, Unbooked, VersionTellsStatus
  <1>7. TablesGrow
    BY <1>1, <1>2 DEF IInv, TypeOK, TablesGrow
  <1>8. pc'[r] = "start_fill" /\ task'[r] = t
    BY <1>1, <1>4, ContinueType DEF IInv, States, t
  <1>9. HandlersKnowTheirBatch'
    BY <1>1, <1>4, <1>7, <1>8, OthersKnowTheirBatch DEF States, Knows, t
  <1> QED
    BY <1>5, <1>6, <1>9 DEF IInv

LEMMA StartFillStep ==
  ASSUME IInv, NEW r \in Requests, StartFill(r)
  PROVE  IInv'
  <1> DEFINE b == task[r].batch
  <1>1. b \in Batches /\ task[r].sheet \in Sheets
    BY DEF IInv, HandlersKnowTheirBatch, Knows, StartFill, TypeOK, Tasks
  <1>2. /\ rows' \in [Batches -> Sheets]
        /\ TablesGrow
    BY <1>1 DEF StartFill, IInv, TypeOK, TablesGrow, Sheets
  <1>3. /\ HandlersKnowTheirBatch'
        /\ pc' \in [Requests -> States]
        /\ task' \in [Requests -> Tasks]
        /\ alone' \in BOOLEAN
    BY <1>2, FinishingStep DEF StartFill
  <1> QED
    BY <1>2, <1>3 DEF StartFill, IInv, TypeOK, Unbooked, VersionTellsStatus

-----------------------------------------------------------------------------
\* The steps of submitActualCount and importBatch.

LEMMA SubmitCheckStep ==
  ASSUME IInv, NEW r \in Requests, SubmitCheck(r)
  PROVE  IInv'
  <1>1. PICK b \in Batches, c \in Batches, i \in Items, q \in Counts :
          /\ rows[c][i] # NoRow
          /\ Continue(r, "write_counts",
               [Task(b, 0, [NoRows EXCEPT ![i] = [expected |-> 0, actual |-> q]])
                  EXCEPT !.rowsOf = c])
    BY DEF SubmitCheck, Counted
  <1> DEFINE sheet == [NoRows EXCEPT ![i] = [expected |-> 0, actual |-> q]]
  <1>2. /\ sheet \in Sheets
        /\ \A j \in Items : sheet[j] # NoRow => j = i
    BY CountAssumption DEF NoRows, Sheets, Row
  <1> HIDE DEF sheet
  <1> DEFINE t == [Task(b, 0, sheet) EXCEPT !.rowsOf = c]
  <1>3. t \in Tasks /\ t.batch = b /\ t.rowsOf = c /\ t.sheet = sheet
    BY <1>2 DEF Task, Tasks
  <1>4. Continue(r, "write_counts", t)
    BY <1>1 DEF sheet
  <1> HIDE DEF t
  <1>5. Knows("write_counts", t)
    BY <1>1, <1>2, <1>3 DEF Knows
  <1> QED
    BY <1>3, <1>4, <1>5, ReadingStep DEF SubmitCheck, States

LEMMA ImportCheckStep ==
  ASSUME IInv, NEW r \in Requests, ImportCheck(r)
  PROVE  IInv'
  <1>1. PICK b \in Batches, lines \in [Items -> Counts \union {Null}] :
          Continue(r, "import_match",
            Task(b, 0, [i \in Items |-> IF lines[i] = Null THEN NoRow
                                        ELSE [expected |-> 0, actual |-> lines[i]]]))
    BY DEF ImportCheck
  <1> DEFINE sheet == [i \in Items |-> IF lines[i] = Null THEN NoRow
                                       ELSE [expected |-> 0, actual |-> lines[i]]]
  <1>2. sheet \in Sheets
    <2>1. \A i \in Items : lines[i] # Null => [expected |-> 0, actual |-> lines[i]] \in Row
      <3> TAKE i \in Items
      <3> HAVE lines[i] # Null
      <3>1. lines[i] \in Counts
        OBVIOUS
      <3>2. lines[i] \in Int
        BY <3>1, CountAssumption
      <3> QED
        BY <3>2 DEF Row
    <2> QED
      BY <2>1 DEF Sheets
  <1>3. Task(b, 0, sheet) \in Tasks /\ Knows("import_match", Task(b, 0, sheet))
    BY <1>2, TaskType DEF Knows
  <1> QED
    BY <1>1, <1>3, ReadingStep DEF ImportCheck, States

LEMMA ImportMatchStep ==
  ASSUME IInv, NEW r \in Requests, ImportMatch(r)
  PROVE  IInv'
  <1> DEFINE b == task[r].batch
             sheet == [i \in Items |-> IF i \in Counted(b) THEN task[r].sheet[i] ELSE NoRow]
  <1>1. b \in Batches /\ task[r].sheet \in Sheets
    BY DEF IInv, HandlersKnowTheirBatch, Knows, ImportMatch, TypeOK, Tasks
  <1>2. /\ sheet \in Sheets
        /\ \A i \in Items : sheet[i] # NoRow => rows[b][i] # NoRow
    BY <1>1 DEF Sheets, Counted
  <1>3. Task(b, 0, sheet) \in Tasks /\ Knows("write_counts", Task(b, 0, sheet))
    BY <1>1, <1>2, TaskType DEF Knows
  <1> QED
    BY <1>3, ReadingStep DEF ImportMatch, States

LEMMA WriteCountStep ==
  ASSUME IInv, NEW r \in Requests, WriteCount(r)
  PROVE  IInv'
  <1> DEFINE c == task[r].rowsOf
             sheet == task[r].sheet
  <1>1. /\ task[r] \in Tasks /\ task[r].batch \in Batches
        /\ c \in Batches /\ sheet \in Sheets
        /\ \A i \in Items : sheet[i] # NoRow => rows[c][i] # NoRow
    BY DEF IInv, HandlersKnowTheirBatch, Knows, WriteCount, TypeOK, Tasks
  <1>2. CASE Finish(r) /\ UNCHANGED rows
    BY <1>2, StoppingStep DEF WriteCount, table
  <1>3. ASSUME NEW i \in Pending(r),
               rows' = [rows EXCEPT ![c][i].actual = sheet[i].actual],
               \/ Finish(r)
               \/ Continue(r, "write_counts", [task[r] EXCEPT !.sheet[i] = NoRow])
        PROVE  IInv'
    <2>1. sheet[i] \in Row /\ rows[c][i] \in Row
      BY <1>1, <1>3 DEF IInv, TypeOK, Sheets, Pending
    <2>2. [rows[c][i] EXCEPT !.actual = sheet[i].actual] \in Row
      BY <2>1 DEF Row
    <2>3. \A row \in Row : row # NoRow
      BY CountAssumption DEF Row
    <2>4. rows' \in [Batches -> Sheets] /\ TablesGrow
      BY <1>1, <1>3, <2>1, <2>2, <2>3
         DEF WriteCount, IInv, TypeOK, TablesGrow, Sheets, Pending
    <2>5. /\ HandlersKnowTheirBatch'
          /\ pc' \in [Requests -> States]
          /\ task' \in [Requests -> Tasks]
          /\ alone' \in BOOLEAN
      <3>1. CASE Finish(r)
        BY <2>4, <3>1, FinishingStep
      <3> DEFINE rest == [sheet EXCEPT ![i] = NoRow]
                 t == [task[r] EXCEPT !.sheet[i] = NoRow]
      <3>2. CASE Continue(r, "write_counts", t)
        <4>1. /\ rest \in Sheets
              /\ \A j \in Items : rest[j] # NoRow => rows'[c][j] # NoRow
          BY <1>1, <2>4 DEF Sheets, Pending, TablesGrow
        <4>2. t \in Tasks /\ t.batch = task[r].batch /\ t.rowsOf = c /\ t.sheet = rest
          BY <1>1, <4>1 DEF Tasks
        <4> HIDE DEF t, rest
        <4>3. /\ pc'[r] = "write_counts" /\ task'[r] = t
              /\ pc' \in [Requests -> States]
              /\ task' \in [Requests -> Tasks]
              /\ alone' \in BOOLEAN
          BY <3>2, <4>2, ContinueType DEF IInv, States
        <4>4. Knows(pc[r], task[r])'
          BY <1>1, <4>1, <4>2, <4>3 DEF Knows
        <4> QED
          BY <2>4, <3>2, <4>2, <4>3, <4>4, OthersKnowTheirBatch DEF States
      <3> QED
        BY <1>3, <3>1, <3>2
    <2> QED
      BY <2>4, <2>5 DEF WriteCount, IInv, TypeOK, Unbooked, VersionTellsStatus
  <1> QED
    BY <1>2, <1>3 DEF WriteCount

-----------------------------------------------------------------------------
\* The steps of closeCountBatch.

LEMMA CloseCheckStep ==
  ASSUME IInv, NEW r \in Requests, CloseCheck(r)
  PROVE  IInv'
  <1>1. PICK b \in Batches, v \in Versions :
          /\ batches[b].status \notin {"ABSENT", "CLOSED"}
          /\ Continue(r, "close_verify", Task(b, v, NoRows))
    BY DEF CloseCheck
  <1>2. v \in Nat /\ NoRows \in Sheets
    BY CountAssumption DEF NoRows, Sheets
  <1>3. Task(b, v, NoRows) \in Tasks /\ Knows("close_verify", Task(b, v, NoRows))
    BY <1>1, <1>2, TaskType DEF Knows
  <1> QED
    BY <1>1, <1>3, ReadingStep DEF CloseCheck, States

LEMMA CloseVerifyStep ==
  ASSUME IInv, NEW r \in Requests, CloseVerify(r)
  PROVE  IInv'
  <1>1. CASE Finish(r)
    BY <1>1, StoppingStep DEF CloseVerify
  <1>2. CASE /\ batches[task[r].batch].version = task[r].version
             /\ batches[task[r].batch].status # "CLOSED"
             /\ Continue(r, "close_rows", task[r])
    <2>1. task[r] \in Tasks /\ Knows("close_verify", task[r])
      BY DEF CloseVerify, IInv, TypeOK, HandlersKnowTheirBatch
    <2>2. task[r].version = 1
      BY <1>2, <2>1 DEF IInv, VersionTellsStatus, Knows
    <2>3. Knows("close_rows", task[r])
      BY <2>1, <2>2 DEF Knows
    <2> QED
      BY <1>2, <2>1, <2>3, ReadingStep DEF CloseVerify, States
  <1> QED
    BY <1>1, <1>2 DEF CloseVerify

LEMMA CloseReadRowsStep ==
  ASSUME IInv, NEW r \in Requests, CloseReadRows(r)
  PROVE  IInv'
  <1> DEFINE b == task[r].batch
  <1>1. b \in Batches /\ task[r].version = 1 /\ rows[b] \in Sheets
    BY DEF CloseReadRows, IInv, TypeOK, HandlersKnowTheirBatch, Knows
  <1>2. Task(b, 1, rows[b]) \in Tasks /\ Knows("close_commit", Task(b, 1, rows[b]))
    BY <1>1, TaskType DEF Knows
  <1> QED
    BY <1>1, <1>2, ReadingStep DEF CloseReadRows, States

\* What the committed transaction of closeBatch does to the tables.
LEMMA Committing ==
  ASSUME IInv, NEW r \in Requests, CloseCommit(r), VersionMatches(task[r].batch, 1)
  PROVE  /\ task[r].batch \in Batches
         /\ batches' = Closed(task[r].batch, 1)
         /\ adjustments' = [adjustments EXCEPT ![task[r].batch] = adjustments'[task[r].batch]]
         /\ adjustments'[task[r].batch] \in [Items -> Seq(Int)]
         /\ \A i \in Items :
              /\ adjustments[task[r].batch][i] = <<>>
              /\ \/ adjustments'[task[r].batch][i] = <<>>
                 \/ /\ adjustments'[task[r].batch][i][1] \in Int \ {0}
                    /\ adjustments'[task[r].batch][i] = <<adjustments'[task[r].batch][i][1]>>
         /\ stock' \in [Items -> Int]
         /\ tracked' \subseteq Items
  <1> DEFINE b == task[r].batch
             sheet == task[r].sheet
             new == [i \in Items |-> IF i \in Varying(sheet)
                                     THEN Append(adjustments[b][i], Variance(sheet[i]))
                                     ELSE adjustments[b][i]]
  <1>1. b \in Batches /\ task[r].version = 1 /\ sheet \in Sheets
    BY DEF CloseCommit, IInv, TypeOK, HandlersKnowTheirBatch, Knows, Tasks
  <1>2. /\ batches' = Closed(b, 1)
        /\ adjustments' = [adjustments EXCEPT ![b] = new]
        /\ stock' = [i \in Items |-> IF i \in Varying(sheet)
                                      THEN stock[i] + Variance(sheet[i]) ELSE stock[i]]
        /\ tracked' = tracked \union Varying(sheet)
    BY <1>1 DEF CloseCommit
  <1>3. adjustments \in [Batches -> [Items -> Seq(Int)]]
    BY DEF IInv, TypeOK
  <1>4. adjustments'[b] = new
    BY <1>1, <1>2, <1>3
  <1>5. \A i \in Items : adjustments[b][i] = <<>>
    BY <1>1, <1>2, ClosingBatch DEF IInv, Unbooked
  <1>6. \A i \in Varying(sheet) : Variance(sheet[i]) \in Int \ {0}
    BY <1>1, VarianceType DEF Varying, Sheets
  <1>7. \A i \in Items :
          \/ new[i] = <<>>
          \/ i \in Varying(sheet) /\ new[i] = <<Variance(sheet[i])>>
    <2> SUFFICES ASSUME NEW i \in Items, i \in Varying(sheet)
                 PROVE  new[i] = <<Variance(sheet[i])>>
      BY <1>5
    <2>1. new[i] = Append(<<>>, Variance(sheet[i]))
      BY <1>5
    <2> QED
      BY <1>6, <2>1
  <1>8. \A i \in Items :
          \/ new[i] = <<>>
          \/ new[i][1] \in Int \ {0} /\ new[i] = <<new[i][1]>>
    <2> SUFFICES ASSUME NEW i \in Items, new[i] # <<>>
                 PROVE  new[i][1] \in Int \ {0} /\ new[i] = <<new[i][1]>>
      OBVIOUS
    <2>1. i \in Varying(sheet) /\ new[i] = <<Variance(sheet[i])>>
      BY <1>7
    <2> HIDE DEF new
    <2>2. new[i][1] = Variance(sheet[i])
      BY <2>1, SingletonSeq, Zenon
    <2> QED
      BY <1>6, <2>1, <2>2, Zenon
  <1>9. new \in [Items -> Seq(Int)]
    <2>1. \A amount \in Int : <<amount>> \in Seq(Int)
      OBVIOUS
    <2>2. <<>> \in Seq(Int)
      OBVIOUS
    <2>3. \A i \in Items : new[i] \in Seq(Int)
      BY <1>6, <1>7, <2>1, <2>2
    <2> QED
      BY <2>3
  <1>10. stock' \in [Items -> Int] /\ tracked' \subseteq Items
    BY <1>2, <1>6 DEF IInv, TypeOK, Varying
  <1> HIDE DEF new
  <1> QED
    BY <1>1, <1>2, <1>4, <1>5, <1>8, <1>9, <1>10

LEMMA CloseCommitStep ==
  ASSUME IInv, NEW r \in Requests, CloseCommit(r)
  PROVE  IInv'
  <1> DEFINE b == task[r].batch
  <1>1. task[r].version = 1
    BY DEF CloseCommit, IInv, HandlersKnowTheirBatch, Knows
  <1>2. CASE ~VersionMatches(b, 1)
    BY <1>1, <1>2, StoppingStep DEF CloseCommit, table
  <1>3. CASE VersionMatches(b, 1)
    <2>1. /\ b \in Batches
          /\ batches[b].status = "OPEN" /\ batches'[b].status = "CLOSED"
          /\ \A c \in Batches : c # b => batches'[c] = batches[c]
          /\ batches' \in [Batches -> [status : {"ABSENT", "OPEN", "CLOSED"}, version : Nat]]
          /\ VersionTellsStatus'
      BY <1>3, Committing, ClosingBatch
    <2>2. UNCHANGED <<rows, moves>> /\ Finish(r)
      BY DEF CloseCommit
    <2>3. TablesGrow
      BY <2>1, <2>2 DEF TablesGrow
    <2>4. /\ HandlersKnowTheirBatch'
          /\ pc' \in [Requests -> States]
          /\ task' \in [Requests -> Tasks]
          /\ alone' \in BOOLEAN
      BY <2>2, <2>3, FinishingStep
    <2>5. adjustments' \in [Batches -> [Items -> Seq(Int)]]
      BY <1>3, Committing DEF IInv, TypeOK
    <2>6. TypeOK'
      BY <1>3, <2>1, <2>2, <2>4, <2>5, Committing DEF IInv, TypeOK
    <2>7. Unbooked'
      <3> SUFFICES ASSUME NEW c \in Batches, NEW i \in Items
                   PROVE  \/ adjustments'[c][i] = <<>>
                          \/ /\ batches'[c].status = "CLOSED"
                             /\ adjustments'[c][i] = <<adjustments'[c][i][1]>>
                             /\ adjustments'[c][i][1] # 0
        BY DEF Unbooked
      <3>1. CASE c = b
        BY <1>3, <2>1, <3>1, Committing
      <3>2. CASE c # b
        BY <1>3, <2>1, <3>2, Committing DEF IInv, TypeOK, Unbooked
      <3> QED
        BY <3>1, <3>2
    <2> QED
      BY <2>1, <2>4, <2>6, <2>7 DEF IInv
  <1> QED
    BY <1>2, <1>3

LEMMA FailStep ==
  ASSUME IInv, NEW r \in Requests, Fail(r)
  PROVE  IInv'
  BY StoppingStep DEF Fail

-----------------------------------------------------------------------------
\* IInv is inductive.
THEOREM NextIInv == IInv /\ [Next]_vars => IInv'
  <1> SUFFICES ASSUME IInv, [Next]_vars PROVE IInv'
    OBVIOUS
  <1>1. ASSUME NEW i \in Items, NEW delta \in Deltas, Movement(i, delta) PROVE IInv'
    BY <1>1, MovementStep
  <1>2. ASSUME NEW r \in Requests, Start(r) PROVE IInv'
    BY <1>2, StartFindStep, StartCheckStep, StartReapStep, StartSnapshotStep,
       StartCreateStep, StartFillStep DEF Start
  <1>3. ASSUME NEW r \in Requests, Count(r) PROVE IInv'
    BY <1>3, SubmitCheckStep, ImportCheckStep, ImportMatchStep, WriteCountStep DEF Count
  <1>4. ASSUME NEW r \in Requests, Close(r) PROVE IInv'
    BY <1>4, CloseCheckStep, CloseVerifyStep, CloseReadRowsStep, CloseCommitStep DEF Close
  <1>5. ASSUME NEW r \in Requests, Fail(r) PROVE IInv'
    BY <1>5, FailStep
  <1>6. CASE UNCHANGED vars
    BY <1>6 DEF vars, IInv, TypeOK, Unbooked, VersionTellsStatus,
       HandlersKnowTheirBatch, Knows
  <1> QED
    BY <1>1, <1>2, <1>3, <1>4, <1>5, <1>6 DEF Next

THEOREM Invariance == Spec => []IInv
  BY InitIInv, NextIInv, PTL DEF Spec

\* The tables and the handlers' local variables always have their types.
THEOREM TypeCorrect == Spec => []TypeOK
  <1>1. IInv => TypeOK
    BY DEF IInv
  <1> QED
    BY <1>1, Invariance, PTL

\* closeBatch's optimistic lock: however many requests race over however many
\* batches, a count books at most one adjustment per item.
THEOREM AdjustedAtMostOnce == Spec => []AdjustedOnce
  <1>1. IInv => AdjustedOnce
    <2> SUFFICES ASSUME IInv, NEW b \in Batches, NEW i \in Items
                 PROVE  Len(adjustments[b][i]) <= 1
      BY DEF AdjustedOnce
    <2>1. \/ adjustments[b][i] = <<>>
          \/ adjustments[b][i] = <<adjustments[b][i][1]>>
      BY DEF IInv, Unbooked
    <2>2. CASE adjustments[b][i] = <<>>
      BY <2>2
    <2>3. CASE adjustments[b][i] = <<adjustments[b][i][1]>>
      <3>1. Len(adjustments[b][i]) = 1
        BY <2>3, SingletonSeq, Zenon
      <3> QED
        BY <3>1
    <2> QED
      BY <2>1, <2>2, <2>3
  <1> QED
    BY <1>1, Invariance, PTL

\* Adjustments and the CLOSED status of a batch become visible together.
THEOREM BookedWithTheClose == Spec => []BookedByItsClose
  <1>1. IInv => BookedByItsClose
    BY DEF IInv, Unbooked, VersionTellsStatus, BookedByItsClose
  <1> QED
    BY <1>1, Invariance, PTL

-----------------------------------------------------------------------------
\* The three things a step can do to the batches and their ledger entries.

Untouched == UNCHANGED <<batches, adjustments>>

Opening(b) ==
  /\ batches[b].status = "ABSENT"
  /\ batches' = [batches EXCEPT ![b] = [status |-> "OPEN", version |-> 1]]
  /\ UNCHANGED adjustments

Closing(b) ==
  /\ batches[b].status = "OPEN"
  /\ batches' = Closed(b, 1)
  /\ adjustments' = [adjustments EXCEPT ![b] = adjustments'[b]]
  /\ adjustments'[b] \in [Items -> Seq(Int)]
  /\ \A i \in Items :
       /\ adjustments[b][i] = <<>>
       /\ Book!AtMostOneAmount(adjustments'[b][i])

LEMMA ReapingStep ==
  ASSUME IInv, NEW r \in Requests, StartReap(r)
  PROVE  Untouched \/ \E b \in Batches : Closing(b)
  <1> DEFINE b == task[r].batch
  <1>1. b \in Batches /\ task[r].version = 1
    BY DEF IInv, HandlersKnowTheirBatch, Knows, StartReap
  <1>2. CASE ~VersionMatches(b, 1)
    BY <1>1, <1>2 DEF StartReap, Untouched
  <1>3. CASE VersionMatches(b, 1)
    <2>1. batches' = Closed(b, 1) /\ UNCHANGED adjustments
      BY <1>1, <1>3 DEF StartReap
    <2>2. batches[b].status = "OPEN"
      BY <1>1, <1>3, <2>1, ClosingBatch
    <2>3. \A i \in Items : adjustments[b][i] = <<>>
      BY <1>1, <2>2 DEF IInv, Unbooked
    <2>4. adjustments \in [Batches -> [Items -> Seq(Int)]]
      BY DEF IInv, TypeOK
    <2>5. Closing(b)
      BY <1>1, <2>1, <2>2, <2>3, <2>4 DEF Closing, Book!AtMostOneAmount
    <2> QED
      BY <1>1, <2>5
  <1> QED
    BY <1>2, <1>3

LEMMA CommittingStep ==
  ASSUME IInv, NEW r \in Requests, CloseCommit(r)
  PROVE  Untouched \/ \E b \in Batches : Closing(b)
  <1> DEFINE b == task[r].batch
  <1>1. b \in Batches /\ task[r].version = 1
    BY DEF IInv, HandlersKnowTheirBatch, Knows, CloseCommit
  <1>2. CASE ~VersionMatches(b, 1)
    BY <1>1, <1>2 DEF CloseCommit, Untouched
  <1>3. CASE VersionMatches(b, 1)
    <2>1. batches[b].status = "OPEN"
      BY <1>1, <1>3, Committing, ClosingBatch
    <2>2. Closing(b)
      BY <1>3, <2>1, Committing DEF Closing, Book!AtMostOneAmount
    <2> QED
      BY <1>1, <2>2
  <1> QED
    BY <1>2, <1>3

LEMMA StepKinds ==
  ASSUME IInv, [Next]_vars
  PROVE  \/ Untouched
         \/ \E b \in Batches : Opening(b)
         \/ \E b \in Batches : Closing(b)
  <1>1. CASE \E r \in Requests : StartReap(r)
    BY <1>1, ReapingStep
  <1>2. CASE \E r \in Requests : CloseCommit(r)
    BY <1>2, CommittingStep
  <1>3. CASE \E r \in Requests : StartCreate(r)
    BY <1>3 DEF StartCreate, Opening
  <1>4. CASE \E i \in Items, delta \in Deltas : Movement(i, delta)
    BY <1>4 DEF Movement, Untouched
  <1>5. CASE \E r \in Requests : \/ StartFind(r) \/ StartCheck(r) \/ StartSnapshot(r)
                               \/ StartFill(r) \/ Fail(r)
    BY <1>5 DEF StartFind, StartCheck, StartSnapshot, StartFill, Fail, table, Untouched
  <1>6. CASE \E r \in Requests : Count(r)
    BY <1>6 DEF Count, SubmitCheck, ImportCheck, ImportMatch, WriteCount, table, Untouched
  <1>7. CASE \E r \in Requests : CloseCheck(r) \/ CloseVerify(r) \/ CloseReadRows(r)
    BY <1>7 DEF CloseCheck, CloseVerify, CloseReadRows, table, Untouched
  <1>8. CASE UNCHANGED vars
    BY <1>8 DEF vars, Untouched
  <1> QED
    BY <1>1, <1>2, <1>3, <1>4, <1>5, <1>6, <1>7, <1>8 DEF Next, Start, Close

\* A CLOSED batch and its ledger entries never change again: every handler
\* that still holds the batch loses.
THEOREM ClosedForGood == Spec => ClosedIsFinal
  <1>1. IInv /\ [Next]_vars =>
          \A b \in Batches : batches[b].status = "CLOSED" =>
            /\ batches'[b] = batches[b]
            /\ adjustments'[b] = adjustments[b]
    <2> SUFFICES ASSUME IInv, [Next]_vars, NEW b \in Batches,
                        batches[b].status = "CLOSED"
                 PROVE  batches'[b] = batches[b] /\ adjustments'[b] = adjustments[b]
      OBVIOUS
    <2>1. CASE Untouched
      BY <2>1 DEF Untouched
    <2>2. ASSUME NEW c \in Batches, Opening(c)
          PROVE  batches'[b] = batches[b] /\ adjustments'[b] = adjustments[b]
      BY <2>2 DEF Opening, IInv, TypeOK
    <2>3. ASSUME NEW c \in Batches, Closing(c)
          PROVE  batches'[b] = batches[b] /\ adjustments'[b] = adjustments[b]
      BY <2>3 DEF Closing, Closed, IInv, TypeOK
    <2> QED
      BY <2>1, <2>2, <2>3, StepKinds
  <1> QED
    BY <1>1, Invariance, PTL DEF Spec, ClosedIsFinal

\* The service implements the count book: its initial states are the book's,
\* and each of its steps opens a count, closes and books one, or is a stutter.
THEOREM Refinement == Spec => ImplementsCountBook
  <1>1. Init => Book!Init
    BY DEF Init, Book!Init, Book!Nothing
  <1>2. IInv /\ [Next]_vars => [Book!Next]_(Book!bookVars)
    <2> SUFFICES ASSUME IInv, [Next]_vars PROVE [Book!Next]_(Book!bookVars)
      OBVIOUS
    <2>1. CASE Untouched
      BY <2>1 DEF Untouched, Book!bookVars
    <2>2. ASSUME NEW b \in Batches, Opening(b) PROVE Book!Open(b)
      BY <2>2 DEF Opening, Book!Open, IInv, TypeOK
    <2>3. ASSUME NEW b \in Batches, Closing(b) PROVE Book!Close(b)
      <3>1. /\ adjustments[b] = Book!Nothing
            /\ DOMAIN adjustments'[b] = Items
        BY <2>3 DEF Closing, IInv, TypeOK, Book!Nothing
      <3> QED
        BY <2>3, <3>1 DEF Closing, Closed, Book!Close, IInv, TypeOK
    <2> QED
      BY <2>1, <2>2, <2>3, StepKinds DEF Book!Next
  <1> QED
    BY <1>1, <1>2, Invariance, PTL DEF Spec, ImplementsCountBook, Book!Spec
-----------------------------------------------------------------------------
(* Requests that have not overlapped *)

\* A handler that starts or goes on alone is the only one there is.
LEMMA OnlyOne ==
  ASSUME IInv, AloneInv, NEW r \in Requests, NEW next \in States, NEW t \in Tasks,
         Continue(r, next, t), alone'
  PROVE  /\ alone
         /\ \A q, p \in Requests : pc'[q] # "idle" /\ pc'[p] # "idle" => q = p
         /\ next # "idle" => \A q \in Requests \ {r} : pc'[q] = "idle"
  <1>1. alone /\ (next # "idle" => \A q \in Requests \ {r} : pc[q] = "idle")
    BY DEF Continue
  <1>2. pc'[r] = next /\ \A q \in Requests \ {r} : pc'[q] = pc[q]
    BY ContinueType DEF IInv
  <1> QED
    BY <1>1, <1>2 DEF AloneInv

\* A step of the sole handler: what it goes on with must fit the tables after it.
LEMMA SoleStep ==
  ASSUME IInv, AloneInv, NEW r \in Requests, NEW next \in States \ {"idle"}, NEW t \in Tasks,
         Continue(r, next, t),
         alone' /\ pc'[r] = next /\ task'[r] = t =>
           SoleHandler(r)' /\ \A b, c \in OpenBatches' : b = c
  PROVE  AloneInv'
  <1> SUFFICES ASSUME alone'
               PROVE  /\ \A q, p \in Requests : pc'[q] # "idle" /\ pc'[p] # "idle" => q = p
                      /\ \A b, c \in OpenBatches' : b = c
                      /\ \A q \in Requests : SoleHandler(q)'
    BY DEF AloneInv
  <1>1. /\ \A q, p \in Requests : pc'[q] # "idle" /\ pc'[p] # "idle" => q = p
        /\ \A q \in Requests \ {r} : pc'[q] = "idle"
    BY OnlyOne
  <1>2. pc'[r] = next /\ task'[r] = t
    BY ContinueType DEF IInv
  <1>3. \A q \in Requests \ {r} : SoleHandler(q)'
    BY <1>1 DEF SoleHandler
  <1> QED
    BY <1>1, <1>2, <1>3

\* A handler that finishes leaves none that knows anything.
LEMMA SoleFinish ==
  ASSUME IInv, AloneInv, NEW r \in Requests, pc[r] # "idle", Finish(r),
         alone => \A b, c \in OpenBatches' : b = c
  PROVE  AloneInv'
  <1> SUFFICES ASSUME alone'
               PROVE  /\ \A q, p \in Requests : pc'[q] # "idle" /\ pc'[p] # "idle" => q = p
                      /\ \A b, c \in OpenBatches' : b = c
                      /\ \A q \in Requests : SoleHandler(q)'
    BY DEF AloneInv
  <1>1. alone
    BY DEF Finish, Continue
  <1>2. \A q \in Requests : pc'[q] = "idle"
    BY <1>1, ContinueType, NoTaskType DEF Finish, States, IInv, AloneInv
  <1> QED
    BY <1>1, <1>2 DEF SoleHandler

\* Movements of other services touch neither batches nor rows nor handlers.
LEMMA SoleMovement ==
  ASSUME AloneInv, NEW i \in Items, NEW delta \in Deltas, Movement(i, delta)
  PROVE  AloneInv'
  BY DEF AloneInv, SoleHandler, OpenBatches, Counted, Movement

\* What the sole handler knows before its step.
LEMMA SoleKnows ==
  ASSUME IInv, AloneInv, alone, NEW r \in Requests
  PROVE  /\ SoleHandler(r) /\ Knows(pc[r], task[r]) /\ task[r] \in Tasks
         /\ \A b, c \in OpenBatches : b = c
  BY DEF AloneInv, IInv, HandlersKnowTheirBatch, TypeOK

LEMMA StartAlone ==
  ASSUME IInv, AloneInv, NEW r \in Requests, Start(r)
  PROVE  AloneInv'
  <1>1. CASE StartFind(r)
    <2>1. CASE OpenBatches = {} /\ Continue(r, "start_snapshot", NoTask)
      BY <1>1, <2>1, SoleStep, NoTaskType
         DEF StartFind, States, SoleHandler, OpenBatches, table
    <2>2. ASSUME NEW b \in OpenBatches,
                 Continue(r, "start_check", Task(b, batches[b].version, NoRows))
          PROVE  AloneInv'
      <3>1. /\ b \in Batches
            /\ batches[b].version = 1
        BY DEF OpenBatches, IInv, VersionTellsStatus
      <3>2. NoRows \in Sheets
        BY DEF NoRows, Sheets
      <3> DEFINE t == Task(b, 1, NoRows)
      <3>3. t \in Tasks /\ t.batch = b
        BY <3>1, <3>2, TaskType
      <3> HIDE DEF t
      <3>4. Continue(r, "start_check", t)
        BY <2>2, <3>1 DEF t
      <3>5. ASSUME alone', pc'[r] = "start_check", task'[r] = t
            PROVE  SoleHandler(r)' /\ \A c, d \in OpenBatches' : c = d
        <4>1. \A c, d \in OpenBatches : c = d
          BY <3>3, <3>4, <3>5, OnlyOne, SoleKnows DEF States
        <4>2. OpenBatches' = OpenBatches
          BY <1>1 DEF StartFind, table, OpenBatches
        <4> QED
          BY <3>3, <3>5, <4>1, <4>2 DEF SoleHandler
      <3> QED
        BY <3>3, <3>4, <3>5, SoleStep DEF States
    <2> QED
      BY <1>1, <2>1, <2>2 DEF StartFind
  <1>2. CASE StartCheck(r)
    <2>1. pc[r] = "start_check" /\ UNCHANGED table
      BY <1>2 DEF StartCheck
    <2>2. OpenBatches' = OpenBatches /\ rows' = rows
      BY <2>1 DEF table, OpenBatches
    <2>3. CASE Finish(r)
      BY <2>1, <2>2, <2>3, SoleFinish, SoleKnows
    <2>4. CASE Counted(task[r].batch) = {} /\ Continue(r, "start_reap", task[r])
      <3>1. task[r] \in Tasks
        BY DEF IInv, TypeOK
      <3>2. ASSUME alone', pc'[r] = "start_reap", task'[r] = task[r]
            PROVE  SoleHandler(r)' /\ \A c, d \in OpenBatches' : c = d
        <4>1. SoleHandler(r) /\ \A c, d \in OpenBatches : c = d
          BY <2>4, <3>1, <3>2, OnlyOne, SoleKnows DEF States
        <4>2. Counted(task[r].batch)' = {}
          BY <2>2, <2>4, <3>2 DEF Counted
        <4> QED
          BY <2>1, <2>2, <3>2, <4>1, <4>2 DEF SoleHandler
      <3> QED
        BY <2>4, <3>1, <3>2, SoleStep DEF States
    <2> QED
      BY <1>2, <2>3, <2>4 DEF StartCheck
  <1>3. CASE StartReap(r)
    <2>1. Continue(r, "start_snapshot", NoTask)
      BY <1>3 DEF StartReap
    <2>2. ASSUME alone', pc'[r] = "start_snapshot", task'[r] = NoTask
          PROVE  SoleHandler(r)' /\ \A c, d \in OpenBatches' : c = d
      <3> DEFINE b == task[r].batch
      <3>1. alone
        BY <2>1, <2>2, NoTaskType, OnlyOne DEF States
      <3>2. OpenBatches = {b} /\ b \in Batches /\ task[r].version = 1
        BY <1>3, <3>1, SoleKnows DEF SoleHandler, StartReap, Knows
      <3>3. VersionMatches(b, 1)
        BY <3>2 DEF OpenBatches, VersionMatches, IInv, VersionTellsStatus
      <3>4. batches' = Closed(b, 1)
        BY <1>3, <3>2, <3>3 DEF StartReap
      <3>5. /\ batches'[b].status = "CLOSED"
            /\ \A c \in Batches : c # b => batches'[c] = batches[c]
        BY <3>2, <3>3, <3>4, ClosingBatch
      <3>6. OpenBatches' = {}
        BY <3>2, <3>5 DEF OpenBatches
      <3> QED
        BY <2>2, <3>6 DEF SoleHandler
    <2> QED
      BY <2>1, <2>2, NoTaskType, SoleStep DEF States
  <1>4. CASE StartSnapshot(r)
    <2> DEFINE sheet == [i \in Items |-> IF i \in tracked
                                           THEN [expected |-> stock[i], actual |-> Null]
                                           ELSE NoRow]
               t == Task(Null, 0, sheet)
    <2>1. sheet \in Sheets
      BY DEF IInv, TypeOK, Sheets, Row
    <2>2. t \in Tasks
      BY <2>1, TaskType
    <2>3. Continue(r, "start_create", t) /\ pc[r] = "start_snapshot" /\ UNCHANGED table
      BY <1>4 DEF StartSnapshot
    <2> HIDE DEF t
    <2>4. ASSUME alone', pc'[r] = "start_create", task'[r] = t
          PROVE  SoleHandler(r)' /\ \A c, d \in OpenBatches' : c = d
      <3>1. OpenBatches = {}
        BY <2>2, <2>3, <2>4, OnlyOne, SoleKnows DEF States, SoleHandler
      <3>2. OpenBatches' = {}
        BY <2>3, <3>1 DEF table, OpenBatches
      <3> QED
        BY <2>4, <3>2 DEF SoleHandler
    <2> QED
      BY <2>2, <2>3, <2>4, SoleStep DEF States
  <1>5. CASE StartCreate(r)
    <2>1. PICK b \in Batches :
            /\ batches[b].status = "ABSENT"
            /\ batches' = [batches EXCEPT ![b] = [status |-> "OPEN", version |-> 1]]
            /\ Continue(r, "start_fill", Task(b, 0, task[r].sheet))
      BY <1>5 DEF StartCreate
    <2> DEFINE t == Task(b, 0, task[r].sheet)
    <2>2. t \in Tasks /\ t.batch = b
      BY TaskType DEF IInv, TypeOK, Tasks
    <2> HIDE DEF t
    <2>3. Continue(r, "start_fill", t)
      BY <2>1 DEF t
    <2>4. ASSUME alone', pc'[r] = "start_fill", task'[r] = t
          PROVE  SoleHandler(r)' /\ \A c, d \in OpenBatches' : c = d
      <3>1. OpenBatches = {}
        BY <1>5, <2>2, <2>3, <2>4, OnlyOne, SoleKnows DEF States, SoleHandler, StartCreate
      <3>2. OpenBatches' = {b}
        BY <2>1, <3>1 DEF OpenBatches, IInv, TypeOK
      <3> QED
        BY <2>2, <2>4, <3>2 DEF SoleHandler
    <2> QED
      BY <2>2, <2>3, <2>4, SoleStep DEF States
  <1>6. CASE StartFill(r)
    <2>1. pc[r] # "idle" /\ Finish(r) /\ OpenBatches' = OpenBatches
      BY <1>6 DEF StartFill, OpenBatches
    <2> QED
      BY <2>1, SoleFinish, SoleKnows
  <1> QED
    BY <1>1, <1>2, <1>3, <1>4, <1>5, <1>6 DEF Start

\* A handler of a count works on a batch that is OPEN, before its step and after it.
LEMMA OnOpenBatch ==
  ASSUME IInv, AloneInv, NEW r \in Requests, NEW t \in Tasks,
         NEW next \in {"import_match", "write_counts", "close_verify", "close_rows"},
         Continue(r, next, t), UNCHANGED batches,
         alone => t.batch \in OpenBatches
  PROVE  AloneInv'
  <1>1. ASSUME alone', pc'[r] = next, task'[r] = t
        PROVE  SoleHandler(r)' /\ \A c, d \in OpenBatches' : c = d
    <2>1. alone
      BY <1>1, OnlyOne DEF States
    <2>2. OpenBatches' = OpenBatches
      BY DEF OpenBatches
    <2> QED
      BY <1>1, <2>1, <2>2, SoleKnows DEF SoleHandler
  <1> QED
    BY <1>1, SoleStep DEF States

LEMMA CountAlone ==
  ASSUME IInv, AloneInv, NEW r \in Requests, Count(r)
  PROVE  AloneInv'
  <1> DEFINE b == task[r].batch
  <1>1. UNCHANGED batches
    BY DEF Count, SubmitCheck, ImportCheck, ImportMatch, WriteCount, table
  <1>2. CASE SubmitCheck(r)
    <2>1. PICK c \in Batches, d \in Batches, i \in Items, q \in Counts :
            /\ AcceptsCounts(c)
            /\ Continue(r, "write_counts",
                 [Task(c, 0, [NoRows EXCEPT ![i] = [expected |-> 0, actual |-> q]])
                    EXCEPT !.rowsOf = d])
      BY <1>2 DEF SubmitCheck, Counted
    <2> DEFINE sheet == [NoRows EXCEPT ![i] = [expected |-> 0, actual |-> q]]
    <2>2. sheet \in Sheets
      BY CountAssumption DEF NoRows, Sheets, Row
    <2> HIDE DEF sheet
    <2> DEFINE t == [Task(c, 0, sheet) EXCEPT !.rowsOf = d]
    <2>3. t \in Tasks /\ t.batch = c
      BY <2>2 DEF Task, Tasks
    <2>4. Continue(r, "write_counts", t)
      BY <2>1 DEF sheet
    <2> HIDE DEF t
    <2> QED
      BY <1>1, <2>1, <2>3, <2>4, OnOpenBatch DEF AcceptsCounts, OpenBatches
  <1>3. CASE ImportCheck(r)
    <2>1. PICK c \in Batches, lines \in [Items -> Counts \union {Null}] :
            /\ AcceptsCounts(c)
            /\ Continue(r, "import_match",
                 Task(c, 0, [i \in Items |-> IF lines[i] = Null THEN NoRow
                                             ELSE [expected |-> 0, actual |-> lines[i]]]))
      BY <1>3 DEF ImportCheck
    <2> DEFINE sheet == [i \in Items |-> IF lines[i] = Null THEN NoRow
                                         ELSE [expected |-> 0, actual |-> lines[i]]]
    <2>2. \A i \in Items : lines[i] # Null => [expected |-> 0, actual |-> lines[i]] \in Row
      <3> SUFFICES ASSUME NEW i \in Items, lines[i] # Null
                   PROVE  [expected |-> 0, actual |-> lines[i]] \in Row
        OBVIOUS
      <3>1. lines[i] \in Counts
        OBVIOUS
      <3>2. lines[i] \in Int
        BY <3>1, CountAssumption
      <3> QED
        BY <3>2 DEF Row
    <2>3. sheet \in Sheets
      BY <2>2 DEF Sheets
    <2> HIDE DEF sheet
    <2>4. Task(c, 0, sheet) \in Tasks /\ Task(c, 0, sheet).batch = c
      BY <2>3, TaskType
    <2>5. Continue(r, "import_match", Task(c, 0, sheet))
      BY <2>1 DEF sheet
    <2> QED
      BY <1>1, <2>1, <2>4, <2>5, OnOpenBatch DEF AcceptsCounts, OpenBatches
  <1>4. CASE ImportMatch(r)
    <2> DEFINE sheet == [i \in Items |-> IF i \in Counted(b) THEN task[r].sheet[i] ELSE NoRow]
    <2>1. b \in Batches /\ task[r].sheet \in Sheets
      BY <1>4 DEF IInv, HandlersKnowTheirBatch, Knows, ImportMatch, TypeOK, Tasks
    <2>2. sheet \in Sheets
      BY <2>1 DEF Sheets
    <2>3. Continue(r, "write_counts", Task(b, 0, sheet)) /\ pc[r] = "import_match"
      BY <1>4 DEF ImportMatch
    <2> HIDE DEF sheet
    <2>4. Task(b, 0, sheet) \in Tasks /\ Task(b, 0, sheet).batch = b
      BY <2>1, <2>2, TaskType
    <2>5. alone => b \in OpenBatches
      BY <2>3, SoleKnows DEF SoleHandler
    <2> QED
      BY <1>1, <2>3, <2>4, <2>5, OnOpenBatch
  <1>5. CASE WriteCount(r)
    <2>1. pc[r] = "write_counts"
      BY <1>5 DEF WriteCount
    <2>2. task[r] \in Tasks
      BY DEF IInv, TypeOK
    <2>3. CASE Finish(r)
      BY <1>1, <2>1, <2>3, SoleFinish, SoleKnows DEF OpenBatches
    <2>4. ASSUME NEW i \in Items,
                 Continue(r, "write_counts", [task[r] EXCEPT !.sheet[i] = NoRow])
          PROVE  AloneInv'
      <3> DEFINE t == [task[r] EXCEPT !.sheet[i] = NoRow]
      <3>1. t \in Tasks /\ t.batch = b
        BY <2>2 DEF Tasks, Sheets
      <3>2. Continue(r, "write_counts", t)
        BY <2>4
      <3> HIDE DEF t
      <3>3. alone => b \in OpenBatches
        BY <2>1, SoleKnows DEF SoleHandler
      <3> QED
        BY <1>1, <3>1, <3>2, <3>3, OnOpenBatch
    <2> QED
      BY <1>5, <2>3, <2>4 DEF WriteCount, Pending
  <1> QED
    BY <1>2, <1>3, <1>4, <1>5 DEF Count

LEMMA CloseAlone ==
  ASSUME IInv, AloneInv, NEW r \in Requests, Close(r)
  PROVE  AloneInv'
  <1> DEFINE b == task[r].batch
  <1>1. CASE CloseCheck(r)
    <2>1. PICK c \in Batches, v \in Versions :
            /\ batches[c].status \notin {"ABSENT", "CLOSED"}
            /\ Continue(r, "close_verify", Task(c, v, NoRows))
      BY <1>1 DEF CloseCheck
    <2>2. v \in Nat /\ NoRows \in Sheets
      BY CountAssumption DEF NoRows, Sheets
    <2>3. Task(c, v, NoRows) \in Tasks /\ Task(c, v, NoRows).batch = c
      BY <2>2, TaskType
    <2>4. c \in OpenBatches
      BY <2>1 DEF OpenBatches, IInv, TypeOK
    <2> QED
      BY <1>1, <2>1, <2>3, <2>4, OnOpenBatch DEF CloseCheck, table
  <1>2. CASE CloseVerify(r)
    <2>1. pc[r] = "close_verify" /\ UNCHANGED batches
      BY <1>2 DEF CloseVerify, table
    <2>2. alone => b \in OpenBatches
      BY <2>1, SoleKnows DEF SoleHandler
    <2>3. CASE Finish(r)
      BY <2>1, <2>3, SoleFinish, SoleKnows DEF OpenBatches
    <2>4. CASE Continue(r, "close_rows", task[r])
      BY <2>1, <2>2, <2>4, OnOpenBatch DEF IInv, TypeOK
    <2> QED
      BY <1>2, <2>3, <2>4 DEF CloseVerify
  <1>3. CASE CloseReadRows(r)
    <2> DEFINE t == Task(b, task[r].version, rows[b])
    <2>1. /\ pc[r] = "close_rows" /\ UNCHANGED table
          /\ Continue(r, "close_commit", t)
      BY <1>3 DEF CloseReadRows
    <2>2. b \in Batches /\ task[r].version \in Nat /\ rows[b] \in Sheets
      BY <2>1 DEF IInv, TypeOK, HandlersKnowTheirBatch, Knows, Tasks
    <2>3. t \in Tasks /\ t.batch = b /\ t.sheet = rows[b]
      BY <2>2, TaskType
    <2> HIDE DEF t
    <2>4. ASSUME alone', pc'[r] = "close_commit", task'[r] = t
          PROVE  SoleHandler(r)' /\ \A c, d \in OpenBatches' : c = d
      <3>1. b \in OpenBatches /\ \A c, d \in OpenBatches : c = d
        BY <2>1, <2>3, <2>4, OnlyOne, SoleKnows DEF States, SoleHandler
      <3>2. OpenBatches' = OpenBatches /\ rows' = rows
        BY <2>1 DEF table, OpenBatches
      <3> QED
        BY <2>3, <2>4, <3>1, <3>2 DEF SoleHandler
    <2> QED
      BY <2>1, <2>3, <2>4, SoleStep DEF States
  <1>4. CASE CloseCommit(r)
    <2>1. pc[r] = "close_commit" /\ Finish(r)
      BY <1>4 DEF CloseCommit
    <2>2. b \in Batches /\ task[r].version = 1
      BY <2>1 DEF IInv, HandlersKnowTheirBatch, Knows
    <2>3. OpenBatches' \subseteq OpenBatches
      <3>1. CASE VersionMatches(b, 1)
        BY <1>4, <2>2, <3>1, Committing, ClosingBatch DEF OpenBatches
      <3>2. CASE ~VersionMatches(b, 1)
        BY <1>4, <2>2, <3>2 DEF CloseCommit, OpenBatches
      <3> QED
        BY <3>1, <3>2
    <2> QED
      BY <2>1, <2>3, SoleFinish, SoleKnows
  <1> QED
    BY <1>1, <1>2, <1>3, <1>4 DEF Close

\* Until two requests have overlapped, the handler in flight finds the tables as it
\* read them.
THEOREM AloneInvariance == Spec => [](IInv /\ AloneInv)
  <1>1. Init => AloneInv
    BY DEF Init, AloneInv, SoleHandler, OpenBatches
  <1>2. IInv /\ AloneInv /\ [Next]_vars => AloneInv'
    <2> SUFFICES ASSUME IInv, AloneInv, [Next]_vars PROVE AloneInv'
      OBVIOUS
    <2>1. ASSUME NEW i \in Items, NEW delta \in Deltas, Movement(i, delta) PROVE AloneInv'
      BY <2>1, SoleMovement
    <2>2. ASSUME NEW r \in Requests, Start(r) \/ Count(r) \/ Close(r) PROVE AloneInv'
      BY <2>2, StartAlone, CountAlone, CloseAlone
    <2>3. ASSUME NEW r \in Requests, Fail(r) PROVE AloneInv'
      BY <2>3, SoleFinish, SoleKnows DEF Fail, table, OpenBatches
    <2>4. CASE UNCHANGED vars
      BY <2>4 DEF vars, AloneInv, SoleHandler, OpenBatches, Counted
    <2> QED
      BY <2>1, <2>2, <2>3, <2>4 DEF Next
  <1> QED
    BY InitIInv, NextIInv, <1>1, <1>2, PTL DEF Spec

\* "An open count batch already exists": without overlapping requests a restaurant
\* has one OPEN count at most, wherever a start has died.
THEOREM OneOpen == Spec => []OneOpenUnlessRaced
  <1>1. IInv /\ AloneInv => OneOpenUnlessRaced
    BY DEF AloneInv, OpenBatches, OneOpenUnlessRaced
  <1> QED
    BY <1>1, AloneInvariance, PTL

\* A step after which requests have not overlapped starts where they had not.
LEMMA AloneBefore ==
  ASSUME [Next]_vars, alone'
  PROVE  alone
  BY DEF Next, vars, Movement, Start, StartFind, StartCheck, StartReap, StartSnapshot,
     StartCreate, StartFill, Count, SubmitCheck, ImportCheck, ImportMatch, WriteCount,
     Close, CloseCheck, CloseVerify, CloseReadRows, CloseCommit, Fail, Finish, Continue

\* Without overlapping requests, a row is written in a batch that was closed only by a
\* request that names the row with another batch, which is OPEN: the handlers check the
\* batch they are given, and no write reaches a row without an OPEN batch.
THEOREM WritesHitOpenBatches == Spec => WrittenWhileOpen
  <1> DEFINE Elsewhere(b) == \E r \in Requests : /\ pc[r] = "write_counts" /\ task[r].rowsOf = b
                                                 /\ task[r].batch \in OpenBatches \ {b}
  <1>1. IInv /\ AloneInv /\ [Next]_vars =>
          (alone' => \A b \in Batches : rows'[b] # rows[b] =>
             \/ batches[b].status = "OPEN"
             \/ \E r \in Requests : /\ pc[r] = "write_counts" /\ task[r].rowsOf = b
                                   /\ task[r].batch \in OpenBatches \ {b})
    <2> SUFFICES ASSUME IInv, AloneInv, [Next]_vars, alone',
                        NEW b \in Batches, rows'[b] # rows[b]
                 PROVE  batches[b].status = "OPEN" \/ Elsewhere(b)
      OBVIOUS
    <2>1. PICK r \in Requests : StartFill(r) \/ WriteCount(r)
      BY DEF Next, vars, table, Movement, Start, StartFind, StartCheck, StartReap,
         StartSnapshot, StartCreate, Count, SubmitCheck, ImportCheck, ImportMatch,
         Close, CloseCheck, CloseVerify, CloseReadRows, CloseCommit, Fail
    <2>2. task[r].batch \in OpenBatches
      BY <2>1, AloneBefore, SoleKnows DEF SoleHandler, StartFill, WriteCount
    <2>3. CASE StartFill(r)
      <3>1. task[r].batch = b
        BY <2>3 DEF StartFill, IInv, TypeOK
      <3> QED
        BY <2>2, <3>1 DEF OpenBatches
    <2>4. CASE WriteCount(r)
      <3>1. pc[r] = "write_counts" /\ task[r].rowsOf = b
        BY <2>4 DEF WriteCount, IInv, TypeOK
      <3>2. CASE task[r].batch = b
        BY <2>2, <3>2 DEF OpenBatches
      <3>3. CASE task[r].batch # b
        BY <2>2, <3>1, <3>3
      <3> QED
        BY <3>2, <3>3
    <2> QED
      BY <2>1, <2>3, <2>4
  <1> QED
    BY <1>1, AloneInvariance, PTL DEF Spec, WrittenWhileOpen

\* Without overlapping requests, a count books exactly what its rows hold when it is
\* closed; one that a later start reaps has no rows and books nothing.
THEOREM ClosesBookTheCounts == Spec => CloseBooksTheCounts
  <1> DEFINE Booked(b, i) ==
        IF i \in Counted(b) /\ rows[b][i].actual \notin {Null, rows[b][i].expected}
          THEN <<rows[b][i].actual - rows[b][i].expected>>
          ELSE <<>>
  <1>1. ASSUME IInv, AloneInv, [Next]_vars, alone', NEW b \in Batches,
               batches[b].status = "OPEN", batches'[b].status = "CLOSED", NEW i \in Items
        PROVE  adjustments'[b][i] = Booked(b, i)
    <2>1. PICK r \in Requests : StartReap(r) \/ CloseCommit(r)
      BY <1>1 DEF Next, vars, table, Movement, Start, StartFind, StartCheck, StartFill,
         StartSnapshot, StartCreate, Count, SubmitCheck, ImportCheck, ImportMatch,
         WriteCount, Close, CloseCheck, CloseVerify, CloseReadRows, Fail, IInv, TypeOK
    <2>2. SoleHandler(r) /\ Knows(pc[r], task[r]) /\ task[r] \in Tasks
      BY <1>1, AloneBefore, SoleKnows
    <2>3. task[r].batch = b /\ task[r].version = 1
      BY <1>1, <2>1, <2>2
         DEF StartReap, CloseCommit, Knows, Closed, IInv, TypeOK
    <2>4. VersionMatches(b, 1) /\ adjustments[b][i] = <<>>
      BY <1>1 DEF VersionMatches, IInv, VersionTellsStatus, Unbooked
    <2>5. CASE StartReap(r)
      <3>1. Counted(b) = {}
        BY <2>2, <2>3, <2>5 DEF SoleHandler, StartReap
      <3> QED
        BY <2>4, <2>5, <3>1 DEF StartReap
    <2>6. CASE CloseCommit(r)
      <3>1. task[r].sheet = rows[b]
        BY <2>2, <2>3, <2>6 DEF SoleHandler, CloseCommit
      <3>2. adjustments' =
              [adjustments EXCEPT ![b] =
                 [j \in Items |-> IF j \in Varying(rows[b])
                                    THEN Append(adjustments[b][j], Variance(rows[b][j]))
                                    ELSE adjustments[b][j]]]
        BY <2>3, <2>4, <2>6, <3>1 DEF CloseCommit
      <3>3. adjustments'[b][i] = IF i \in Varying(rows[b])
                                   THEN Append(<<>>, Variance(rows[b][i])) ELSE <<>>
        BY <1>1, <2>4, <3>2 DEF IInv, TypeOK
      <3>4. rows[b][i] \in Row \union {NoRow}
        BY <1>1 DEF IInv, TypeOK, Sheets
      <3>5. CASE i \in Counted(b)
        <4>1. /\ rows[b][i] # NoRow /\ rows[b][i] \in Row
              /\ rows[b][i].expected \in Int
              /\ rows[b][i].actual # Null => rows[b][i].actual \in Int
          BY <3>4, <3>5 DEF Counted, Row
        <4>2. CASE rows[b][i].actual \in {Null, rows[b][i].expected}
          <5>1. Variance(rows[b][i]) = 0
            BY <4>1, <4>2 DEF Variance
          <5> QED
            BY <3>3, <4>2, <5>1 DEF Varying
        <4>3. CASE rows[b][i].actual \notin {Null, rows[b][i].expected}
          <5>1. /\ Variance(rows[b][i]) = rows[b][i].actual - rows[b][i].expected
                /\ Variance(rows[b][i]) # 0
            BY <4>1, <4>3 DEF Variance
          <5>2. i \in Varying(rows[b])
            BY <4>1, <5>1 DEF Varying
          <5>3. Append(<<>>, Variance(rows[b][i])) = <<Variance(rows[b][i])>>
            OBVIOUS
          <5> QED
            BY <3>3, <3>5, <4>3, <5>1, <5>2, <5>3
        <4> QED
          BY <4>2, <4>3
      <3>6. CASE i \notin Counted(b)
        BY <3>3, <3>6 DEF Counted, Varying
      <3> QED
        BY <3>5, <3>6
    <2> QED
      BY <2>1, <2>5, <2>6
  <1>2. IInv /\ AloneInv /\ [Next]_vars =>
          (alone' => \A b \in Batches :
             batches[b].status = "OPEN" /\ batches'[b].status = "CLOSED" =>
               \A i \in Items : adjustments'[b][i] = Booked(b, i))
    BY <1>1
  <1> QED
    BY <1>2, AloneInvariance, PTL DEF Spec, CloseBooksTheCounts

-----------------------------------------------------------------------------
(* StockOperations                                                           *)

\* What a NUMERIC(12,2) column keeps of a quantity is a quantity, and a number and its
\* negation are rounded alike.
LEMMA StoredType ==
  ASSUME NEW q \in Quantities
  PROVE  /\ Stored(q) \in Nat
         /\ Stored(-q) = -Stored(q)
         /\ q \in Int /\ q # 0
<1>1. q \in Nat \ {0}  BY StockAssumption DEF StockAssumption
<1>2. Stored(q) = (q + 5) \div 10  BY <1>1 DEF Stored
<1>3. (q + 5) \div 10 \in Nat  BY <1>1, SMTT(30)
<1>4. Stored(-q) = -((5 - (-q)) \div 10)  BY <1>1 DEF Stored
<1>5. 5 - (-q) = q + 5  BY <1>1
<1> QED  BY <1>1, <1>2, <1>3, <1>4, <1>5

\* The rows the service writes are rows of the tables, and no row is "no row".
LEMMA RowsAreRows ==
  /\ \A row \in Transfer : row # Absent
  /\ \A log \in Log : log # Absent
  /\ \A t \in TransferIds, row \in Transfer : [id |-> t, row |-> row] # Absent
BY StockAssumption DEF StockAssumption, Transfer, Log

LEMMA StockInitIInv == StockInit => StockIInv
<1> SUFFICES ASSUME StockInit PROVE StockIInv  OBVIOUS
<1>1. StockTypeOK  BY DEF StockInit, StockTypeOK, Refs
<1>2. LogsAreBooked  BY DEF StockInit, LogsAreBooked, Refs
<1>3. ReadRows /\ RacesAreSeen /\ StillPending
  BY DEF StockInit, ReadRows, RacesAreSeen, StillPending
<1>4. TransferredOnceUnlessRaced
  BY DEF StockInit, TransferredOnceUnlessRaced, Refs
<1> QED  BY <1>1, <1>2, <1>3, <1>4 DEF StockIInv

LEMMA CreateTransferKeeps ==
  ASSUME StockIInv, NEW from \in Restaurants, NEW to \in Restaurants,
         NEW item \in StockItems,
         NEW q \in Quantities, CreateTransfer(from, to, item, q)
  PROVE  StockIInv'
<1>0. StockTypeOK  BY DEF StockIInv
<1> DEFINE row == [from |-> from, to |-> to, item |-> item, qty |-> Stored(q),
                   status |-> "PENDING"]
<1>1. PICK t \in TransferIds :
        /\ transfers[t] = Absent
        /\ transfers' = [transfers EXCEPT ![t] = row]
  BY DEF CreateTransfer
<1>2. UNCHANGED <<logs, ledger, step, call, raced>>  BY DEF CreateTransfer
<1>3. row \in Transfer  BY StoredType, StockAssumption DEF StockAssumption, Transfer
<1>4. StockTypeOK'  BY <1>0, <1>1, <1>2, <1>3 DEF StockTypeOK
<1>5. LogsAreBooked'  BY <1>2 DEF StockIInv, LogsAreBooked, LogEntry
<1>6. \A r \in Calls : step[r] # "idle" => call[r].id # t
  BY <1>1 DEF StockIInv, ReadRows
<1>7. ReadRows'  BY <1>0, <1>1, <1>2, <1>6 DEF StockIInv, ReadRows, StockTypeOK
<1>8. RacesAreSeen'  BY <1>2 DEF StockIInv, RacesAreSeen
<1>9. StillPending'
  BY <1>0, <1>1, <1>2, <1>6 DEF StockIInv, StillPending, StockTypeOK
<1>10. TransferredOnceUnlessRaced'
  <2> SUFFICES ASSUME NEW u \in TransferIds \ raced'
               PROVE  ledger'[u] = IF transfers'[u] = Absent \/ transfers'[u].status = "PENDING"
                                   THEN <<>> ELSE Pair(transfers'[u])
    BY DEF TransferredOnceUnlessRaced, Pair
  <2>1. ledger[u] = IF transfers[u] = Absent \/ transfers[u].status = "PENDING"
                    THEN <<>> ELSE Pair(transfers[u])
    BY <1>2 DEF StockIInv, TransferredOnceUnlessRaced
  <2>2. CASE u = t  BY <1>0, <1>1, <1>2, <2>1, <2>2 DEF StockTypeOK
  <2>3. CASE u # t  BY <1>0, <1>1, <1>2, <2>1, <2>3 DEF StockTypeOK
  <2> QED  BY <2>2, <2>3
<1> QED  BY <1>4, <1>5, <1>7, <1>8, <1>9, <1>10 DEF StockIInv

LEMMA ReadTransferKeeps ==
  ASSUME StockIInv, NEW r \in Calls, NEW t \in TransferIds,
         ReadTransfer(r, t)
  PROVE  StockIInv'
<1>0. StockTypeOK  BY DEF StockIInv
<1>1. /\ step[r] = "idle" /\ transfers[t] # Absent /\ transfers[t].status = "PENDING"
      /\ step' = [step EXCEPT ![r] = "complete"]
      /\ call' = [call EXCEPT ![r] = [id |-> t, row |-> transfers[t]]]
      /\ raced' = raced \cup {u \in {t} : \E q \in Calls : step[q] # "idle" /\ call[q].id = t}
      /\ transfers' = transfers /\ logs' = logs /\ ledger' = ledger
  BY DEF ReadTransfer, tables
<1>2. transfers[t] \in Transfer  BY <1>0, <1>1 DEF StockTypeOK
<1>3. StockTypeOK'  BY <1>0, <1>1, <1>2 DEF StockTypeOK
<1>4. LogsAreBooked'  BY <1>1 DEF StockIInv, LogsAreBooked, LogEntry
<1>5. call'[r] = [id |-> t, row |-> transfers[t]] /\ step'[r] = "complete"
  BY <1>0, <1>1 DEF StockTypeOK
<1>6. \A q \in Calls \ {r} : call'[q] = call[q] /\ step'[q] = step[q]
  BY <1>0, <1>1 DEF StockTypeOK
<1>7. ReadRows'
  <2> SUFFICES ASSUME NEW q \in Calls
               PROVE  IF step'[q] = "idle" THEN call'[q] = Absent
                      ELSE /\ call'[q] # Absent
                           /\ call'[q].row.status = "PENDING"
                           /\ transfers'[call'[q].id] # Absent
                           /\ call'[q].row =
                                [transfers'[call'[q].id] EXCEPT !.status = "PENDING"]
    BY DEF ReadRows
  <2>1. CASE q # r  BY <1>1, <1>6, <2>1 DEF StockIInv, ReadRows
  <2>2. CASE q = r
    <3>1. transfers[t] = [transfers[t] EXCEPT !.status = "PENDING"]
      BY <1>1, <1>2 DEF Transfer
    <3> QED  BY <1>1, <1>2, <1>5, <2>2, <3>1, RowsAreRows
  <2> QED  BY <2>1, <2>2
<1>8. RacesAreSeen'
  <2> SUFFICES ASSUME NEW a \in Calls, NEW b \in Calls, a # b, step'[a] # "idle",
                      step'[b] # "idle", call'[a].id = call'[b].id
               PROVE  call'[a].id \in raced'
    BY DEF RacesAreSeen
  <2>1. CASE a # r /\ b # r  BY <1>1, <1>6, <2>1 DEF StockIInv, RacesAreSeen
  <2>2. CASE a = r  BY <1>1, <1>5, <1>6, <2>2
  <2>3. CASE b = r  BY <1>1, <1>5, <1>6, <2>3
  <2> QED  BY <2>1, <2>2, <2>3
<1>9. StillPending'
  BY <1>1, <1>5, <1>6 DEF StockIInv, StillPending
<1>10. TransferredOnceUnlessRaced'
  BY <1>1 DEF StockIInv, TransferredOnceUnlessRaced, Pair
<1> QED  BY <1>3, <1>4, <1>7, <1>8, <1>9, <1>10 DEF StockIInv

\* A call that ends keeps what the others know, whatever becomes of the transfer's
\* status: a transfer that did not race had no other call.
LEMMA DoneKeeps ==
  ASSUME StockIInv, NEW r \in Calls, Done(r), step[r] = "complete",
         StockTypeOK',
         transfers' = transfers
           \/ transfers' = [transfers EXCEPT ![call[r].id].status = "COMPLETED"]
  PROVE  ReadRows' /\ RacesAreSeen' /\ StillPending'
<1>0. StockTypeOK  BY DEF StockIInv
<1>1. /\ step' = [step EXCEPT ![r] = "idle"]
      /\ call' = [call EXCEPT ![r] = Absent]
      /\ raced' = raced
  BY DEF Done
<1>2. step'[r] = "idle" /\ call'[r] = Absent  BY <1>0, <1>1 DEF StockTypeOK
<1>3. \A q \in Calls \ {r} : call'[q] = call[q] /\ step'[q] = step[q]
  BY <1>0, <1>1 DEF StockTypeOK
<1>4. call[r] \in [id : TransferIds,
  row : Transfer] /\ transfers[call[r].id] \in Transfer
  BY <1>0 DEF StockIInv, StockTypeOK, ReadRows
<1>5. \A t \in TransferIds : transfers[t] # Absent =>
        /\ transfers'[t] # Absent
        /\ [transfers'[t] EXCEPT !.status = "PENDING"] =
             [transfers[t] EXCEPT !.status = "PENDING"]
        /\ t # call[r].id => transfers'[t] = transfers[t]
  <2> SUFFICES ASSUME NEW t \in TransferIds, transfers[t] # Absent
               PROVE  /\ transfers'[t] # Absent
                      /\ [transfers'[t] EXCEPT !.status = "PENDING"] =
                           [transfers[t] EXCEPT !.status = "PENDING"]
                      /\ t # call[r].id => transfers'[t] = transfers[t]
    OBVIOUS
  <2>1. CASE transfers' = transfers  BY <2>1
  <2>2. CASE transfers' = [transfers EXCEPT ![call[r].id].status = "COMPLETED"]
    <3>1. CASE t # call[r].id  BY <1>0, <2>2, <3>1 DEF StockTypeOK
    <3>2. CASE t = call[r].id
      <4>1. transfers'[t] = [transfers[t] EXCEPT !.status = "COMPLETED"]
        BY <1>0, <2>2, <3>2 DEF StockTypeOK
      <4>2. transfers[t] \in Transfer  BY <1>4, <3>2
      <4>3. transfers'[t] \in Transfer
        BY <4>1, <4>2, StockAssumption DEF StockAssumption, Transfer
      <4> QED  BY <3>2, <4>1, <4>2, <4>3, RowsAreRows DEF Transfer
    <3> QED  BY <3>1, <3>2
  <2> QED  BY <2>1, <2>2
<1>6. ReadRows'
  <2> SUFFICES ASSUME NEW q \in Calls
               PROVE  IF step'[q] = "idle" THEN call'[q] = Absent
                      ELSE /\ call'[q] # Absent
                           /\ call'[q].row.status = "PENDING"
                           /\ transfers'[call'[q].id] # Absent
                           /\ call'[q].row =
                                [transfers'[call'[q].id] EXCEPT !.status = "PENDING"]
    BY DEF ReadRows
  <2>1. CASE q = r  BY <1>2, <2>1
  <2>2. CASE q # r
    <3>1. CASE step[q] = "idle"  BY <1>3, <2>2, <3>1 DEF StockIInv, ReadRows
    <3>2. CASE step[q] # "idle"
      <4>1. /\ call[q] # Absent /\ call[q].row.status = "PENDING"
            /\ transfers[call[q].id] # Absent
            /\ call[q].row = [transfers[call[q].id] EXCEPT !.status = "PENDING"]
        BY <3>2 DEF StockIInv, ReadRows
      <4>2. call[q].id \in TransferIds  BY <1>0, <4>1 DEF StockTypeOK
      <4> QED  BY <1>3, <1>5, <2>2, <3>2, <4>1, <4>2
    <3> QED  BY <3>1, <3>2
  <2> QED  BY <2>1, <2>2
<1>7. RacesAreSeen'  BY <1>1, <1>2, <1>3 DEF StockIInv, RacesAreSeen
<1>8. StillPending'
  <2> SUFFICES ASSUME NEW q \in Calls, step'[q] # "idle", call'[q].id \notin raced'
               PROVE  transfers'[call'[q].id].status = "PENDING"
    BY DEF StillPending
  <2>1. q # r /\ step[q] # "idle" /\ call'[q] = call[q]  BY <1>2, <1>3
  <2>2. call[q].id # call[r].id  BY <1>1, <2>1 DEF StockIInv, RacesAreSeen
  <2>3. transfers[call[q].id].status = "PENDING"
    BY <1>1, <2>1 DEF StockIInv, StillPending
  <2>4. call[q].id \in TransferIds /\ transfers[call[q].id] # Absent
    BY <1>0, <2>1 DEF StockIInv, StockTypeOK, ReadRows
  <2> QED  BY <1>5, <2>1, <2>2, <2>3, <2>4
<1> QED  BY <1>6, <1>7, <1>8

LEMMA CompleteTransferKeeps ==
  ASSUME StockIInv, NEW r \in Calls, CompleteTransfer(r)
  PROVE  StockIInv'
<1>0. StockTypeOK  BY DEF StockIInv
<1> DEFINE t == call[r].id
           row == call[r].row
<1>1. /\ step[r] = "complete" /\ Done(r)
      /\ {"TRANSFER_OUT", "TRANSFER_IN"} \subseteq ReasonCodes
      /\ transfers' = [transfers EXCEPT ![t].status = "COMPLETED"]
      /\ ledger' = [ledger EXCEPT ![t] = @ \o Pair(row)]
  BY DEF CompleteTransfer
<1>2. /\ step' = [step EXCEPT ![r] = "idle"] /\ call' = [call EXCEPT ![r] = Absent]
      /\ logs' = logs /\ raced' = raced
  BY <1>1 DEF Done
<1>3. /\ t \in TransferIds /\ row \in Transfer /\ transfers[t] \in Transfer
      /\ row = [transfers[t] EXCEPT !.status = "PENDING"]
  BY <1>0, <1>1 DEF StockIInv, StockTypeOK, ReadRows
<1>4. /\ transfers'[t] = [transfers[t] EXCEPT !.status = "COMPLETED"]
      /\ transfers'[t] \in Transfer
      /\ \A u \in TransferIds \ {t} : transfers'[u] = transfers[u]
  BY <1>0, <1>1, <1>3, StockAssumption DEF StockAssumption, StockTypeOK, Transfer
<1>5. t \in Refs /\ ledger'[t] = ledger[t] \o Pair(row)
      /\ \A ref \in Refs \ {t} : ledger'[ref] = ledger[ref]
  BY <1>0, <1>1, <1>3 DEF StockTypeOK, Refs
<1>6. Pair(row) \in Seq(Entry)
  <2>1. /\ row.from \in Restaurants /\ row.to \in Restaurants /\ row.item \in StockItems
        /\ row.qty \in Int /\ -row.qty \in Int
    BY <1>3 DEF Transfer
  <2>2. [restaurant |-> row.from, item |-> row.item, amount |-> -row.qty,
         reason |-> "TRANSFER_OUT"] \in Entry
    BY <1>1, <2>1 DEF Entry
  <2>3. [restaurant |-> row.to, item |-> row.item, amount |-> row.qty,
         reason |-> "TRANSFER_IN"] \in Entry
    BY <1>1, <2>1 DEF Entry
  <2> QED  BY <2>2, <2>3 DEF Pair
<1>7. StockTypeOK'
  <2>1. transfers' \in [TransferIds -> Transfer \cup {Absent}]
    BY <1>0, <1>1, <1>3, <1>4 DEF StockTypeOK
  <2>2. ledger[t] \o Pair(row) \in Seq(Entry)
    BY <1>0, <1>5, <1>6 DEF StockTypeOK
  <2>3. ledger' \in [Refs -> Seq(Entry)]  BY <1>0, <1>1, <2>2 DEF StockTypeOK
  <2> QED  BY <1>0, <1>2, <2>1, <2>3 DEF StockTypeOK
<1>8. LogsAreBooked'
  BY <1>2, <1>3, <1>5, StockAssumption DEF StockAssumption, StockIInv, LogsAreBooked, LogEntry,
     Refs
<1>9. ReadRows' /\ RacesAreSeen' /\ StillPending'  BY <1>1, <1>7, DoneKeeps
<1>10. TransferredOnceUnlessRaced'
  <2> SUFFICES ASSUME NEW u \in TransferIds \ raced'
               PROVE  ledger'[u] = IF transfers'[u] = Absent \/ transfers'[u].status = "PENDING"
                                   THEN <<>> ELSE Pair(transfers'[u])
    BY DEF TransferredOnceUnlessRaced, Pair
  <2>1. ledger[u] = IF transfers[u] = Absent \/ transfers[u].status = "PENDING"
                    THEN <<>> ELSE Pair(transfers[u])
    BY <1>2 DEF StockIInv, TransferredOnceUnlessRaced
  <2>2. CASE u # t  BY <1>4, <1>5, <2>1, <2>2 DEF Refs
  <2>3. CASE u = t
    <3>1. transfers[t].status = "PENDING"
      BY <1>1, <1>2, <2>3 DEF StockIInv, StillPending
    <3>2. ledger'[t] = <<>> \o Pair(row)  BY <1>5, <2>1, <2>3, <3>1
    <3>3. <<>> \o Pair(row) = Pair(row)  BY <1>6
    <3>4. Pair(row) = Pair(transfers'[t])
      BY <1>3, <1>4 DEF Pair, Transfer
    <3>5. transfers'[t] # Absent /\ transfers'[t].status # "PENDING"
      BY <1>3, <1>4, RowsAreRows DEF Transfer
    <3> QED  BY <2>3, <3>2, <3>3, <3>4, <3>5
  <2> QED  BY <2>2, <2>3
<1> QED  BY <1>7, <1>8, <1>9, <1>10 DEF StockIInv

LEMMA CompletionFailsKeeps ==
  ASSUME StockIInv, NEW r \in Calls, CompletionFails(r)
  PROVE  StockIInv'
<1>0. StockTypeOK  BY DEF StockIInv
<1>1. /\ step[r] = "complete" /\ Done(r) /\ transfers' = transfers /\ ledger' = ledger
      /\ step' = [step EXCEPT ![r] = "idle"] /\ call' = [call EXCEPT ![r] = Absent]
      /\ logs' = logs /\ raced' = raced
  BY DEF CompletionFails, Done
<1>2. StockTypeOK'  BY <1>0, <1>1 DEF StockTypeOK
<1>3. LogsAreBooked'  BY <1>1 DEF StockIInv, LogsAreBooked, LogEntry
<1>4. ReadRows' /\ RacesAreSeen' /\ StillPending'  BY <1>1, <1>2, DoneKeeps
<1>5. TransferredOnceUnlessRaced'
  BY <1>1 DEF StockIInv, TransferredOnceUnlessRaced, Pair
<1> QED  BY <1>2, <1>3, <1>4, <1>5 DEF StockIInv

\* A log and its entry are written together: the entry is what LogEntry says of it.
LEMMA WriteLogKeeps ==
  ASSUME StockIInv, NEW restaurant \in Restaurants, NEW item \in StockItems,
         NEW q \in Quantities,
         NEW reason, NEW sign \in {1, -1}, sign = -1 <=> reason = "WASTE",
         WriteLog(restaurant, item, q, reason, sign)
  PROVE  StockIInv'
<1>0. StockTypeOK  BY DEF StockIInv
<1> DEFINE log == [restaurant |-> restaurant, item |-> item, qty |-> Stored(q),
                   reason |-> reason]
           entry == [restaurant |-> restaurant, item |-> item,
             amount |-> Stored(sign * q),
                     reason |-> reason]
<1>1. PICK l \in LogIds :
        /\ logs[l] = Absent
        /\ logs' = [logs EXCEPT ![l] = log]
        /\ Recorded(l, restaurant, item, sign * q, reason)
  BY DEF WriteLog
<1>2. transfers' = transfers /\ step' = step /\ call' = call /\ raced' = raced
  BY DEF WriteLog
<1>3. reason \in ReasonCodes /\ ledger' = [ledger EXCEPT ![l] = Append(@, entry)]
  BY <1>1 DEF Recorded
<1>4. /\ Stored(q) \in Nat
      /\ Stored(sign * q) = IF reason = "WASTE" THEN -Stored(q) ELSE Stored(q)
  <2>1. Stored(q) \in Nat /\ Stored(-q) = -Stored(q) /\ q \in Int
    BY StoredType
  <2>2. CASE sign = 1
    <3>1. sign * q = q  BY <2>1, <2>2
    <3> QED  BY <2>1, <2>2, <3>1
  <2>3. CASE sign = -1
    <3>1. sign * q = -q  BY <2>1, <2>3
    <3> QED  BY <2>1, <2>3, <3>1
  <2> QED  BY <2>2, <2>3
<1>5. log \in Log /\ entry \in Entry  BY <1>3, <1>4 DEF Log, Entry
<1>6. l \in Refs /\ l \notin TransferIds  BY StockAssumption DEF StockAssumption, Refs
<1>7. StockTypeOK'
  <2>1. logs' \in [LogIds -> Log \cup {Absent}]  BY <1>0, <1>1, <1>5 DEF StockTypeOK
  <2>2. Append(ledger[l], entry) \in Seq(Entry)  BY <1>0, <1>5, <1>6 DEF StockTypeOK
  <2>3. ledger' \in [Refs -> Seq(Entry)]  BY <1>0, <1>3, <2>2 DEF StockTypeOK
  <2> QED  BY <1>0, <1>2, <2>1, <2>3 DEF StockTypeOK
<1>8. LogsAreBooked'
  <2> SUFFICES ASSUME NEW k \in LogIds
               PROVE  ledger'[k] = IF logs'[k] = Absent THEN <<>> ELSE LogEntry(logs'[k])
    BY DEF LogsAreBooked, LogEntry
  <2>1. ledger[k] = IF logs[k] = Absent THEN <<>> ELSE LogEntry(logs[k])
    BY DEF StockIInv, LogsAreBooked
  <2>2. CASE k # l  BY <1>0, <1>1, <1>3, <2>1, <2>2 DEF StockTypeOK
  <2>3. CASE k = l
    <3>1. logs'[l] = log /\ log # Absent  BY <1>0, <1>1, <1>5, RowsAreRows DEF StockTypeOK
    <3>2. ledger'[l] = Append(<<>>, entry)
      BY <1>0, <1>1, <1>3, <1>6, <2>1, <2>3 DEF StockTypeOK
    <3>3. Append(<<>>, entry) = <<entry>>  OBVIOUS
    <3>4. LogEntry(log) = <<entry>>  BY <1>4 DEF LogEntry
    <3> QED  BY <2>3, <3>1, <3>2, <3>3, <3>4
  <2> QED  BY <2>2, <2>3
<1>9. ReadRows' /\ RacesAreSeen' /\ StillPending'
  BY <1>2 DEF StockIInv, ReadRows, RacesAreSeen, StillPending
<1>10. TransferredOnceUnlessRaced'
  BY <1>0, <1>2, <1>3, <1>6 DEF StockIInv, TransferredOnceUnlessRaced, Pair,
     StockTypeOK, Refs
<1> QED  BY <1>7, <1>8, <1>9, <1>10 DEF StockIInv

LEMMA StockNextKeeps == StockIInv /\ [StockNext]_stockVars => StockIInv'
<1> SUFFICES ASSUME StockIInv, [StockNext]_stockVars PROVE StockIInv'  OBVIOUS
<1>1. ASSUME NEW from \in Restaurants, NEW to \in Restaurants, NEW i \in StockItems,
             NEW q \in Quantities, CreateTransfer(from, to, i, q)
      PROVE  StockIInv'
  BY <1>1, CreateTransferKeeps
<1>2. ASSUME NEW p \in Restaurants, NEW i \in StockItems, NEW q \in Quantities,
             \/ CreateWasteLog(p, i, q)
             \/ CreatePrepLog(p, i, q)
             \/ RecordOpeningBalance(p, i, q)
      PROVE  StockIInv'
  <2>1. CASE CreateWasteLog(p, i, q)
    BY <2>1, WriteLogKeeps DEF CreateWasteLog
  <2>2. CASE CreatePrepLog(p, i, q)
    BY <2>2, WriteLogKeeps, "PREP_PRODUCTION" # "WASTE" DEF CreatePrepLog
  <2>3. CASE RecordOpeningBalance(p, i, q)
    BY <2>3, WriteLogKeeps, "OPENING_BALANCE" # "WASTE" DEF RecordOpeningBalance
  <2> QED  BY <1>2, <2>1, <2>2, <2>3
<1>3. ASSUME NEW r \in Calls, NEW t \in TransferIds, ReadTransfer(r, t)
      PROVE  StockIInv'
  BY <1>3, ReadTransferKeeps
<1>4. ASSUME NEW r \in Calls, CompleteTransfer(r) PROVE StockIInv'
  BY <1>4, CompleteTransferKeeps
<1>5. ASSUME NEW r \in Calls, CompletionFails(r) PROVE StockIInv'
  BY <1>5, CompletionFailsKeeps
<1>6. CASE UNCHANGED stockVars
  BY <1>6 DEF stockVars, StockIInv, StockTypeOK, LogsAreBooked, LogEntry,
     ReadRows, RacesAreSeen, StillPending, TransferredOnceUnlessRaced,
     Pair
<1> QED  BY <1>1, <1>2, <1>3, <1>4, <1>5, <1>6 DEF StockNext

\* The inductive invariant: a call in flight has read the row that is there, up to its
\* status, and a transfer that never raced is still PENDING when its call commits.
THEOREM StockInvariance == StockSpec => []StockIInv
BY StockInitIInv, StockNextKeeps, PTL DEF StockSpec

\* Whatever calls run at once and whatever the schema accepts, every waste log,
\* preparation and opening balance is in the ledger exactly once, with the quantity of
\* its row (createWasteLog, createPrepLog, recordOpeningBalance and LedgerService.record):
\* also one of 0.00, which record refuses only before the column has rounded it.
THEOREM LogsBooked == StockSpec => []LogsAreBooked
<1>1. StockIInv => LogsAreBooked  BY DEF StockIInv
<1> QED  BY StockInvariance, <1>1, PTL

\* A transfer that completeTransfer has never been completing twice at once is booked
\* exactly once when it is COMPLETED, and not before.
THEOREM TransferredOnce == StockSpec => []TransferredOnceUnlessRaced
<1>1. StockIInv => TransferredOnceUnlessRaced  BY DEF StockIInv
<1> QED  BY StockInvariance, <1>1, PTL
=============================================================================
