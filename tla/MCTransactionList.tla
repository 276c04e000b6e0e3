-------------------------- MODULE MCTransactionList --------------------------
(* Model checking TransactionList: two months, one of which takes in all the  *)
(* rows, so that its query has two pages, and two rows that tie where the     *)
(* first page ends.                                                           *)
EXTENDS TransactionList

MCWindow == [s \in Selections |-> IF s = "june" THEN Rows ELSE {1}]
MCSortKey == [r \in Rows |-> IF r = 1 THEN 1 ELSE 2]
=============================================================================
