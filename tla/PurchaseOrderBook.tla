------------------------- MODULE PurchaseOrderBook -------------------------
(***************************************************************************)
(* What procurement promises of a purchase order: it goes once from DRAFT  *)
(* over SUBMITTED to RECEIVED or is CANCELLED on the way, and stock is     *)
(* booked for it at most once, only when it is RECEIVED.                   *)
(***************************************************************************)
EXTENDS Integers, Sequences

VARIABLES
  status,   \* "ABSENT" before the order is placed
  booked    \* the receipts booked for the order, each all the lots of one

orderVars == <<status, booked>>

Init == status = "ABSENT" /\ booked = <<>>

Step(from, to) == status \in from /\ status' = to /\ UNCHANGED booked

\* One receipt, of whatever was delivered.
Book ==
  /\ status = "RECEIVED"
  /\ booked = <<>>
  /\ Len(booked') = 1
  /\ UNCHANGED status

Next ==
  \/ Step({"ABSENT"}, "DRAFT")
  \/ Step({"DRAFT"}, "SUBMITTED")
  \/ Step({"SUBMITTED"}, "RECEIVED")
  \/ Step({"DRAFT", "SUBMITTED"}, "CANCELLED")
  \/ Book

Spec == Init /\ [][Next]_orderVars
=============================================================================
