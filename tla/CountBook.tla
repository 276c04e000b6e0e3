------------------------------ MODULE CountBook ------------------------------
(***************************************************************************)
(* What a stock count promises, without requests, versions or rows: a      *)
(* count is opened, and later it is closed.  Closing is the only step that *)
(* books anything for it, it books every adjustment of the count in one    *)
(* step, at most one per item, and it happens once.                        *)
(***************************************************************************)
EXTENDS Integers, Sequences

CONSTANTS
  Batches, \* the identifiers a count batch can get
  Items    \* the catalogue items that can be counted

VARIABLES
  status,  \* status[b]: "ABSENT", "OPEN" or "CLOSED"
  booked   \* booked[b][i]: the amounts booked for item i by count b

bookVars == <<status, booked>>

Nothing == [i \in Items |-> <<>>]

Init ==
  /\ status = [b \in Batches |-> "ABSENT"]
  /\ booked = [b \in Batches |-> Nothing]

Open(b) ==
  /\ status[b] = "ABSENT"
  /\ status' = [status EXCEPT ![b] = "OPEN"]
  /\ UNCHANGED booked

\* For an item a closed count books nothing, or one amount that is not zero.
AtMostOneAmount(s) == s = <<>> \/ (s[1] \in Int \ {0} /\ s = <<s[1]>>)

\* The amounts are whatever the count found.
Close(b) ==
  /\ status[b] = "OPEN"
  /\ status' = [status EXCEPT ![b] = "CLOSED"]
  /\ booked[b] = Nothing
  /\ DOMAIN booked'[b] = Items
  /\ \A i \in Items : AtMostOneAmount(booked'[b][i])
  /\ booked' = [booked EXCEPT ![b] = booked'[b]]

Next == \E b \in Batches : Open(b) \/ Close(b)

Spec == Init /\ [][Next]_bookVars
=============================================================================
