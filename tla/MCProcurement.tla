---------------------------- MODULE MCProcurement ----------------------------
(* Model checking Procurement: the orders and deliveries clients send.       *)
EXTENDS Procurement, TLC

CONSTANTS i1, i2

OneLine(item) == <<[item |-> item, ordered |-> 2, price |-> 250]>>

\* Two lines; two lines for one item; a freight whose share per unit is a fraction.
Mixed == {[freight |-> 0, lines |-> OneLine(i1) \o OneLine(i2)],
          [freight |-> 0, lines |-> OneLine(i1) \o OneLine(i1)],
          [freight |-> 150, lines |-> OneLine(i1)]}

Deliver(item, qty) == [item |-> item, qty |-> qty]

\* A delivery of 0, and one that names an item twice besides another.
Odd == {<<Deliver(i1, 0)>>, <<Deliver(i1, 1), Deliver(i2, 1), Deliver(i1, 2)>>}

\* Every delivery matches the only line an order has.
OneItemForms == {[freight |-> 0, lines |-> OneLine(i1)]}
OneItemDeliveries == {<<Deliver(i1, 2)>>}
=============================================================================
