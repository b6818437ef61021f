----------------------------- MODULE MCDataOrders -----------------------------
(* Two customers: ann buys to stock and a combo, bob buys both numbers and    *)
(* sends; one number came without an import batch.                            *)
EXTENDS DataOrders

ByPurchase == [p1 |-> "ann", p2 |-> "bob", p3 |-> "ann"]
KindOfPurchase == [p1 |-> "stock", p2 |-> "send", p3 |-> "combo"]
QuantityOfPurchase == [p1 |-> 1, p2 |-> 2, p3 |-> 1]
=============================================================================
