---------------------------- MODULE MCBatchCharging ----------------------------
(* Two chunks of one batch: one of two numbers, for which the balance is too  *)
(* low, so that it charges one by one; and one of a number given without its  *)
(* "+" and of one that fails the checks.                                      *)
EXTENDS BatchCharging

OfNumber == [n1 |-> "c1", n2 |-> "c1", n3 |-> "c2", n4 |-> "c2"]
=============================================================================
