---------------------------- MODULE MCBatchProgress ----------------------------
(* Two chunks of a row each, one for a channel of each kind.                   *)
EXTENDS BatchProgress

OfRow == [r1 |-> "c1", r2 |-> "c2"]
=============================================================================
