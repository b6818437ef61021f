---------------------------- MODULE MCSmppInbound ----------------------------
(* Two sessions of one customer, a short message and a long one. Beside the   *)
(* transceiver there is a receiver, or a transmitter.                         *)
EXTENDS SmppInbound

TwoBinds == {[s1 |-> "TRX", s2 |-> "RX"], [s1 |-> "TRX", s2 |-> "TX"]}
=============================================================================
