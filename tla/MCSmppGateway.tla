---------------------------- MODULE MCSmppGateway ----------------------------
(***************************************************************************)
(* Instances of SmppGateway for TLC. Deliveries, slots and sessions are    *)
(* interchangeable; so are the messages, except in the temporal runs,      *)
(* which use no symmetry.                                                  *)
(***************************************************************************)
EXTENDS SmppGateway, TLC

Symmetry == Permutations(Msg) \cup Permutations(Delivery)
            \cup Permutations(Seq) \cup Permutations(Session)

=============================================================================
