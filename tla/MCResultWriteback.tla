-------------------------- MODULE MCResultWriteback --------------------------
(***************************************************************************)
(* Instances of ResultWriteback for TLC: results of different rows, and    *)
(* two results of one row (two copies of a message).                       *)
(***************************************************************************)
EXTENDS ResultWriteback, TLC

CONSTANTS i1, i2, i3, l1, l2, l3

RowOfEach == (i1 :> l1) @@ (i2 :> l2) @@ (i3 :> l3)
OwnRow == [i \in Item |-> RowOfEach[i]]
SharedRow == [i \in Item |-> l1]

Symmetry == Permutations(Timer) \cup Permutations(Worker)

\* The results and rows 1 and 2 may change places, each result with its row.
Swap == (i1 :> i2) @@ (i2 :> i1) @@ (l1 :> l2) @@ (l2 :> l1)
OwnRowSymmetry == Symmetry \cup {Swap}

=============================================================================
