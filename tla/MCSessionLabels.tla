--------------------------- MODULE MCSessionLabels ---------------------------
(* A small instance of SessionLabels: two levels, the taint bit and one    *)
(* other category, resources that are incomparable with each other; and    *)
(* words of four bits.                                                     *)
EXTENDS SessionLabels

Taint == [c |-> 0, i |-> 0, k |-> {TaintBit}]
MCInputs == {Taint, [c |-> 1, i |-> 0, k |-> {}], [c |-> 0, i |-> 1, k |-> {}]}
MCParents == {ZeroLabel, Taint}
=============================================================================
