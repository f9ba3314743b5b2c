---------------------------- MODULE SecurityLabel ----------------------------
(***************************************************************************)
(* The security label of internal/ifc/lattice.go: a confidentiality level, *)
(* an integrity level and a set of category bits.  The levels are uint16   *)
(* and the categories a uint32 bit mask in the code; here a mask is the    *)
(* set of its one bits, so | is \cup, & is \cap and "mask & m == m" is     *)
(* \subseteq.                                                              *)
(***************************************************************************)
EXTENDS Integers

CONSTANTS MaxLevel,    \* largest level (65535 in the code)
          Categories,  \* category bits in use
          TaintBit     \* the tainted_by_secret sentinel, bit 31 in the code

ASSUME MaxLevelAssumption == MaxLevel \in Nat
ASSUME TaintBitAssumption == TaintBit \in Categories

Levels == 0 .. MaxLevel
Labels == [c : Levels, i : Levels, k : SUBSET Categories]

(* The zero SecurityLabel: what an unknown session has. *)
ZeroLabel == [c |-> 0, i |-> 0, k |-> {}]

(* unpackLabel(maxUint64Label): every level and bit at its maximum. *)
MaxLabel == [c |-> MaxLevel, i |-> MaxLevel, k |-> Categories]

MaxOf(x, y) == IF y > x THEN y ELSE x
MinOf(x, y) == IF y < x THEN y ELSE x

Join(a, b) ==
  [c |-> MaxOf(a.c, b.c), i |-> MinOf(a.i, b.i), k |-> a.k \cup b.k]

Dominates(subject, object) ==
  /\ subject.c >= object.c
  /\ subject.i >= object.i
  /\ object.k \subseteq subject.k

(* Mutant: elevation computed with the Biba direction of Join, the         *)
(* confusion the package comment warns of.                                 *)
elevateLabelAsJoin(session, resource) == Join(session, resource)

elevateLabel(session, resource) ==
  [c |-> MaxOf(session.c, resource.c),
   i |-> MaxOf(session.i, resource.i),
   k |-> session.k \cup resource.k]

Tainted(l) == TaintBit \in l.k
=============================================================================
