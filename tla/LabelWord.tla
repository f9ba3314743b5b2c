------------------------------ MODULE LabelWord ------------------------------
(***************************************************************************)
(* The packed word that the session registry loads, compares and swaps     *)
(* (packLabel and unpackLabel of internal/ifc/lattice.go): two levels and  *)
(* a mask of categories, shifted to their places.  SessionLabels works on  *)
(* labels; this is why it may.                                             *)
(***************************************************************************)
EXTENDS Integers

CONSTANTS LevelSize, MaskSize   \* 2^16 and 2^32 in the code

ASSUME WordAssumption == LevelSize \in Nat \ {0} /\ MaskSize \in Nat \ {0}

maxUint64Label == LevelSize * LevelSize * MaskSize - 1
Word == 0 .. maxUint64Label
PackedLabel == [c : 0 .. LevelSize - 1, i : 0 .. LevelSize - 1, k : 0 .. MaskSize - 1]

(* Mutant: integrity shifted by one position too few.                      *)
packLabelOverlap(l) ==
  l.c * (LevelSize * MaskSize) + l.i * (MaskSize \div 2) + l.k

packLabel(l) == l.c * (LevelSize * MaskSize) + l.i * MaskSize + l.k

unpackLabel(v) ==
  [c |-> (v \div (LevelSize * MaskSize)) % LevelSize,
   i |-> (v \div MaskSize) % LevelSize,
   k |-> v % MaskSize]

(* Packing is a bijection between labels and words of the width, so a      *)
(* CompareAndSwap on words is one on labels; the word 0 (an unset ceiling) *)
(* is the zero label and no other, and the word of all ones (an            *)
(* unconstrained ceiling) the label with every level and bit at maximum.   *)
Bijective ==
  /\ \A l \in PackedLabel : packLabel(l) \in Word /\ unpackLabel(packLabel(l)) = l
  /\ \A v \in Word : unpackLabel(v) \in PackedLabel /\ packLabel(unpackLabel(v)) = v
  /\ unpackLabel(0) = [c |-> 0, i |-> 0, k |-> 0]
  /\ unpackLabel(maxUint64Label) =
       [c |-> LevelSize - 1, i |-> LevelSize - 1, k |-> MaskSize - 1]
=============================================================================
