---------------------------- MODULE MCDelegation ----------------------------
(* Chains of up to three tokens, each of them flawed in one way or none.   *)
EXTENDS Delegation

AllCaps == Capabilities({"read", "write"}, {"network"}, ResourceBits, 1)
CapSets == {AllCaps, Capabilities({"read", "write"}, {}, ResourceBits, 1),
            Capabilities({"write"}, {"network"}, {"file"}, 0),
            Capabilities({"write"}, {}, {"file"}, 0)}

(* What a caller may ask of a chain.                                       *)
MCAsks == {Capabilities(o, e, f, k) :
            o \in SUBSET {"read", "write"}, e \in SUBSET {"network"}, f \in SUBSET ResourceBits, k \in 0 .. 1}

(* What the issuer of a token chooses.                                     *)
TokenChoices == [caps : CapSets, exp : {1, 2}, flaw : {"none", "key", "altered", "parent"}]

(* The refs made of a list of choices.                                     *)
refsOf(cs) ==
  LET token[i \in 1 .. Len(cs)] ==
        LET body == [caps |-> cs[i].caps, depth |-> 0, exp |-> cs[i].exp,
                     parent |-> IF i = 1 \/ cs[i].flaw = "parent" THEN <<>> ELSE <<Hash(token[i - 1])>>]
            key == IF cs[i].flaw = "key" THEN "other" ELSE "trusted"
            shown == IF cs[i].flaw = "altered" THEN [body EXCEPT !.caps = AllCaps] ELSE body
        IN  [caps |-> shown.caps, depth |-> 0, exp |-> shown.exp, parent |-> shown.parent,
             sig |-> [key |-> key, over |-> body]]
  IN  [i \in 1 .. Len(cs) |-> [token |-> token[i], gate |-> FALSE, audit |-> FALSE]]

MCChains == UNION {{refsOf(cs) : cs \in [1 .. n -> TokenChoices]} : n \in 1 .. 2}
            \cup {refsOf(cs) : cs \in [1 .. 3 -> {c \in TokenChoices : c.flaw \in {"none", "parent"}}]}
=============================================================================
