------------------------- MODULE MCMaterialRelease -------------------------
(* Instances of MaterialRelease for TLC.                                   *)
EXTENDS MaterialRelease, TLC

CONSTANTS b1, b2, o1, o2, o3, p1, p2, w1, w2, r1, g1, g2

\* Every bag holds two dozens and carries the same part, which every order
\* needs; o1 needs nothing else.
MCDozens == [b \in Bags |-> 2]
MCPartOf == [b \in Bags |-> p1]
MCOrderParts == [o \in Orders |-> {p1}]

\* Every warehouse has a ledger row for every part.
MCStocked == Warehouses \X Parts

MCSymmetry == Permutations(Bags) \union Permutations(Releasers)
=============================================================================
