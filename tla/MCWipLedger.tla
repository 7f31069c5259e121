------------------------------ MODULE MCWipLedger ------------------------------
(* Instances of WipLedger for TLC.                                         *)
EXTENDS WipLedger, TLC

CONSTANTS o1, p1, p2, r1, r2

\* Every order needs every part.
MCOrderParts == [o \in Orders |-> Parts]

MCSymmetry == Permutations(Parts) \union Permutations(Returners)
=============================================================================
