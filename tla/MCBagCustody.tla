---------------------------- MODULE MCBagCustody ----------------------------
(* Instances of BagCustody for TLC.                                        *)
EXTENDS BagCustody, TLC

CONSTANTS b1, o1, o2, o3, w1, w2, r1, r2

\* Every bag holds two dozens.
MCDozens == [b \in Bags |-> 2]

\* Interchangeable rows and requests.
MCSymmetry == Permutations(Orders) \union Permutations(Requests)
=============================================================================
