-------------------------- MODULE MCOrderLifecycle --------------------------
(* Instances of OrderLifecycle for TLC.                                    *)
EXTENDS ProductionReports, TLC

CONSTANTS o1, s1, s2, s3, r1, r2

MCSymmetry == Permutations(Stages) \union Permutations(Requests)
=============================================================================
