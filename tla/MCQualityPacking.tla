--------------------------- MODULE MCQualityPacking ---------------------------
(* Instances of QualityPacking for TLC.                                    *)
EXTENDS QualityPacking

CONSTANTS o1, v1, v2, r1, r2

Take(v, n) == [box |-> <<o1, v>>, pieces |-> n]

\* Pieces of one box and of the other, of both, and one box named twice.
MCAssemblies == {<<Take(v1, 4)>>, <<Take(v2, 5)>>, <<Take(v1, 5), Take(v2, 4)>>,
                 <<Take(v1, 4), Take(v1, 4)>>}

\* All of one box.
MCWholeBox == {<<Take(v1, 12)>>}
=============================================================================
