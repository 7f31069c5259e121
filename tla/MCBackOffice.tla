------------------------------ MODULE MCBackOffice ------------------------------
(* The instance of BackOffice for TLC.                                     *)
EXTENDS BackOffice

CONSTANTS r1, r2

MCPlaceCodes == {<<>>, <<"A">>, <<"A", "-", "A">>}

MCAmounts == {2, -1}

MCItems == {[model |-> 1, part |-> None], [model |-> 1, part |-> 1]}

MCLine(n) == [item |-> [model |-> 1, part |-> 1], warehouse |-> 1, requested |-> n,
              approved |-> None, transferred |-> None]

\* One line, two lines for the same part, and a part that does not exist.
MCLineLists == {<<MCLine(1)>>, <<MCLine(1), MCLine(-1)>>, <<[MCLine(1) EXCEPT !.item.part = 2]>>}

MCSymmetry == Permutations(Requests)
=============================================================================
