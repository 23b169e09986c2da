----------------------------- MODULE MCReadSide -----------------------------
(* A small instance of ReadSide for TLC.                                   *)
EXTENDS ReadSide, TLC

CONSTANTS r1, r2, r3, k1, c1, c2, ann

ThreeRequests == {r1, r2, r3}
OneKey == {k1}
TwoContents == {c1, c2}
OneFaulty == {r3}

OneEmployee == {ann}
CreatorOfThree == [r \in Requests |-> IF r = r3 THEN Staff ELSE ann]

\* The two requests of the employee are interchangeable, and so are the contents.
SymmetryOfReads == Permutations({r1, r2}) \cup Permutations(TwoContents)
=============================================================================
