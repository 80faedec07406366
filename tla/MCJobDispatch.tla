--------------------------- MODULE MCJobDispatch ---------------------------
(* Instances of JobDispatch.  j1, j2 and j4 upload the same paper, j3 another; *)
(* the workers are interchangeable, and so are the jobs of the same paper.     *)
EXTENDS JobDispatch

CONSTANTS j3, p, q

MCResultSize == [j \in Jobs |-> 1]
MCFingerprintOf == [j \in Jobs |-> IF j = j3 THEN q ELSE p]
MCSymmetry == Permutations(Workers) \cup Permutations(Jobs \ {j3})
=============================================================================
