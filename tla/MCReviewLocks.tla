---------------------------- MODULE MCReviewLocks ----------------------------
(***************************************************************************)
(* Instances of ReviewLocks for TLC.                                       *)
(***************************************************************************)
EXTENDS ReviewLocks, TLC

CONSTANTS a, b

As(path, forced, recheck) == [path |-> path, forced |-> forced, recheck |-> recheck]

\* A scheduled re-review against a forced webhook pass, and, where the cap is checked before a merge, against a
\* cap close.
Casts == {[p \in {a, b} |-> IF p = a THEN As("sweep", FALSE, cap)
                            ELSE IF cap THEN As("capclose", FALSE, FALSE) ELSE As("webhook", TRUE, FALSE)] :
            cap \in BOOLEAN}

Symmetry == Permutations(Procs) \cup Permutations(Tokens)
=============================================================================
