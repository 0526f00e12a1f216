------------------------------- MODULE MCSubmit -------------------------------
(* A run with --meta-out, and two with the same --csv; for the run about a  *)
(* comment, two runs with no file at all.                                   *)
EXTENDS Submit, TLC

CONSTANTS a, b, c, f1, f2

MCRuns == {a, b, c}
TwoRuns == {a, b}
MCFiles == {f1, f2}
MCCleanup == {a}
NoFiles == [r \in TwoRuns |-> NoFile]
MCMetaOut == [r \in MCRuns |-> IF r = a THEN f1 ELSE NoFile]
MCCsv == [r \in MCRuns |-> f2]

\* b and c are alike: the same file, and neither cleans up.
MCSymmetry == Permutations({b, c})
===============================================================================
