----------------------------- MODULE MCJobStream -----------------------------
(* Small instances of JobStream for TLC.  Workers and messages are           *)
(* interchangeable; the symmetry is used for safety only.                    *)
EXTENDS JobStream, TLC

Symmetry == Permutations(Workers) \cup Permutations(Messages)
==============================================================================
