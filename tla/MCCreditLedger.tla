--------------------------- MODULE MCCreditLedger ----------------------------
(* Small instances of CreditLedger for TLC.                                   *)
EXTENDS CreditLedger, TLC

\* Grants in the order of the real ones (50, 500, 2000).
SmallGrant == [FREE |-> 1, PRO |-> 2, PRO_PLUS |-> 3]

Symmetry == Permutations(Procs) \cup Permutations(Refs)
==============================================================================
