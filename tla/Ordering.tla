------------------------------ MODULE Ordering ------------------------------
(***************************************************************************)
(* What a database or a loop returns in order, as a function of the set    *)
(* and of the order.                                                       *)
(***************************************************************************)
EXTENDS Naturals, FiniteSets

(* The elements of S, the first of them first.                             *)
InOrder(S, before(_, _)) ==
    [i \in 1..Cardinality(S) |-> CHOOSE x \in S : Cardinality({y \in S : before(y, x)}) = i - 1]
=============================================================================
