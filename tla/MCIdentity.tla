----------------------------- MODULE MCIdentity -----------------------------
(***************************************************************************)
(* Identity on a small instance: handlers and requests are                 *)
(* interchangeable.                                                        *)
(***************************************************************************)
EXTENDS Identity, TLC

CONSTANTS u1, u2, u3, n1, c1

(* Two accounts whose usernames differ only in case, as the database holds *)
(* some: one signs in by the exact name, or by the address.  The third may *)
(* register under the first one's address once that account is gone.       *)
MCUsername == u1 :> "ada" @@ u2 :> "Ada" @@ u3 :> "eve"
MCEmail == u1 :> "ada@x" @@ u2 :> "b@x" @@ u3 :> "ada@x"
MCLower(s) == IF s = "Ada" THEN "ada" ELSE s

Scenario(members, first, registered, account, access, fault) ==
    [members |-> members, first |-> first, registered |-> registered,
     budget |-> [account |-> account, access |-> access, fault |-> fault]]

MCScenarios ==
    {Scenario({u1}, {}, {}, 3, 0, 0),
     Scenario({u1}, {}, {}, 2, 0, 1),
     Scenario({u1, u2}, {<<u1, n1>>}, {}, 3, 0, 0),
     Scenario({u1}, {}, {c1}, 0, 4, 1),
     Scenario({u1}, {}, {c1}, 1, 2, 1),
     Scenario({u1}, {}, {}, 0, 2, 0)}

Symmetry == Permutations(Requests) \cup Permutations(Handlers)
=============================================================================
