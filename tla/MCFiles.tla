------------------------------ MODULE MCFiles ------------------------------
(***************************************************************************)
(* The library and its jobs on a small instance: requests and jobs are     *)
(* interchangeable, keys are not (one of them is spoofed).                 *)
(***************************************************************************)
EXTENDS LibraryJobs, TLC

CONSTANTS k1, k2, k3, d1, d2, d3, f1, f2

Budget(upload, guest, file, dir, work, sweeps, fault) ==
    [upload |-> upload, guest |-> guest, file |-> file, folder |-> dir, job |-> work,
     sweep |-> sweeps, fault |-> fault]

Empty == [d \in {} |-> Root]
Stored(f, k, d) == [file |-> f, key |-> k, folder |-> d]
Scenario(tree, files, budget) == [tree |-> tree, files |-> files, budget |-> budget]

(* Two uploads at once; uploads beside changes of the tree; a nested tree  *)
(* being rearranged; files deleted and moved beside folders; jobs and      *)
(* guests and sweeps.                                                      *)
MCScenarios ==
    {Scenario(Empty, {}, Budget(2, 0, 0, 0, 0, 0, 1)),
     Scenario(d1 :> Root, {Stored(f1, k1, d1)}, Budget(1, 0, 1, 0, 0, 0, 1)),
     Scenario(d1 :> Root, {Stored(f1, k1, d1)}, Budget(1, 0, 0, 1, 0, 0, 0)),
     Scenario(d1 :> Root @@ d2 :> d1, {}, Budget(0, 0, 0, 3, 0, 0, 0)),
     Scenario(d1 :> Root, {Stored(f1, k1, d1), Stored(f2, k2, Root)},
              Budget(0, 0, 2, 1, 0, 0, 0)),
     Scenario(d1 :> Root @@ d2 :> d1, {Stored(f1, k1, d1), Stored(f2, k2, d2)},
              Budget(0, 0, 1, 1, 0, 0, 1)),
     Scenario(d1 :> Root @@ d2 :> d1, {Stored(f1, k1, d1), Stored(f2, k2, d2)},
              Budget(0, 0, 2, 0, 0, 0, 1)),
     Scenario(Empty, {Stored(f1, k1, Root)}, Budget(1, 0, 0, 0, 2, 1, 0)),
     Scenario(Empty, {}, Budget(0, 3, 0, 0, 0, 2, 1)),
     Scenario(Empty, {Stored(f1, k1, Root)}, Budget(0, 0, 1, 0, 2, 1, 1))}

Symmetry == Permutations(Requests) \cup Permutations(Jobs)
============================================================================
