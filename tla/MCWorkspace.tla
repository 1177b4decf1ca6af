------------------------------ MODULE MCWorkspace ------------------------------
EXTENDS WorkspaceExecution, TLC

Symmetry == Permutations(Requests) \cup Permutations(Workers) \cup Permutations(Configs)
===============================================================================
