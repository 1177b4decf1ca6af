----------------------------- MODULE MCPipeline ------------------------------
(* Small instances of ConversionPipeline for TLC.                            *)
EXTENDS ConversionPipeline, TLC

Symmetry == Permutations(Workers) \cup Permutations(Requests)
==============================================================================
