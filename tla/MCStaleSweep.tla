---------------------------- MODULE MCStaleSweep ----------------------------
(* A small instance of StaleSweep for TLC. *)
EXTENDS StaleSweep, TLC
==============================================================================
