--------------------------- MODULE MC_ApprovalGate ---------------------------
(***************************************************************************)
(* A few gates and calls for TLC.                                         *)
(***************************************************************************)
EXTENDS ApprovalGate
=============================================================================
