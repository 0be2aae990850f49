------------------------------ MODULE MC_RuleBook ------------------------------
(***************************************************************************)
(* One rule and a few requests for TLC.                                    *)
(***************************************************************************)
EXTENDS RuleBook
=============================================================================
