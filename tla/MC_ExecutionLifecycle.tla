------------------------ MODULE MC_ExecutionLifecycle ------------------------
(***************************************************************************)
(* Two executions in one request, one of them with nodes and one whose     *)
(* definition only has a trigger, for TLC.                                 *)
(***************************************************************************)
EXTENDS ExecutionLifecycle

CONSTANTS e1, e2

MCExecutions == {e1, e2}
MCTriggerOnly == {e2}
=============================================================================
