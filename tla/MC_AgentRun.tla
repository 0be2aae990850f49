------------------------------ MODULE MC_AgentRun ------------------------------
(***************************************************************************)
(* A run of a few turns and calls for TLC.                                 *)
(***************************************************************************)
EXTENDS AgentRun

\* agent_run_workflow.py:9-10, "Approvals are SEQUENTIAL within a run ... so a
\* single _decision slot is sufficient": as long as people answer what is asked,
\* a tool that needs approval runs on an approval given for it.
OneSlotSuffices ==
  (\A a \in Answers : answer[a].delivered => answer[a].asked # NoCall)
    => \A c \in ran : policy[c] = "approval_required" => Consented(c)
=============================================================================
