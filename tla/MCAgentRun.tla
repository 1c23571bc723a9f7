----------------------------- MODULE MCAgentRun -----------------------------
(* Files for AgentRun: two the task may change and one it may not. *)
EXTENDS AgentRun

CONSTANTS a, b, other

ThreeFiles == {a, b, other}
TaskFiles == {a, b}
=============================================================================
