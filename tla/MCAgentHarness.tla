--------------------------- MODULE MCAgentHarness ---------------------------
(***************************************************************************)
(* Instances of AgentHarness for TLC: two callers.                         *)
(***************************************************************************)
EXTENDS AgentHarness

CONSTANTS c1, c2
TwoCallers == {c1, c2}
=============================================================================
