--------------------------- MODULE MCAgentSession ---------------------------
(***************************************************************************)
(* Instances of AgentSession for TLC.                                      *)
(***************************************************************************)
EXTENDS AgentSession

CONSTANTS p1, a, b

OneCaller == {p1}
TwoTexts == {a, b}
AllOutcomes ==
  {"ok", "large", "silent", "retryable", "fatal", "overflow"}
=============================================================================
