-------------------------- MODULE MCSessionManager --------------------------
(***************************************************************************)
(* Instances of SessionManager for TLC.                                    *)
(***************************************************************************)
EXTENDS SessionManager

UserAndAssistant == {"user", "assistant"}
NoOldFile == {0}
WithAndWithoutOldFile == {0, 3}
=============================================================================
