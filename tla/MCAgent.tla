------------------------------ MODULE MCAgent ------------------------------
(***************************************************************************)
(* Instances of Agent for TLC.                                             *)
(***************************************************************************)
EXTENDS Agent

BothQueueModes == QueueMode
BothToolModes == ToolExecutionMode
=============================================================================
