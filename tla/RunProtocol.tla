---------------------------- MODULE RunProtocol ----------------------------
(***************************************************************************)
(* What a subscriber of an agent may rely on: the order in which one run   *)
(* announces itself.  A run is agent_start, one or more turns, agent_end,  *)
(* and then the agent settles.  A turn is turn_start, any number of        *)
(* messages and tool executions, turn_end.  A message is closed before     *)
(* another one opens, tool executions open and close while no message is   *)
(* open, and a turn ends only when everything it opened has been closed.   *)
(*                                                                         *)
(* All of this is promised while no listener throws: agent_end then is the *)
(* last event of the run.  A listener that throws breaks the run off at    *)
(* any moment, after agent_end too: what is open is never closed, the      *)
(* failure is reported as a message, a turn's end and an agent_end, which  *)
(* may be the run's second, and if a listener throws again the agent       *)
(* settles.  Tools that the broken run leaves behind may end at any time,  *)
(* and a later run that is active by then passes their events on.          *)
(*                                                                         *)
(* The event types are those of AgentEvent (agent/src/types.ts); the loop  *)
(* that emits them is modelled in Agent, which implements this             *)
(* specification.                                                          *)
(***************************************************************************)
EXTENDS Naturals

CONSTANT ToolIds   \* identifiers of tool calls

VARIABLES
  phase,      \* where the run is between agent_start and settlement
  message,    \* TRUE between message_start and message_end
  tools,      \* tool calls between tool_execution_start and _end
  loose,      \* tool calls that a broken run left behind
  broken      \* TRUE once a listener threw in the latest run

vars == <<phase, message, tools, loose, broken>>

Phases == {"idle", "started", "turn", "between", "ended"}

TypeOK ==
  /\ phase \in Phases
  /\ message \in BOOLEAN
  /\ tools \subseteq ToolIds
  /\ loose \subseteq ToolIds
  /\ broken \in BOOLEAN

Init ==
  /\ phase = "idle"
  /\ message = FALSE
  /\ tools = {}
  /\ loose = {}
  /\ broken = FALSE

Move(from, to) ==
  /\ phase \in from
  /\ phase' = to
  /\ UNCHANGED <<message, tools, loose>>

AgentStart ==
  /\ Move({"idle"}, "started")
  /\ broken' = FALSE

TurnStart ==
  /\ ~broken
  /\ Move({"started", "between"}, "turn")
  /\ UNCHANGED broken

MessageStart ==
  /\ phase = "turn"
  /\ ~broken
  /\ ~message
  /\ tools = {}
  /\ message' = TRUE
  /\ UNCHANGED <<phase, tools, loose, broken>>

MessageEnd ==
  /\ message
  /\ message' = FALSE
  /\ UNCHANGED <<phase, tools, loose, broken>>

ToolStart ==
  /\ phase = "turn"
  /\ ~broken
  /\ ~message
  /\ \E t \in ToolIds \ tools : tools' = tools \union {t}
  /\ UNCHANGED <<phase, message, loose, broken>>

ToolEnd ==
  /\ phase = "turn"
  /\ \E t \in tools : tools' = tools \ {t}
  /\ UNCHANGED <<phase, message, loose, broken>>

TurnEnd ==
  /\ ~message
  /\ tools = {}
  /\ Move({"turn"}, "between")
  /\ UNCHANGED broken

AgentEnd ==
  /\ Move({"between"}, "ended")
  /\ UNCHANGED broken

Settle ==
  /\ Move({"ended"}, "idle")
  /\ UNCHANGED broken

\* A listener throws: the report begins, or it is broken off as well.  The
\* tools that were running may be left behind.
Break ==
  /\ phase # "idle"
  /\ \/ ~broken /\ phase' = "turn" /\ message' = TRUE
     \/ phase' = "idle" /\ message' = FALSE
  /\ broken' = TRUE
  /\ tools' = {}
  /\ \E left \in SUBSET tools : loose' = loose \union left

LooseEnd ==
  /\ \E t \in loose : loose' = loose \ {t}
  /\ UNCHANGED <<phase, message, tools, broken>>

Next ==
  \/ AgentStart \/ TurnStart \/ TurnEnd \/ AgentEnd \/ Settle
  \/ MessageStart \/ MessageEnd
  \/ ToolStart \/ ToolEnd
  \/ Break \/ LooseEnd

Spec == Init /\ [][Next]_vars
=============================================================================
