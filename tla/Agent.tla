------------------------------- MODULE Agent -------------------------------
(***************************************************************************)
(* The stateful agent (agent/src/agent.ts) together with the loop it runs  *)
(* (agent/src/agent-loop.ts).                                              *)
(*                                                                         *)
(* JavaScript runs one callback at a time, so an action is what happens    *)
(* between two awaits of the loop: `pc` names the await the run is         *)
(* suspended at, and everything else (steer, followUp, abort, reset, the   *)
(* clearing of the queues) may happen while it is suspended.  Emitting an  *)
(* event updates the agent's state at once (processEvents) and then awaits *)
(* the listeners: the update is part of the step that enters the await.    *)
(* Polling a queue drains it in the step that polls.                       *)
(*                                                                         *)
(* Messages carry what the properties tell apart: a user message the order *)
(* in which the agent accepted it and the way it came in, an assistant     *)
(* message the number of its tool calls and its stop reason, a tool result *)
(* the call it answers.  Model, tools, system prompt and message text are  *)
(* left out, so are message_update and tool_execution_update, which replace*)
(* one partial message by another.  prepareNextTurn and shouldStopAfterTurn*)
(* are unset, as in coding-agent/src/core/sdk.ts.                          *)
(*                                                                         *)
(* A definition that nothing uses, just before another of the same         *)
(* parameters, is a faulty variant of it: what the properties must reject. *)
(***************************************************************************)
EXTENDS Naturals, Sequences, FiniteSets

CONSTANTS
  SteeringModes,  \* modes the steering queue is switched between
  FollowUpModes,  \* modes the follow-up queue is switched between
  ToolModes,      \* ways a batch of tool calls may be executed
  MaxInputs,      \* bound: user messages accepted and incidents (listeners that
                  \* throw, clears of a queue, resets, and removals of the last
                  \* message by the owner)
  MaxPrompt,      \* bound: messages of one prompt
  MaxToolTurns,   \* bound: the responses after this one carry no tool call
  MaxCalls        \* bound: tool calls of one response

QueueMode == {"all", "one-at-a-time"}
ToolExecutionMode == {"parallel", "sequential"}

ASSUME ModesAssumption ==
  /\ SteeringModes \subseteq QueueMode /\ SteeringModes # {}
  /\ FollowUpModes \subseteq QueueMode /\ FollowUpModes # {}
  /\ ToolModes \subseteq ToolExecutionMode /\ ToolModes # {}

ASSUME BoundsAssumption ==
  {MaxInputs, MaxPrompt, MaxToolTurns, MaxCalls} \subseteq Nat

VARIABLES
  \* AgentState and the queues
  transcript,        \* state.messages
  isStreaming,       \* state.isStreaming
  streamingMessage,  \* state.streamingMessage
  pendingToolCalls,  \* state.pendingToolCalls
  errorMessage,      \* TRUE when state.errorMessage is set
  aborted,           \* the active run's signal
  steeringQueue,
  followUpQueue,
  \* locals of the run
  pc,                \* the await the run is suspended at
  context,           \* currentContext.messages
  pending,           \* messages still to be announced, the current one first
  prompting,         \* TRUE while `pending` holds the prompts of the run
  skipPoll,          \* skipInitialSteeringPoll
  turn,              \* responses requested so far; names the tool calls
  reply,             \* the response of this turn
  hasMoreToolCalls,
  \* locals of a batch of tool calls
  mode,              \* how this batch is executed
  call,              \* progress of each call
  cursor,            \* the last call that was started
  stops,             \* finished calls whose result asked to terminate
  results,           \* tool results announced in this batch
  stray,             \* tools left running by a batch that failed
  \* what the environment did
  accepted,          \* user messages accepted so far
  cleared,           \* user messages removed by clear and reset
  lost,              \* drained messages dropped because a listener threw
  touched,           \* TRUE if reset() interfered with this run
  threw,             \* TRUE once a listener threw in the latest run
  polledAt,          \* accepted when the steering queue was last polled
  incidents

stateVars == <<transcript, isStreaming, streamingMessage, pendingToolCalls,
               errorMessage>>
queueVars == <<steeringQueue, followUpQueue>>
turnVars  == <<context, pending, prompting, skipPoll, turn, reply,
               hasMoreToolCalls>>
batchVars == <<mode, call, cursor, stops, results>>
envVars   == <<accepted, cleared, lost, touched, threw, polledAt, incidents>>

vars == <<stateVars, queueVars, aborted, pc, turnVars, batchVars, stray,
          envVars>>

-----------------------------------------------------------------------------
(* Messages *)

UserMessage(id, via) == [role |-> "user", id |-> id, via |-> via]
Assistant(n, stop) ==
  [role |-> "assistant", turn |-> turn, calls |-> n, stop |-> stop]
Partial == Assistant(0, "partial")
Failure == Assistant(0, IF aborted THEN "aborted" ELSE "error")
ToolResult(k) == [role |-> "toolResult", turn |-> turn, call |-> k]
NoMessage == [role |-> "none"]
NoReply == [role |-> "assistant", turn |-> 0, calls |-> 0, stop |-> "stop"]

Vias == {"prompt", "steer", "followUp"}
Stops == {"partial", "stop", "error", "aborted"}
Users == [role : {"user"}, id : Nat, via : Vias]
Assistants ==
  [role : {"assistant"}, turn : Nat, calls : 0..MaxCalls, stop : Stops]
ToolResults == [role : {"toolResult"}, turn : Nat, call : Nat]
Messages == Users \union Assistants \union ToolResults

Failed(m) == m.stop \in {"error", "aborted"}

IsUser(m) == m.role = "user"
Ids(s) == {s[i].id : i \in {j \in 1..Len(s) : IsUser(s[j])}}

-----------------------------------------------------------------------------
(* Where a run can be suspended.  The first group awaits the listeners of  *)
(* an event, or hooks and tools that run after them.                       *)

Announcing == {"messageStart", "messageEnd"}
Responding == {"streaming", "finalStart", "assistantEnd"}
InBatch == {"toolStart", "prepared", "toolEnd", "toolsRunning",
            "resultStart", "resultEnd"}
Closing == {"turnEnd", "turnEndFinal", "agentEnd"}
Failing == {"failStart", "failEnd", "failTurnEnd", "failAgentEnd"}
Polling == {"initialPoll", "polled", "polledFollowUp"}

Locations == {"idle", "agentStart", "turnStart", "request"} \union Announcing
               \union Responding \union InBatch \union Closing
               \union Failing \union Polling

\* Locations in which listeners are running and may throw.
Listening == Locations \ ({"idle", "request", "prepared", "toolsRunning"}
                            \union Polling)

Active == pc # "idle"

Calls == 1..MaxCalls
ToolIds == (1..MaxToolTurns) \X Calls
CallStates == {"todo", "started", "ready", "running", "ending", "done"}
InState(S) == {k \in Calls : call[k] \in S}

MessageTypes ==
  /\ transcript \in Seq(Messages)
  /\ streamingMessage \in Messages \union {NoMessage}
  /\ steeringQueue \in Seq(Users)
  /\ followUpQueue \in Seq(Users)
  /\ context \in Seq(Messages)
  /\ pending \in Seq(Users)
  /\ reply \in Assistants
  /\ results \in Seq(ToolResults)

FlagTypes ==
  /\ isStreaming \in BOOLEAN
  /\ errorMessage \in BOOLEAN
  /\ aborted \in BOOLEAN
  /\ prompting \in BOOLEAN
  /\ skipPoll \in BOOLEAN
  /\ hasMoreToolCalls \in BOOLEAN
  /\ touched \in BOOLEAN
  /\ threw \in BOOLEAN

BatchTypes ==
  /\ mode \in ToolExecutionMode
  /\ call \in [Calls -> CallStates]
  /\ cursor \in 0..MaxCalls
  /\ stops \subseteq Calls
  /\ pendingToolCalls \subseteq (Nat \X Calls)
  /\ stray \subseteq (Nat \X Calls)

CountTypes ==
  /\ turn \in Nat
  /\ accepted \in Nat
  /\ polledAt \in Nat
  /\ incidents \in Nat
  /\ cleared \subseteq Nat
  /\ lost \subseteq Nat

TypeOK ==
  /\ pc \in Locations
  /\ MessageTypes /\ FlagTypes /\ BatchTypes /\ CountTypes

Init ==
  /\ transcript = <<>>
  /\ isStreaming = FALSE
  /\ streamingMessage = NoMessage
  /\ pendingToolCalls = {}
  /\ errorMessage = FALSE
  /\ aborted = FALSE
  /\ steeringQueue = <<>>
  /\ followUpQueue = <<>>
  /\ pc = "idle"
  /\ context = <<>>
  /\ pending = <<>>
  /\ prompting = FALSE
  /\ skipPoll = FALSE
  /\ turn = 0
  /\ reply = NoReply
  /\ hasMoreToolCalls = FALSE
  /\ mode = "parallel"
  /\ call = [k \in Calls |-> "todo"]
  /\ cursor = 0
  /\ stops = {}
  /\ results = <<>>
  /\ stray = {}
  /\ accepted = 0
  /\ cleared = {}
  /\ lost = {}
  /\ touched = FALSE
  /\ threw = FALSE
  /\ polledAt = 0
  /\ incidents = 0

-----------------------------------------------------------------------------
(* processEvents: what an event does to the agent's state *)

OnMessageStart(m) ==
  /\ streamingMessage' = m
  /\ UNCHANGED <<transcript, isStreaming, pendingToolCalls, errorMessage>>

OnMessageEnd(m) ==
  /\ streamingMessage' = NoMessage
  /\ transcript' = Append(transcript, m)
  /\ UNCHANGED <<isStreaming, pendingToolCalls, errorMessage>>

OnToolStart(k) ==
  /\ pendingToolCalls' = pendingToolCalls \union {<<turn, k>>}
  /\ UNCHANGED <<transcript, isStreaming, streamingMessage, errorMessage>>

OnToolEndClears(id) ==
  /\ pendingToolCalls' = {}
  /\ UNCHANGED <<transcript, isStreaming, streamingMessage, errorMessage>>

OnToolEnd(id) ==
  /\ pendingToolCalls' = pendingToolCalls \ {id}
  /\ UNCHANGED <<transcript, isStreaming, streamingMessage, errorMessage>>

OnTurnEnd(m) ==
  /\ errorMessage' = (errorMessage \/ Failed(m))
  /\ UNCHANGED <<transcript, isStreaming, streamingMessage, pendingToolCalls>>

OnAgentEnd ==
  /\ streamingMessage' = NoMessage
  /\ UNCHANGED <<transcript, isStreaming, pendingToolCalls, errorMessage>>

(* PendingMessageQueue.drain: what it returns; the rest stays queued *)

Drained(queue, m) ==
  IF m = "all" \/ queue = <<>> THEN queue ELSE <<Head(queue)>>

AfterDrainKeeps(queue, m) == queue

AfterDrain(queue, m) ==
  IF m = "all" \/ queue = <<>> THEN <<>> ELSE Tail(queue)

DrainSteering(into) ==
  /\ \E m \in SteeringModes :
       /\ into = Drained(steeringQueue, m)
       /\ steeringQueue' = AfterDrain(steeringQueue, m)
  /\ UNCHANGED followUpQueue

DrainNoFollowUps(into) == into = <<>> /\ UNCHANGED queueVars

DrainFollowUps(into) ==
  /\ \E m \in FollowUpModes :
       /\ into = Drained(followUpQueue, m)
       /\ followUpQueue' = AfterDrain(followUpQueue, m)
  /\ UNCHANGED steeringQueue

-----------------------------------------------------------------------------
(* Starting a run: runWithLifecycle up to the first await *)

StartRun(prompts, skip) ==
  /\ isStreaming' = TRUE
  /\ streamingMessage' = NoMessage
  /\ errorMessage' = FALSE
  /\ aborted' = FALSE
  /\ pc' = "agentStart"
  /\ context' = transcript \o prompts
  /\ pending' = prompts
  /\ prompting' = TRUE
  /\ skipPoll' = skip
  /\ touched' = FALSE
  /\ threw' = FALSE
  /\ UNCHANGED <<transcript, pendingToolCalls, turn, reply, hasMoreToolCalls,
                 batchVars, stray, cleared, lost, polledAt, incidents>>

Prompt ==
  /\ ~Active
  /\ \E n \in 1..MaxPrompt :
       /\ accepted + incidents + n <= MaxInputs
       /\ accepted' = accepted + n
       /\ StartRun([i \in 1..n |-> UserMessage(accepted + i, "prompt")], FALSE)
  /\ UNCHANGED queueVars

\* continue() after an answer: the queues become the prompts of a new run.
ContinueFromQueues ==
  /\ ~Active
  /\ transcript # <<>>
  /\ transcript[Len(transcript)].role = "assistant"
  /\ \/ /\ steeringQueue # <<>>
        /\ \E m \in SteeringModes :
             /\ StartRun(Drained(steeringQueue, m), TRUE)
             /\ steeringQueue' = AfterDrain(steeringQueue, m)
        /\ UNCHANGED followUpQueue
     \/ /\ steeringQueue = <<>>
        /\ followUpQueue # <<>>
        /\ \E m \in FollowUpModes :
             /\ StartRun(Drained(followUpQueue, m), FALSE)
             /\ followUpQueue' = AfterDrain(followUpQueue, m)
        /\ UNCHANGED steeringQueue
  /\ UNCHANGED accepted

\* continue() after a user message or a tool result.
ContinueTranscript ==
  /\ ~Active
  /\ transcript # <<>>
  /\ transcript[Len(transcript)].role # "assistant"
  /\ StartRun(<<>>, FALSE)
  /\ UNCHANGED <<queueVars, accepted>>

Continue == ContinueFromQueues \/ ContinueTranscript

-----------------------------------------------------------------------------
(* Steps of the run.  RunStep(l) resumes at l: it leaves the queues, the   *)
(* signal and everything the environment did alone.                        *)

At(l) == pc = l
Goto(l) == pc' = l

SameAgent == UNCHANGED <<stateVars, queueVars>>
SameLoop == UNCHANGED <<context, pending, prompting, skipPoll, turn, reply,
                        hasMoreToolCalls>>
SameRest == UNCHANGED <<aborted, stray, envVars>>

\* The locals of a run, and those of a batch, when there is none.
NoRun ==
  /\ context' = <<>>
  /\ pending' = <<>>
  /\ prompting' = FALSE
  /\ skipPoll' = FALSE
  /\ reply' = NoReply
  /\ hasMoreToolCalls' = FALSE

NoBatch ==
  /\ mode' = "parallel"
  /\ call' = [k \in Calls |-> "todo"]
  /\ cursor' = 0
  /\ stops' = {}
  /\ results' = <<>>

TurnStart ==
  /\ At("agentStart")
  /\ Goto("turnStart")
  /\ SameAgent /\ SameLoop /\ UNCHANGED batchVars /\ SameRest

\* message_start of the next message of `pending`.
Announce ==
  /\ pending # <<>>
  /\ At("turnStart")
  /\ OnMessageStart(Head(pending))
  /\ Goto("messageStart")
  /\ SameLoop /\ UNCHANGED <<queueVars, batchVars>> /\ SameRest

AnnounceEnd ==
  /\ At("messageStart")
  /\ OnMessageEnd(Head(pending))
  /\ Goto("messageEnd")
  /\ SameLoop /\ UNCHANGED <<queueVars, batchVars>> /\ SameRest

\* A prompt is in the context from the start, a queued message joins it now.
PushedNever == context
Pushed == IF prompting THEN context ELSE Append(context, Head(pending))

AnnounceNext ==
  /\ At("messageEnd")
  /\ Tail(pending) # <<>>
  /\ pending' = Tail(pending)
  /\ context' = Pushed
  /\ OnMessageStart(Head(pending'))
  /\ Goto("messageStart")
  /\ UNCHANGED <<prompting, skipPoll, turn, reply, hasMoreToolCalls,
                 queueVars, batchVars>>
  /\ SameRest

\* No prompt is left: runLoop begins with a poll, which the run of drained
\* steering messages skips.
FirstPoll ==
  /\ \/ At("turnStart") /\ pending = <<>>
     \/ At("messageEnd") /\ Tail(pending) = <<>>
  /\ prompting
  /\ IF skipPoll THEN pending' = <<>> /\ UNCHANGED queueVars
                 ELSE DrainSteering(pending')
  /\ prompting' = FALSE
  /\ skipPoll' = FALSE
  /\ Goto("initialPoll")
  /\ UNCHANGED <<context, turn, reply, hasMoreToolCalls, stateVars, batchVars>>
  /\ SameRest

\* With nothing to announce the turn asks for a response: from the first
\* poll, from the start of a later turn, or after its last queued message.
Request ==
  /\ ~prompting
  /\ \/ /\ pc \in {"initialPoll", "turnStart"}
        /\ pending = <<>>
        /\ UNCHANGED <<context, pending>>
     \/ /\ At("messageEnd")
        /\ Tail(pending) = <<>>
        /\ context' = Pushed
        /\ pending' = <<>>
  /\ turn' = turn + 1
  /\ Goto("request")
  /\ UNCHANGED <<prompting, skipPoll, reply, hasMoreToolCalls, batchVars>>
  /\ SameAgent /\ SameRest

\* The messages drained by the first poll are announced in the first turn.
AnnounceFirstPolled ==
  /\ At("initialPoll")
  /\ pending # <<>>
  /\ OnMessageStart(Head(pending))
  /\ Goto("messageStart")
  /\ SameLoop /\ UNCHANGED <<queueVars, batchVars>> /\ SameRest

-----------------------------------------------------------------------------
(* streamAssistantResponse *)

\* What the provider may answer.
Response(m) ==
  \E n \in 0..(IF turn <= MaxToolTurns THEN MaxCalls ELSE 0) :
    \E s \in {"stop", "error"} \union (IF aborted THEN {"aborted"} ELSE {}) :
      m = Assistant(n, s)

ResponseStart ==
  /\ At("request")
  /\ context' = Append(context, Partial)
  /\ OnMessageStart(Partial)
  /\ Goto("streaming")
  /\ UNCHANGED <<pending, prompting, skipPoll, turn, reply, hasMoreToolCalls,
                 queueVars, batchVars>>
  /\ SameRest

\* The stream ends after a start: the final message replaces the partial one.
ResponseEnd ==
  /\ At("streaming")
  /\ Response(reply')
  /\ context' = [context EXCEPT ![Len(context)] = reply']
  /\ OnMessageEnd(reply')
  /\ Goto("assistantEnd")
  /\ UNCHANGED <<pending, prompting, skipPoll, turn, hasMoreToolCalls,
                 queueVars, batchVars>>
  /\ SameRest

\* The stream ends without a start.
ResponseWhole ==
  /\ At("request")
  /\ Response(reply')
  /\ context' = Append(context, reply')
  /\ OnMessageStart(reply')
  /\ Goto("finalStart")
  /\ UNCHANGED <<pending, prompting, skipPoll, turn, hasMoreToolCalls,
                 queueVars, batchVars>>
  /\ SameRest

ResponseWholeEnd ==
  /\ At("finalStart")
  /\ OnMessageEnd(reply)
  /\ Goto("assistantEnd")
  /\ SameLoop /\ UNCHANGED <<queueVars, batchVars>> /\ SameRest

\* An error or an abort ends the turn and the run.
FailedTurnLeftOpen ==
  /\ At("assistantEnd")
  /\ Failed(reply)
  /\ OnAgentEnd
  /\ Goto("agentEnd")
  /\ SameLoop /\ UNCHANGED <<queueVars, batchVars>> /\ SameRest

FailedTurn ==
  /\ At("assistantEnd")
  /\ Failed(reply)
  /\ OnTurnEnd(reply)
  /\ Goto("turnEndFinal")
  /\ SameLoop /\ UNCHANGED <<queueVars, batchVars>> /\ SameRest

PlainTurn ==
  /\ At("assistantEnd")
  /\ ~Failed(reply)
  /\ reply.calls = 0
  /\ hasMoreToolCalls' = FALSE
  /\ OnTurnEnd(reply)
  /\ Goto("turnEnd")
  /\ UNCHANGED <<context, pending, prompting, skipPoll, turn, reply,
                 queueVars, batchVars>>
  /\ SameRest

-----------------------------------------------------------------------------
(* executeToolCallsSequential and executeToolCallsParallel *)

ToolBatch ==
  /\ At("assistantEnd")
  /\ ~Failed(reply)
  /\ reply.calls > 0
  /\ mode' \in ToolModes
  /\ call' = [k \in Calls |-> IF k = 1 THEN "started" ELSE "todo"]
  /\ cursor' = 1
  /\ stops' = {}
  /\ results' = <<>>
  /\ OnToolStart(1)
  /\ Goto("toolStart")
  /\ SameLoop /\ UNCHANGED queueVars /\ SameRest

\* prepareToolCall decides without running the tool: it is unknown, its
\* arguments are wrong, the hook blocks it or throws, or the run is aborted.
ToolImmediate ==
  /\ At("toolStart")
  /\ call' = [call EXCEPT ![cursor] = "ending"]
  /\ OnToolEnd(<<turn, cursor>>)
  /\ Goto("toolEnd")
  /\ SameLoop /\ UNCHANGED <<queueVars, mode, cursor, stops, results>>
  /\ SameRest

ToolPrepared ==
  /\ At("toolStart")
  /\ ~aborted
  /\ IF mode = "parallel"
       THEN /\ call' = [call EXCEPT ![cursor] = "ready"]
            /\ Goto("prepared")
       ELSE /\ call' = [call EXCEPT ![cursor] = "running"]
            /\ Goto("toolsRunning")
  /\ SameAgent /\ SameLoop /\ UNCHANGED <<mode, cursor, stops, results>>
  /\ SameRest

\* The loop over the calls goes on unless the run is aborted.
MoreCallsUntilStop == ~aborted /\ cursor < reply.calls /\ stops = {}
MoreCalls == ~aborted /\ cursor < reply.calls

\* tool_execution_start of the next call.
ToolNext ==
  /\ MoreCalls
  /\ \/ At("prepared") /\ call' = [call EXCEPT ![cursor + 1] = "started"]
     \/ /\ At("toolEnd") /\ mode = "parallel"
        /\ call' = [call EXCEPT ![cursor] = "done",
                                ![cursor + 1] = "started"]
     \/ /\ At("resultEnd") /\ mode = "sequential"
        /\ call' = [call EXCEPT ![cursor + 1] = "started"]
  /\ cursor' = cursor + 1
  /\ OnToolStart(cursor')
  /\ Goto("toolStart")
  /\ SameLoop /\ UNCHANGED <<queueVars, mode, stops, results>> /\ SameRest

\* Promise.all: every prepared call runs, those of an aborted run too.
RunPrepared ==
  /\ \/ At("prepared")
     \/ At("toolEnd") /\ mode = "parallel"
  /\ ~MoreCalls
  /\ call' = [k \in Calls |-> CASE call[k] = "ready"  -> "running"
                                [] call[k] = "ending" -> "done"
                                [] OTHER              -> call[k]]
  /\ Goto("toolsRunning")
  /\ SameAgent /\ SameLoop /\ UNCHANGED <<mode, cursor, stops, results>>
  /\ SameRest

\* A tool and afterToolCall finish: tool_execution_end.
ToolFinish(k) ==
  /\ At("toolsRunning")
  /\ call[k] = "running"
  /\ call' = [call EXCEPT ![k] = "ending"]
  /\ \/ stops' = stops \union {k}
     \/ UNCHANGED stops
  /\ OnToolEnd(<<turn, k>>)
  /\ SameLoop /\ UNCHANGED <<pc, queueVars, mode, cursor, results>> /\ SameRest

ToolSettle(k) ==
  /\ At("toolsRunning")
  /\ call[k] = "ending"
  /\ call' = [call EXCEPT ![k] = "done"]
  /\ SameAgent /\ SameLoop
  /\ UNCHANGED <<pc, mode, cursor, stops, results>>
  /\ SameRest

\* Promise.all waits for the calls that were started.
EveryCallDone == \A k \in 1..reply.calls : call[k] = "done"
BatchSettled == InState({"running", "ending"}) = {}

\* Then their results are announced in the order of the calls.
NextResult == ToolResult(Len(results) + 1)

ResultStart ==
  /\ \/ /\ At("toolsRunning") /\ BatchSettled
        /\ UNCHANGED call
     \/ /\ At("toolEnd") /\ mode = "sequential"
        /\ call' = [call EXCEPT ![cursor] = "done"]
     \/ /\ At("resultEnd") /\ Len(results) < cursor
        /\ UNCHANGED call
  /\ OnMessageStart(NextResult)
  /\ Goto("resultStart")
  /\ SameLoop /\ UNCHANGED <<queueVars, mode, cursor, stops, results>>
  /\ SameRest

ResultEnd ==
  /\ At("resultStart")
  /\ results' = Append(results, NextResult)
  /\ OnMessageEnd(NextResult)
  /\ Goto("resultEnd")
  /\ SameLoop /\ UNCHANGED <<queueVars, mode, call, cursor, stops>>
  /\ SameRest

\* The batch returns and its results join the context.
BatchTurn ==
  /\ At("resultEnd")
  /\ Len(results) = cursor
  /\ mode = "parallel" \/ ~MoreCalls
  /\ hasMoreToolCalls' = (stops # 1..cursor)
  /\ context' = context \o results
  /\ OnTurnEnd(reply)
  /\ Goto("turnEnd")
  /\ NoBatch
  /\ UNCHANGED <<pending, prompting, skipPoll, turn, reply, queueVars>>
  /\ SameRest

-----------------------------------------------------------------------------
(* Between turns *)

PollSteering ==
  /\ At("turnEnd")
  /\ DrainSteering(pending')
  /\ polledAt' = accepted
  /\ Goto("polled")
  /\ UNCHANGED <<context, prompting, skipPoll, turn, reply, hasMoreToolCalls,
                 stateVars, batchVars, aborted, stray, accepted, cleared, lost,
                 touched, threw, incidents>>

PollFollowUps ==
  /\ At("polled")
  /\ ~hasMoreToolCalls /\ pending = <<>>
  /\ DrainFollowUps(pending')
  /\ Goto("polledFollowUp")
  /\ UNCHANGED <<context, prompting, skipPoll, turn, reply, hasMoreToolCalls,
                 stateVars, batchVars>>
  /\ SameRest

NextTurn ==
  /\ \/ At("polled") /\ (hasMoreToolCalls \/ pending # <<>>)
     \/ At("polledFollowUp") /\ pending # <<>>
  /\ Goto("turnStart")
  /\ SameAgent /\ SameLoop /\ UNCHANGED batchVars /\ SameRest

AgentEnd ==
  /\ \/ At("polledFollowUp") /\ pending = <<>>
     \/ At("turnEndFinal")
  /\ OnAgentEnd
  /\ Goto("agentEnd")
  /\ SameLoop /\ UNCHANGED <<queueVars, batchVars>> /\ SameRest

\* finishRun; the locals of the run and its signal are gone with it.
FinishRun ==
  /\ Goto("idle")
  /\ isStreaming' = FALSE
  /\ streamingMessage' = NoMessage
  /\ pendingToolCalls' = {}
  /\ aborted' = FALSE
  /\ NoRun /\ NoBatch
  /\ touched' = FALSE
  /\ polledAt' = 0
  /\ UNCHANGED <<transcript, errorMessage, queueVars, turn, accepted, cleared>>

Finish ==
  /\ pc \in {"agentEnd", "failAgentEnd"}
  /\ FinishRun
  /\ UNCHANGED <<stray, lost, threw, incidents>>

-----------------------------------------------------------------------------
(* handleRunFailure *)

Fail ==
  /\ reply' = Failure
  /\ OnMessageStart(reply')
  /\ Goto("failStart")
  /\ NoBatch
  /\ UNCHANGED <<context, pending, prompting, skipPoll, turn,
                 hasMoreToolCalls, queueVars, aborted,
                 accepted, cleared, touched, polledAt>>

\* convertToLlm, transformContext, getApiKey or the stream function throws.
RequestFails ==
  /\ At("request")
  /\ Fail
  /\ UNCHANGED <<stray, lost, threw, incidents>>

FailureEnd ==
  /\ At("failStart")
  /\ OnMessageEnd(reply)
  /\ Goto("failEnd")
  /\ SameLoop /\ UNCHANGED <<queueVars, batchVars>> /\ SameRest

FailureTurnEnd ==
  /\ At("failEnd")
  /\ OnTurnEnd(reply)
  /\ Goto("failTurnEnd")
  /\ SameLoop /\ UNCHANGED <<queueVars, batchVars>> /\ SameRest

FailureAgentEnd ==
  /\ At("failTurnEnd")
  /\ OnAgentEnd
  /\ Goto("failAgentEnd")
  /\ SameLoop /\ UNCHANGED <<queueVars, batchVars>> /\ SameRest

Incident ==
  /\ accepted + incidents < MaxInputs
  /\ incidents' = incidents + 1

\* A listener throws.  Prompts and drained messages that were not announced
\* yet are dropped.
Unannounced ==
  CASE pc \in {"agentStart", "turnStart", "messageStart"} \union Polling
                        -> pending
    [] At("messageEnd") -> Tail(pending)
    [] OTHER            -> <<>>

Throw ==
  /\ Incident
  /\ lost' = lost \union Ids(Unannounced)
  /\ threw' = TRUE

ListenerThrows ==
  /\ pc \in Listening \ Failing
  /\ Throw
  /\ Fail
  /\ UNCHANGED stray

\* One of several tools that run at the same time fails to report: the batch is
\* given up, and the other tools keep running unattended.
ToolListenerThrows(k) ==
  /\ At("toolsRunning")
  /\ call[k] \in {"running", "ending"}
  /\ Throw
  /\ stray' = stray \union {<<turn, j>> : j \in InState({"running"}) \ {k}}
  /\ Fail

\* A listener that throws while the failure is reported ends the run at once.
FailureListenerThrows ==
  /\ pc \in Failing
  /\ Throw
  /\ FinishRun
  /\ UNCHANGED stray

\* A tool of a failed batch finishes.  If the agent is idle by then, its event
\* updates the state and finds no run to report to.
StrayFinish ==
  /\ \E id \in stray :
       /\ stray' = stray \ {id}
       /\ OnToolEnd(id)
  /\ UNCHANGED <<queueVars, aborted, pc, turnVars, batchVars, envVars>>

-----------------------------------------------------------------------------
(* Calls from outside, at any time *)

AcceptInFront(via, q, q2) ==
  /\ accepted + incidents < MaxInputs
  /\ accepted' = accepted + 1
  /\ q2 = <<UserMessage(accepted', via)>> \o q

Accept(via, q, q2) ==
  /\ accepted + incidents < MaxInputs
  /\ accepted' = accepted + 1
  /\ q2 = Append(q, UserMessage(accepted', via))

Steer ==
  /\ Accept("steer", steeringQueue, steeringQueue')
  /\ UNCHANGED <<stateVars, followUpQueue, aborted, pc, turnVars, batchVars,
                 stray, cleared, lost, touched, threw, polledAt, incidents>>

FollowUp ==
  /\ Accept("followUp", followUpQueue, followUpQueue')
  /\ UNCHANGED <<stateVars, steeringQueue, aborted, pc, turnVars, batchVars,
                 stray, cleared, lost, touched, threw, polledAt, incidents>>

Abort ==
  /\ Active
  /\ aborted' = TRUE
  /\ UNCHANGED <<stateVars, queueVars, pc, turnVars, batchVars, stray, envVars>>

ClearSteeringQueue ==
  /\ Incident
  /\ steeringQueue' = <<>>
  /\ cleared' = cleared \union Ids(steeringQueue)
  /\ UNCHANGED <<stateVars, followUpQueue, aborted, pc, turnVars, batchVars,
                 stray, accepted, lost, touched, threw, polledAt>>

ClearFollowUpQueue ==
  /\ Incident
  /\ followUpQueue' = <<>>
  /\ cleared' = cleared \union Ids(followUpQueue)
  /\ UNCHANGED <<stateVars, steeringQueue, aborted, pc, turnVars, batchVars,
                 stray, accepted, lost, touched, threw, polledAt>>

Reset ==
  /\ Incident
  /\ transcript' = <<>>
  /\ isStreaming' = FALSE
  /\ streamingMessage' = NoMessage
  /\ pendingToolCalls' = {}
  /\ errorMessage' = FALSE
  /\ steeringQueue' = <<>>
  /\ followUpQueue' = <<>>
  /\ cleared' = cleared \union Ids(steeringQueue) \union Ids(followUpQueue)
                  \union Ids(transcript)
  /\ touched' = Active
  /\ UNCHANGED <<aborted, pc, turnVars, batchVars, stray, accepted, lost,
                 threw, polledAt>>

\* The setter of state.messages between runs: AgentSession takes a failed
\* answer out before it retries.
TrimLast ==
  /\ ~Active
  /\ Incident
  /\ transcript # <<>>
  /\ transcript[Len(transcript)].role = "assistant"
  /\ Failed(transcript[Len(transcript)])
  /\ transcript' = SubSeq(transcript, 1, Len(transcript) - 1)
  /\ UNCHANGED <<isStreaming, streamingMessage, pendingToolCalls, errorMessage,
                 queueVars, aborted, pc, turnVars, batchVars, stray, accepted,
                 cleared, lost, touched, threw, polledAt>>

-----------------------------------------------------------------------------
(* Steps the run, the provider and the tools take unless they fail *)
Progress ==
  \/ TurnStart \/ Announce \/ AnnounceEnd \/ AnnounceNext
  \/ FirstPoll \/ AnnounceFirstPolled \/ Request
  \/ ResponseStart \/ ResponseEnd \/ ResponseWhole \/ ResponseWholeEnd
  \/ FailedTurn \/ PlainTurn
  \/ ToolBatch \/ ToolImmediate \/ ToolPrepared \/ ToolNext \/ RunPrepared
  \/ (\E k \in Calls : ToolFinish(k)) \/ (\E k \in Calls : ToolSettle(k))
  \/ ResultStart \/ ResultEnd \/ BatchTurn
  \/ PollSteering \/ PollFollowUps \/ NextTurn \/ AgentEnd
  \/ FailureEnd \/ FailureTurnEnd \/ FailureAgentEnd
  \/ Finish

Environment ==
  \/ Prompt \/ Continue \/ Steer \/ FollowUp \/ Abort
  \/ ClearSteeringQueue \/ ClearFollowUpQueue \/ Reset \/ TrimLast

Next ==
  \/ Progress
  \/ RequestFails \/ ListenerThrows \/ FailureListenerThrows
  \/ (\E k \in Calls : ToolListenerThrows(k))
  \/ StrayFinish
  \/ Environment

Spec == Init /\ [][Next]_vars

\* The loop never waits for the environment: the provider ends its stream, the
\* tools and the listeners finish.
FairSpec == Spec /\ WF_vars(Progress)

-----------------------------------------------------------------------------
(* Properties *)

\* The loop's context and the agent's transcript are updated at different
\* awaits of the same run.  Whenever a response is requested they hold the same
\* messages, unless reset() emptied the transcript during the run.
TranscriptAgrees == At("request") /\ ~touched => context = transcript

\* When the turn of a batch closes, the transcript ends with the response and
\* one result per call, in the order of the calls, however the tools finished.
\* Only an aborted run may leave the last calls unanswered.
ToolResultsComplete ==
  At("turnEnd") /\ reply.calls > 0 /\ ~touched =>
    \E n \in 1..reply.calls :
      /\ n = reply.calls \/ aborted
      /\ Len(transcript) > n
      /\ SubSeq(transcript, Len(transcript) - n, Len(transcript))
           = <<reply>> \o [k \in 1..n |-> ToolResult(k)]

\* Calls between tool_execution_start and tool_execution_end.
OpenCalls == InState({"started", "ready", "running"})
OpenTools == IF pc \in InBatch THEN {turn} \X OpenCalls ELSE {}

\* Between runs the agent shows no activity, although tools of a failed batch
\* may still be running; during a run it shows that it streams.  While a batch
\* executes, pendingToolCalls names exactly the calls that have not ended.
StateSettled ==
  /\ ~Active => pendingToolCalls = {} /\ streamingMessage = NoMessage
  /\ ~touched => (isStreaming <=> Active)
  /\ ~touched /\ pc \in InBatch => pendingToolCalls = OpenTools

\* Where a user message is.
In(s, place, id) ==
  {<<place, k>> : k \in {j \in 1..Len(s) : IsUser(s[j]) /\ s[j].id = id}}

PlacesOf(id) ==
  In(transcript, "transcript", id) \union In(Unannounced, "drained", id)
    \union In(steeringQueue, "steering", id)
    \union In(followUpQueue, "followUp", id)
    \union {<<"cleared", 0>> : x \in {id} \intersect cleared}
    \union {<<"lost", 0>> : x \in {id} \intersect lost}

\* Every user message the agent accepted is in exactly one place, once:
\* announced in the transcript, queued, drained and about to be announced,
\* removed by clear or reset, or dropped because a listener threw.  Retries,
\* continuations and polls neither lose nor repeat one.
Conservation == \A id \in 1..accepted : Cardinality(PlacesOf(id)) = 1

\* Messages of the same queue reach the transcript in the order in which they
\* were accepted, whichever run delivers them and whatever the mode.
DeliveredInOrder ==
  \A i, j \in 1..Len(transcript) :
    /\ i < j
    /\ IsUser(transcript[i]) /\ IsUser(transcript[j])
    /\ transcript[i].via = transcript[j].via
    => transcript[i].id < transcript[j].id

\* A run that ends of its own accord has served both queues: what is queued
\* when agent_end is emitted was accepted after the last poll for steering.
NothingStranded ==
  At("agentEnd") /\ ~Failed(reply) =>
    \A id \in Ids(steeringQueue) \union Ids(followUpQueue) : id > polledAt

\* A run ends, whatever is queued or aborted meanwhile.
Settles == Active ~> ~Active

\* What the agent promises its listeners: the order of the events of a run.
\* A failure that no listener caused is reported within the turn it broke.
RunPhase ==
  CASE At("idle")       -> "idle"
    [] At("agentStart") -> "started"
    [] pc \in {"turnEnd", "turnEndFinal", "polled", "polledFollowUp",
               "failTurnEnd"} -> "between"
    [] pc \in {"agentEnd", "failAgentEnd"} -> "ended"
    [] OTHER            -> "turn"

MessageOpen ==
  pc \in {"messageStart", "streaming", "finalStart", "resultStart",
          "failStart"}

Protocol == INSTANCE RunProtocol
              WITH phase <- RunPhase, message <- MessageOpen,
                   tools <- OpenTools, loose <- stray, broken <- threw

\* The events of every run follow the protocol: while no listener throws, all
\* that a turn opens is closed before it ends, and agent_end is emitted once
\* and last, also by a run that is aborted or whose request fails.  After a
\* listener threw only the failure is reported.
FollowsProtocol == Protocol!Spec
=============================================================================
