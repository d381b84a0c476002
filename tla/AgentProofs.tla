---------------------------- MODULE AgentProofs ----------------------------
(***************************************************************************)
(* Theorems about the agent, for every value of the constants: its type    *)
(* invariant, each of its safety invariants, and that it implements        *)
(* RunProtocol.                                                            *)
(*                                                                         *)
(* TranscriptAgrees and StateSettled: at every await of the loop the       *)
(* context and the transcript are related in a way of its own (ContextInv),*)
(* and which one applies depends on whether the run still announces its    *)
(* prompts (LoopInv).  That pendingToolCalls is exact depends on what each *)
(* location of a batch says of its calls (BatchInv), and on tools left     *)
(* behind by a failed batch belonging to a turn that is over (StrayInv).   *)
(*                                                                         *)
(* DeliveredInOrder and Conservation: a user message is known by its mark, *)
(* the way it came in and its number.  The marks of the transcript, of the *)
(* drained messages and of the queue of one way form a line in which the   *)
(* numbers grow (LineInv), and each number given out is in one place       *)
(* (NumberInv).  Every step is one of nine moves of marks (StepMoves).     *)
(*                                                                         *)
(* NothingStranded: what a poll leaves of the queues, until the next one   *)
(* (ServedInv).  ToolResultsComplete: the results of a batch answer its    *)
(* calls in order, after the reply that made them (AnswerInv).             *)
(* FollowsProtocol: a call that starts was not open (StartedInv).          *)
(***************************************************************************)
EXTENDS Agent, FiniteSetTheorems, SequenceTheorems, TLAPS

-----------------------------------------------------------------------------
(* Messages and sequences of messages *)

LEMMA Bounds == MaxCalls \in Nat
  BY BoundsAssumption

LEMMA SubTypes ==
  /\ Users \subseteq Messages
  /\ Assistants \subseteq Messages
  /\ ToolResults \subseteq Messages
  /\ \A s \in Seq(Users) : s \in Seq(Messages)
  /\ \A s \in Seq(ToolResults) : s \in Seq(Messages)
  BY DEF Messages

LEMMA MessageTyping ==
  /\ Users \subseteq Messages
  /\ Assistants \subseteq Messages
  /\ ToolResults \subseteq Messages
  /\ NoReply \in Assistants
  /\ turn \in Nat =>
       /\ \A n \in 0..MaxCalls, s \in Stops : Assistant(n, s) \in Assistants
       /\ Partial \in Assistants /\ Failure \in Assistants
       /\ \A k \in Nat : ToolResult(k) \in ToolResults
  BY Bounds DEF Messages, Assistants, Stops, Assistant, Partial, Failure,
     ToolResults, ToolResult, NoReply

\* Draining splits a queue into messages and a queue.
LEMMA DrainTyping ==
  \A q \in Seq(Users), m \in QueueMode :
    Drained(q, m) \in Seq(Users) /\ AfterDrain(q, m) \in Seq(Users)
  BY DEF Drained, AfterDrain

LEMMA IdTyping ==
  /\ \A s \in Seq(Messages) : Ids(s) \subseteq Nat
  /\ \A s \in Seq(Users) : Ids(s) \subseteq Nat
<1>1. \A s \in Seq(Messages) : Ids(s) \subseteq Nat
  BY DEF Ids, IsUser, Messages, Users, Assistants, ToolResults
<1>. QED
  BY <1>1, SubTypes

\* Moving the first element of p to the end of s.
LEMMA MoveHead ==
  ASSUME NEW S, NEW s \in Seq(S), NEW p \in Seq(S), p # <<>>
  PROVE  Append(s, Head(p)) \o Tail(p) = s \o p
<1>1. /\ Head(p) \in S /\ Tail(p) \in Seq(S)
      /\ Len(p) \in Nat /\ Len(p) > 0 /\ Len(Tail(p)) = Len(p) - 1
  OBVIOUS
<1>2. /\ Append(s, Head(p)) \o Tail(p) \in Seq(S)
      /\ s \o p \in Seq(S)
  BY <1>1
<1>3. Len(Append(s, Head(p)) \o Tail(p)) = Len(s \o p)
  BY <1>1
<1>4. ASSUME NEW i \in 1..Len(s \o p)
      PROVE  (Append(s, Head(p)) \o Tail(p))[i] = (s \o p)[i]
  <2>1. CASE i <= Len(s)
    BY <2>1, <1>1
  <2>2. CASE i = Len(s) + 1
    BY <2>2, <1>1
  <2>3. CASE i > Len(s) + 1
    BY <2>3, <1>1
  <2>. QED
    BY <2>1, <2>2, <2>3
<1>. QED
  BY <1>2, <1>3, <1>4, SeqEqual

\* Replacing the last element.
LEMMA ReplaceLast ==
  ASSUME NEW S, NEW s \in Seq(S), NEW x \in S, NEW y \in S
  PROVE  [Append(s, x) EXCEPT ![Len(Append(s, x))] = y] = Append(s, y)
<1> DEFINE a == Append(s, x)
           b == [a EXCEPT ![Len(a)] = y]
           c == Append(s, y)
<1>1. a \in Seq(S) /\ Len(a) = Len(s) + 1 /\ Len(s) \in Nat
  OBVIOUS
<1>2. c \in Seq(S) /\ Len(c) = Len(s) + 1
  OBVIOUS
<1>3. /\ b \in Seq(S) /\ Len(b) = Len(a)
      /\ \A i \in 1..Len(a) : b[i] = IF i = Len(a) THEN y ELSE a[i]
  <2> HIDE DEF a
  <2>. QED
    BY <1>1, ExceptSeq
<1>4. \A i \in 1..Len(a) : c[i] = IF i = Len(a) THEN y ELSE a[i]
  BY <1>1
<1> HIDE DEF b, c
<1>5. b = c
  BY <1>1, <1>2, <1>3, <1>4, SeqEqual
<1>. QED
  BY <1>5 DEF b, c

\* Appending to the second of two sequences.
LEMMA AppendRight ==
  \A s, t \in Seq(Messages), m \in Messages :
    Append(s \o t, m) = s \o Append(t, m)
  OBVIOUS

-----------------------------------------------------------------------------
(* The inductive invariant *)

LoopInv ==
  /\ pc \in Announcing => pending # <<>>
  /\ pc = "streaming" => context # <<>>
  /\ pc = "agentStart" => prompting
  /\ prompting =>
       pc \in {"agentStart", "turnStart"} \union Announcing \union Failing

ContextInv ==
  ~touched =>
    /\ prompting /\ pc \in {"agentStart", "turnStart", "messageStart"} =>
         context = transcript \o pending
    /\ prompting /\ pc = "messageEnd" =>
         context = transcript \o Tail(pending)
    /\ /\ ~prompting
       /\ pc \in {"turnStart", "messageStart", "request", "assistantEnd"}
                   \union Polling \union Closing
       => context = transcript
    /\ ~prompting /\ pc = "messageEnd" =>
         transcript = Append(context, Head(pending))
    /\ pc = "streaming" => context = Append(transcript, Partial)
    /\ pc = "finalStart" => context = Append(transcript, reply)
    /\ pc \in InBatch => transcript = context \o results

\* Calls other than the one being started are waiting, ready or done.
OthersQuiet ==
  \A k \in Calls \ {cursor} : call[k] \in {"todo", "ready", "done"}

BatchInv ==
  /\ pc \in InBatch => reply.calls > 0 /\ cursor > 0
  /\ pc = "toolStart" => call[cursor] = "started" /\ OthersQuiet
  /\ pc = "prepared" => \A k \in Calls : call[k] \in {"todo", "ready", "done"}
  /\ pc = "toolEnd" => call[cursor] = "ending" /\ OthersQuiet
  /\ pc = "toolsRunning" => \A k \in Calls : call[k] \notin {"started", "ready"}
  /\ pc \in {"resultStart", "resultEnd"} =>
       \A k \in Calls : call[k] \in {"todo", "done"}
  /\ pc \in InBatch /\ mode = "sequential" =>
       \A k \in Calls : call[k] # "ready"

\* Before a run makes its first request it may share its turn number with
\* tools of the run before.
BeforeRequest ==
  {"idle", "agentStart", "turnStart", "initialPoll"}
    \union Announcing \union Failing

StrayInv ==
  \A id \in stray :
    IF pc \in BeforeRequest THEN id[1] <= turn ELSE id[1] < turn

ActivityInv ==
  /\ ~Active =>
       pendingToolCalls = {} /\ streamingMessage = NoMessage /\ ~touched
  /\ ~touched => (isStreaming <=> Active)
  /\ ~touched /\ pc \notin Failing => pendingToolCalls = OpenTools

IInv ==
  /\ TypeOK
  /\ LoopInv /\ ContextInv
  /\ BatchInv /\ StrayInv /\ ActivityInv

\* What a failing run has not announced are user messages.
LEMMA UnannouncedTyping ==
  ASSUME MessageTypes, LoopInv
  PROVE  Unannounced \in Seq(Users)
<1>1. CASE pc = "messageEnd"
  BY <1>1 DEF MessageTypes, LoopInv, Announcing, Unannounced, At, Polling
<1>2. CASE pc # "messageEnd"
  BY <1>2 DEF MessageTypes, Unannounced, At
<1>. QED
  BY <1>1, <1>2

LEMMA ResponseTyping ==
  ASSUME turn \in Nat, NEW m, Response(m)
  PROVE  m \in Assistants
  BY Bounds DEF Response, Assistant, Assistants, Stops

-----------------------------------------------------------------------------
(* What a step preserves, one conjunct at a time *)

\* The flags stay Boolean.
LEMMA FlagStep ==
  ASSUME FlagTypes, [Next]_vars
  PROVE  FlagTypes'
<1>1. CASE TurnStart \/ Announce \/ AnnounceEnd \/ AnnounceNext
           \/ AnnounceFirstPolled \/ Request \/ ResponseStart
           \/ ResponseEnd \/ ResponseWhole \/ ResponseWholeEnd \/ ToolBatch
           \/ ToolImmediate \/ ToolPrepared \/ ToolNext \/ RunPrepared
           \/ (\E k \in Calls : ToolFinish(k))
           \/ (\E k \in Calls : ToolSettle(k)) \/ ResultStart \/ ResultEnd
           \/ PollSteering \/ PollFollowUps \/ NextTurn \/ AgentEnd
           \/ FailureEnd \/ FailureAgentEnd \/ RequestFails
           \/ ListenerThrows \/ (\E k \in Calls : ToolListenerThrows(k))
           \/ StrayFinish \/ Steer \/ FollowUp \/ ClearSteeringQueue
           \/ ClearFollowUpQueue \/ TrimLast
  <2>1. UNCHANGED <<isStreaming, errorMessage, aborted, prompting, skipPoll, hasMoreToolCalls,
                 touched>> /\ (threw' = threw \/ threw' = TRUE)
    BY <1>1 DEF TurnStart, Throw, SameAgent, SameLoop, SameRest, stateVars, envVars,
         Announce, OnMessageStart, AnnounceEnd, OnMessageEnd, AnnounceNext,
         AnnounceFirstPolled, Request, ResponseStart, ResponseEnd,
         ResponseWhole, ResponseWholeEnd, ToolBatch, OnToolStart,
         ToolImmediate, OnToolEnd, ToolPrepared, ToolNext, RunPrepared,
         ToolFinish, ToolSettle, ResultStart, ResultEnd, PollSteering,
         PollFollowUps, NextTurn, AgentEnd, OnAgentEnd, FailureEnd,
         FailureAgentEnd, RequestFails, Fail, ListenerThrows,
         ToolListenerThrows, StrayFinish, turnVars, Steer, FollowUp,
         ClearSteeringQueue, ClearFollowUpQueue, TrimLast
  <2>. QED
    BY <2>1 DEF FlagTypes
<1>2. CASE FirstPoll
  BY <1>2 DEF FlagTypes, FirstPoll, SameRest, stateVars, envVars
<1>3. CASE FailedTurn
  BY <1>3 DEF FlagTypes, FailedTurn, Failed, OnTurnEnd, SameLoop, SameRest,
       envVars
<1>4. CASE PlainTurn
  BY <1>4 DEF FlagTypes, PlainTurn, Failed, OnTurnEnd, SameRest, envVars
<1>5. CASE BatchTurn
  BY <1>5 DEF FlagTypes, BatchTurn, Failed, OnTurnEnd, SameRest, MoreCalls,
       envVars
<1>6. CASE FailureTurnEnd
  BY <1>6 DEF FlagTypes, FailureTurnEnd, Failed, OnTurnEnd, SameLoop,
       SameRest, envVars
<1>7. CASE Finish
  BY <1>7 DEF FlagTypes, Finish, NoRun, FinishRun
<1>8. CASE FailureListenerThrows
  BY <1>8 DEF FlagTypes, FailureListenerThrows, Throw, NoRun, FinishRun
<1>9. CASE Prompt
  BY <1>9 DEF FlagTypes, Prompt, StartRun
<1>10. CASE ContinueFromQueues
  BY <1>10 DEF FlagTypes, ContinueFromQueues, StartRun
<1>11. CASE ContinueTranscript
  BY <1>11 DEF FlagTypes, ContinueTranscript, StartRun
<1>12. CASE Abort
  BY <1>12 DEF FlagTypes, Abort, stateVars, turnVars, envVars
<1>13. CASE Reset
  <2>1. touched' \in BOOLEAN
    BY <1>13, Zenon DEF Reset, Active
  <2>2. /\ UNCHANGED <<aborted, prompting, skipPoll, hasMoreToolCalls, threw>>
        /\ isStreaming' = FALSE /\ errorMessage' = FALSE
    BY <1>13 DEF Reset, turnVars
  <2>. QED
    BY <2>1, <2>2 DEF FlagTypes
<1>14. CASE UNCHANGED vars
  BY <1>14 DEF FlagTypes, vars, stateVars, queueVars, turnVars, batchVars,
       envVars
<1>. QED
  BY <1>1, <1>2, <1>3, <1>4, <1>5, <1>6, <1>7, <1>8, <1>9, <1>10,
     <1>11, <1>12, <1>13, <1>14 DEF Next, Progress,
     Environment, Continue

\* A run is always suspended at one of the awaits.
LEMMA LocationStep ==
  ASSUME pc \in Locations, [Next]_vars
  PROVE  (pc \in Locations)'
<1>1. CASE (\E k \in Calls : ToolFinish(k))
           \/ (\E k \in Calls : ToolSettle(k)) \/ StrayFinish \/ Steer
           \/ FollowUp \/ Abort \/ ClearSteeringQueue \/ ClearFollowUpQueue
           \/ Reset \/ TrimLast
  <2>1. UNCHANGED <<pc>>
    BY <1>1 DEF ToolFinish, ToolSettle, StrayFinish, Steer, FollowUp, Abort,
         ClearSteeringQueue, ClearFollowUpQueue, Reset, TrimLast
  <2>. QED
    BY <2>1
<1>2. CASE TurnStart
  BY <1>2 DEF Locations, Listening, Announcing, Responding, InBatch, Closing,
       Failing, Polling, TurnStart, At, Goto
<1>3. CASE Announce
  BY <1>3 DEF Locations, Listening, Announcing, Responding, InBatch, Closing,
       Failing, Polling, Announce, At, Goto
<1>4. CASE AnnounceEnd
  BY <1>4 DEF Locations, Listening, Announcing, Responding, InBatch, Closing,
       Failing, Polling, AnnounceEnd, At, Goto
<1>5. CASE AnnounceNext
  BY <1>5 DEF Locations, Listening, Announcing, Responding, InBatch, Closing,
       Failing, Polling, AnnounceNext, At, Goto
<1>6. CASE FirstPoll
  BY <1>6 DEF Locations, Listening, Announcing, Responding, InBatch, Closing,
       Failing, Polling, FirstPoll, At, Goto
<1>7. CASE AnnounceFirstPolled
  BY <1>7 DEF Locations, Listening, Announcing, Responding, InBatch, Closing,
       Failing, Polling, AnnounceFirstPolled, At, Goto
<1>8. CASE Request
  BY <1>8 DEF Locations, Listening, Announcing, Responding, InBatch, Closing,
       Failing, Polling, Request, At, Goto
<1>9. CASE ResponseStart
  BY <1>9 DEF Locations, Listening, Announcing, Responding, InBatch, Closing,
       Failing, Polling, ResponseStart, At, Goto
<1>10. CASE ResponseEnd
  BY <1>10 DEF Locations, Listening, Announcing, Responding, InBatch, Closing,
       Failing, Polling, ResponseEnd, At, Goto
<1>11. CASE ResponseWhole
  BY <1>11 DEF Locations, Listening, Announcing, Responding, InBatch, Closing,
       Failing, Polling, ResponseWhole, At, Goto
<1>12. CASE ResponseWholeEnd
  BY <1>12 DEF Locations, Listening, Announcing, Responding, InBatch, Closing,
       Failing, Polling, ResponseWholeEnd, At, Goto
<1>13. CASE FailedTurn
  BY <1>13 DEF Locations, Listening, Announcing, Responding, InBatch, Closing,
       Failing, Polling, FailedTurn, At, Goto
<1>14. CASE PlainTurn
  BY <1>14 DEF Locations, Listening, Announcing, Responding, InBatch, Closing,
       Failing, Polling, PlainTurn, At, Goto
<1>15. CASE ToolBatch
  BY <1>15 DEF Locations, Listening, Announcing, Responding, InBatch, Closing,
       Failing, Polling, ToolBatch, At, Goto
<1>16. CASE ToolImmediate
  BY <1>16 DEF Locations, Listening, Announcing, Responding, InBatch, Closing,
       Failing, Polling, ToolImmediate, At, Goto
<1>17. CASE ToolPrepared
  BY <1>17 DEF Locations, Listening, Announcing, Responding, InBatch, Closing,
       Failing, Polling, ToolPrepared, At, Goto
<1>18. CASE ToolNext
  BY <1>18 DEF Locations, Listening, Announcing, Responding, InBatch, Closing,
       Failing, Polling, ToolNext, At, Goto
<1>19. CASE RunPrepared
  BY <1>19 DEF Locations, Listening, Announcing, Responding, InBatch, Closing,
       Failing, Polling, RunPrepared, At, Goto
<1>20. CASE ResultStart
  BY <1>20 DEF Locations, Listening, Announcing, Responding, InBatch, Closing,
       Failing, Polling, ResultStart, At, Goto
<1>21. CASE ResultEnd
  BY <1>21 DEF Locations, Listening, Announcing, Responding, InBatch, Closing,
       Failing, Polling, ResultEnd, At, Goto
<1>22. CASE BatchTurn
  BY <1>22 DEF Locations, Listening, Announcing, Responding, InBatch, Closing,
       Failing, Polling, BatchTurn, At, Goto
<1>23. CASE PollSteering
  BY <1>23 DEF Locations, Listening, Announcing, Responding, InBatch, Closing,
       Failing, Polling, PollSteering, At, Goto
<1>24. CASE PollFollowUps
  BY <1>24 DEF Locations, Listening, Announcing, Responding, InBatch, Closing,
       Failing, Polling, PollFollowUps, At, Goto
<1>25. CASE NextTurn
  BY <1>25 DEF Locations, Listening, Announcing, Responding, InBatch, Closing,
       Failing, Polling, NextTurn, At, Goto
<1>26. CASE AgentEnd
  BY <1>26 DEF Locations, Listening, Announcing, Responding, InBatch, Closing,
       Failing, Polling, AgentEnd, At, Goto
<1>27. CASE FailureEnd
  BY <1>27 DEF Locations, Listening, Announcing, Responding, InBatch, Closing,
       Failing, Polling, FailureEnd, At, Goto
<1>28. CASE FailureTurnEnd
  BY <1>28 DEF Locations, Listening, Announcing, Responding, InBatch, Closing,
       Failing, Polling, FailureTurnEnd, At, Goto
<1>29. CASE FailureAgentEnd
  BY <1>29 DEF Locations, Listening, Announcing, Responding, InBatch, Closing,
       Failing, Polling, FailureAgentEnd, At, Goto
<1>30. CASE Finish
  BY <1>30 DEF Locations, Listening, Announcing, Responding, InBatch, Closing,
       Failing, Polling, Finish, Goto, FinishRun
<1>31. CASE RequestFails
  BY <1>31 DEF Locations, Listening, Announcing, Responding, InBatch, Closing,
       Failing, Polling, RequestFails, At, Goto, Fail
<1>32. CASE ListenerThrows
  BY <1>32 DEF Locations, Listening, Announcing, Responding, InBatch, Closing,
       Failing, Polling, ListenerThrows, At, Goto, Fail, Unannounced, Throw
<1>33. CASE FailureListenerThrows
  BY <1>33 DEF Locations, Listening, Announcing, Responding, InBatch, Closing,
       Failing, Polling, FailureListenerThrows, At, Goto, FinishRun,
       Unannounced, Throw
<1>34. ASSUME NEW k \in Calls, ToolListenerThrows(k) PROVE (pc \in Locations)'
  BY <1>34 DEF Locations, Listening, Announcing, Responding, InBatch, Closing,
       Failing, Polling, ToolListenerThrows, At, Goto, Fail, Unannounced,
       Throw
<1>35. CASE Prompt
  BY <1>35 DEF Locations, Listening, Announcing, Responding, InBatch, Closing,
       Failing, Polling, Prompt, Active, StartRun
<1>36. CASE ContinueFromQueues
  BY <1>36 DEF Locations, Listening, Announcing, Responding, InBatch, Closing,
       Failing, Polling, ContinueFromQueues, Active, StartRun
<1>37. CASE ContinueTranscript
  BY <1>37 DEF Locations, Listening, Announcing, Responding, InBatch, Closing,
       Failing, Polling, ContinueTranscript, Active, StartRun
<1>38. CASE UNCHANGED vars
  BY <1>38 DEF vars, stateVars, queueVars, turnVars, batchVars, envVars
<1>. QED
  BY <1>1, <1>2, <1>3, <1>4, <1>5, <1>6, <1>7, <1>8, <1>9, <1>10,
     <1>11, <1>12, <1>13, <1>14, <1>15, <1>16, <1>17, <1>18, <1>19, <1>20,
     <1>21, <1>22, <1>23, <1>24, <1>25, <1>26, <1>27, <1>28, <1>29, <1>30,
     <1>31, <1>32, <1>33, <1>34, <1>35, <1>36, <1>37, <1>38 DEF Next, Progress,
     Environment, Continue

\* Counters and sets of message numbers keep their types.
LEMMA CountStep ==
  ASSUME CountTypes, MessageTypes, LoopInv, [Next]_vars
  PROVE  CountTypes'
<1>1. CASE TurnStart \/ Announce \/ AnnounceEnd \/ AnnounceNext
           \/ FirstPoll \/ AnnounceFirstPolled \/ ResponseStart
           \/ ResponseEnd \/ ResponseWhole \/ ResponseWholeEnd
           \/ FailedTurn \/ PlainTurn \/ ToolBatch \/ ToolImmediate
           \/ ToolPrepared \/ ToolNext \/ RunPrepared
           \/ (\E k \in Calls : ToolFinish(k))
           \/ (\E k \in Calls : ToolSettle(k)) \/ ResultStart \/ ResultEnd
           \/ BatchTurn \/ PollFollowUps \/ NextTurn \/ AgentEnd
           \/ FailureEnd \/ FailureTurnEnd \/ FailureAgentEnd
           \/ RequestFails \/ StrayFinish \/ ContinueFromQueues
           \/ ContinueTranscript \/ Abort
  <2>1. UNCHANGED <<turn, accepted, cleared, lost, polledAt, incidents>>
    BY <1>1 DEF TurnStart, SameLoop, SameRest, envVars, Announce, AnnounceEnd,
         AnnounceNext, FirstPoll, AnnounceFirstPolled, ResponseStart,
         ResponseEnd, ResponseWhole, ResponseWholeEnd, FailedTurn, PlainTurn,
         ToolBatch, OnToolStart, ToolImmediate, ToolPrepared, ToolNext,
         RunPrepared, ToolFinish, ToolSettle, ResultStart, ResultEnd,
         BatchTurn, PollFollowUps, NextTurn, AgentEnd, FailureEnd,
         FailureTurnEnd, FailureAgentEnd, RequestFails, Fail, StrayFinish,
         turnVars, ContinueFromQueues, StartRun, ContinueTranscript, Abort
  <2>. QED
    BY <2>1 DEF CountTypes
<1>2. CASE Request
  BY <1>2, IdTyping DEF CountTypes, MessageTypes, Request, SameRest, envVars
<1>3. CASE PollSteering
  BY <1>3, IdTyping DEF CountTypes, MessageTypes, PollSteering
<1>4. CASE Finish
  BY <1>4, IdTyping DEF CountTypes, MessageTypes, Finish, NoReply, NoRun,
       FinishRun
<1>5. CASE ListenerThrows
  <2>1. incidents' = incidents + 1 /\ lost' = lost \union Ids(Unannounced)
    BY <1>5 DEF ListenerThrows, Throw, Incident
  <2>2. Ids(Unannounced) \subseteq Nat
    BY UnannouncedTyping, IdTyping
  <2>3. UNCHANGED <<turn, accepted, cleared>> /\ polledAt' \in Nat
    BY <1>5 DEF ListenerThrows, Fail, CountTypes
  <2>4. lost' \subseteq Nat
    BY <2>1, <2>2 DEF CountTypes
  <2>5. incidents' \in Nat
    BY <2>1 DEF CountTypes
  <2>. QED
    BY <2>3, <2>4, <2>5 DEF CountTypes
<1>6. CASE FailureListenerThrows
  <2>1. incidents' = incidents + 1 /\ lost' = lost \union Ids(Unannounced)
    BY <1>6 DEF FailureListenerThrows, Throw, Incident
  <2>2. Ids(Unannounced) \subseteq Nat
    BY UnannouncedTyping, IdTyping
  <2>3. UNCHANGED <<turn, accepted, cleared>> /\ polledAt' \in Nat
    BY <1>6 DEF FailureListenerThrows, FinishRun, CountTypes
  <2>4. lost' \subseteq Nat
    BY <2>1, <2>2 DEF CountTypes
  <2>5. incidents' \in Nat
    BY <2>1 DEF CountTypes
  <2>. QED
    BY <2>3, <2>4, <2>5 DEF CountTypes
<1>7. ASSUME NEW k \in Calls, ToolListenerThrows(k) PROVE CountTypes'
  <2>1. incidents' = incidents + 1 /\ lost' = lost \union Ids(Unannounced)
    BY <1>7 DEF ToolListenerThrows, Throw, Incident
  <2>2. Ids(Unannounced) \subseteq Nat
    BY UnannouncedTyping, IdTyping
  <2>3. UNCHANGED <<turn, accepted, cleared>> /\ polledAt' \in Nat
    BY <1>7 DEF ToolListenerThrows, Fail, CountTypes
  <2>4. lost' \subseteq Nat
    BY <2>1, <2>2 DEF CountTypes
  <2>5. incidents' \in Nat
    BY <2>1 DEF CountTypes
  <2>. QED
    BY <2>3, <2>4, <2>5 DEF CountTypes
<1>8. CASE Prompt
  BY <1>8, IdTyping DEF CountTypes, MessageTypes, Prompt, StartRun
<1>9. CASE Steer
  BY <1>9, IdTyping DEF CountTypes, MessageTypes, Steer, Accept, turnVars
<1>10. CASE FollowUp
  BY <1>10, IdTyping DEF CountTypes, MessageTypes, FollowUp, Accept, turnVars
<1>11. CASE ClearSteeringQueue
  <2>1. /\ incidents' = incidents + 1
        /\ cleared' = cleared \union Ids(steeringQueue)
        /\ UNCHANGED <<turn, accepted, lost, polledAt>>
    BY <1>11 DEF ClearSteeringQueue, Incident, turnVars
  <2>2. cleared' \subseteq Nat
    BY <2>1, IdTyping DEF CountTypes, MessageTypes
  <2>. QED
    BY <2>1, <2>2 DEF CountTypes
<1>12. CASE ClearFollowUpQueue
  <2>1. /\ incidents' = incidents + 1
        /\ cleared' = cleared \union Ids(followUpQueue)
        /\ UNCHANGED <<turn, accepted, lost, polledAt>>
    BY <1>12 DEF ClearFollowUpQueue, Incident, turnVars
  <2>2. cleared' \subseteq Nat
    BY <2>1, IdTyping DEF CountTypes, MessageTypes
  <2>. QED
    BY <2>1, <2>2 DEF CountTypes
<1>13. CASE Reset
  <2>1. /\ incidents' = incidents + 1
        /\ cleared' = cleared \union Ids(steeringQueue) \union Ids(followUpQueue)
                     \union Ids(transcript)
        /\ UNCHANGED <<turn, accepted, lost, polledAt>>
    BY <1>13 DEF Reset, Incident, turnVars
  <2>2. cleared' \subseteq Nat
    BY <2>1, IdTyping DEF CountTypes, MessageTypes
  <2>. QED
    BY <2>1, <2>2 DEF CountTypes
<1>14. CASE TrimLast
  BY <1>14, IdTyping DEF CountTypes, MessageTypes, TrimLast, Incident, turnVars
<1>15. CASE UNCHANGED vars
  BY <1>15 DEF CountTypes, vars, stateVars, queueVars, turnVars, batchVars,
       envVars
<1>. QED
  BY <1>1, <1>2, <1>3, <1>4, <1>5, <1>6, <1>7, <1>8, <1>9, <1>10,
     <1>11, <1>12, <1>13, <1>14, <1>15 DEF Next, Progress,
     Environment, Continue

\* The locals of a batch keep their types.
LEMMA BatchTypeStep ==
  ASSUME BatchTypes, CountTypes, MessageTypes, [Next]_vars
  PROVE  BatchTypes'
<1>1. CASE TurnStart \/ Announce \/ AnnounceEnd \/ AnnounceNext
           \/ FirstPoll \/ AnnounceFirstPolled \/ Request \/ ResponseStart
           \/ ResponseEnd \/ ResponseWhole \/ ResponseWholeEnd
           \/ FailedTurn \/ PlainTurn \/ ResultEnd \/ PollSteering
           \/ PollFollowUps \/ NextTurn \/ AgentEnd \/ FailureEnd
           \/ FailureTurnEnd \/ FailureAgentEnd \/ Prompt
           \/ ContinueFromQueues \/ ContinueTranscript \/ Steer \/ FollowUp
           \/ Abort \/ ClearSteeringQueue \/ ClearFollowUpQueue \/ TrimLast
  <2>1. UNCHANGED <<pendingToolCalls, mode, call, cursor, stops, stray>>
    BY <1>1 DEF TurnStart, SameAgent, SameRest, stateVars, batchVars,
         Announce, OnMessageStart, AnnounceEnd, OnMessageEnd, AnnounceNext,
         FirstPoll, AnnounceFirstPolled, Request, ResponseStart, ResponseEnd,
         ResponseWhole, ResponseWholeEnd, FailedTurn, OnTurnEnd, PlainTurn,
         ResultEnd, PollSteering, PollFollowUps, NextTurn, AgentEnd,
         OnAgentEnd, FailureEnd, FailureTurnEnd, FailureAgentEnd, Prompt,
         StartRun, ContinueFromQueues, ContinueTranscript, Steer, FollowUp,
         Abort, ClearSteeringQueue, ClearFollowUpQueue, TrimLast
  <2>. QED
    BY <2>1 DEF BatchTypes
<1>2. CASE ToolBatch
  BY <1>2, Bounds, ModesAssumption DEF BatchTypes, CountTypes, MessageTypes,
       Calls, CallStates, ToolExecutionMode, Assistants, ToolBatch,
       OnToolStart, SameRest
<1>3. CASE ToolImmediate
  BY <1>3, Bounds, ModesAssumption DEF BatchTypes, CountTypes, MessageTypes,
       Calls, CallStates, ToolExecutionMode, Assistants, ToolImmediate,
       OnToolEnd, SameRest
<1>4. CASE ToolPrepared
  BY <1>4, Bounds, ModesAssumption DEF BatchTypes, CountTypes, MessageTypes,
       Calls, CallStates, ToolExecutionMode, Assistants, ToolPrepared,
       SameAgent, SameRest, stateVars
<1>5. CASE ToolNext
  <2>1. cursor + 1 \in Calls
    BY <1>5, Bounds DEF ToolNext, MoreCalls, BatchTypes, MessageTypes,
         Assistants, Calls
  <2>2. cursor' \in 0..MaxCalls
    BY <1>5, <2>1, Bounds DEF ToolNext, Calls
  <2>3. call' \in [Calls -> CallStates]
    BY <1>5 DEF ToolNext, BatchTypes, CallStates
  <2>4. pendingToolCalls' \subseteq (Nat \X Calls)
    BY <1>5, <2>1 DEF ToolNext, OnToolStart, BatchTypes, CountTypes
  <2>5. UNCHANGED <<mode, stops, stray>>
    BY <1>5 DEF ToolNext, SameRest
  <2>. QED
    BY <2>2, <2>3, <2>4, <2>5 DEF BatchTypes
<1>6. CASE RunPrepared
  BY <1>6, Bounds, ModesAssumption DEF BatchTypes, CountTypes, MessageTypes,
       Calls, CallStates, ToolExecutionMode, Assistants, RunPrepared,
       SameAgent, SameRest, MoreCalls, stateVars
<1>7. ASSUME NEW k \in Calls, ToolFinish(k) PROVE BatchTypes'
  BY <1>7, Bounds, ModesAssumption DEF BatchTypes, CountTypes, MessageTypes,
       Calls, CallStates, ToolExecutionMode, Assistants, ToolFinish,
       OnToolEnd, SameRest
<1>8. ASSUME NEW k \in Calls, ToolSettle(k) PROVE BatchTypes'
  BY <1>8, Bounds, ModesAssumption DEF BatchTypes, CountTypes, MessageTypes,
       Calls, CallStates, ToolExecutionMode, Assistants, ToolSettle,
       SameAgent, SameRest, stateVars
<1>9. CASE ResultStart
  BY <1>9, Bounds, ModesAssumption DEF BatchTypes, CountTypes, MessageTypes,
       Calls, CallStates, ToolExecutionMode, Assistants, ResultStart,
       ToolResult, InState, OnMessageStart, SameRest, BatchSettled, NextResult
<1>10. CASE BatchTurn
  BY <1>10, Bounds, ModesAssumption DEF BatchTypes, CountTypes, MessageTypes,
       Calls, CallStates, ToolExecutionMode, Assistants, BatchTurn, OnTurnEnd,
       SameRest, NoBatch, MoreCalls
<1>11. CASE Finish
  BY <1>11, Bounds, ModesAssumption DEF BatchTypes, CountTypes, MessageTypes,
       Calls, CallStates, ToolExecutionMode, Assistants, Finish, NoBatch,
       FinishRun
<1>12. CASE RequestFails
  BY <1>12, Bounds, ModesAssumption DEF BatchTypes, CountTypes, MessageTypes,
       Calls, CallStates, ToolExecutionMode, Assistants, RequestFails,
       OnMessageStart, NoBatch, Fail
<1>13. CASE ListenerThrows
  BY <1>13, Bounds, ModesAssumption DEF BatchTypes, CountTypes, MessageTypes,
       Calls, CallStates, ToolExecutionMode, Assistants, ListenerThrows,
       OnMessageStart, NoBatch, Fail
<1>14. CASE FailureListenerThrows
  BY <1>14, Bounds, ModesAssumption DEF BatchTypes, CountTypes, MessageTypes,
       Calls, CallStates, ToolExecutionMode, Assistants,
       FailureListenerThrows, NoBatch, FinishRun
<1>15. ASSUME NEW k \in Calls, ToolListenerThrows(k) PROVE BatchTypes'
  BY <1>15, Bounds, ModesAssumption DEF BatchTypes, CountTypes, MessageTypes,
       Calls, CallStates, ToolExecutionMode, Assistants, ToolListenerThrows,
       InState, OnMessageStart, NoBatch, Fail
<1>16. CASE StrayFinish
  BY <1>16, Bounds, ModesAssumption DEF BatchTypes, CountTypes, MessageTypes,
       Calls, CallStates, ToolExecutionMode, Assistants, StrayFinish,
       OnToolEnd, batchVars
<1>17. CASE Reset
  BY <1>17, Bounds, ModesAssumption DEF BatchTypes, CountTypes, MessageTypes,
       Calls, CallStates, ToolExecutionMode, Assistants, Reset, batchVars
<1>18. CASE UNCHANGED vars
  BY <1>18 DEF BatchTypes, vars, stateVars, queueVars, turnVars, batchVars,
       envVars
<1>. QED
  BY <1>1, <1>2, <1>3, <1>4, <1>5, <1>6, <1>7, <1>8, <1>9, <1>10,
     <1>11, <1>12, <1>13, <1>14, <1>15, <1>16, <1>17, <1>18 DEF Next, Progress,
     Environment, Continue

\* Transcript, context and queues hold messages only.
LEMMA MessageStep ==
  ASSUME MessageTypes, CountTypes, BatchTypes, LoopInv, [Next]_vars
  PROVE  MessageTypes'
<1>1. CASE (\E k \in Calls : ToolFinish(k))
           \/ (\E k \in Calls : ToolSettle(k)) \/ StrayFinish \/ Abort
  <2>1. UNCHANGED <<transcript, streamingMessage, steeringQueue, followUpQueue, pc, context,
                       pending, turn, reply, results>>
    BY <1>1 DEF ToolFinish, OnToolEnd, SameLoop, queueVars, ToolSettle,
         SameAgent, stateVars, StrayFinish, turnVars, batchVars, Abort
  <2>. QED
    BY <2>1 DEF MessageTypes
<1>2. CASE TurnStart
  BY <1>2, Bounds, MessageTyping, DrainTyping DEF MessageTypes, CountTypes,
       BatchTypes, LoopInv, Announcing, TurnStart, At, Goto, SameAgent,
       SameLoop, stateVars, queueVars, batchVars
<1>3. CASE Announce
  BY <1>3, Bounds, MessageTyping, DrainTyping DEF MessageTypes, CountTypes,
       BatchTypes, LoopInv, Announcing, Announce, OnMessageStart, At, Goto,
       SameLoop, queueVars, batchVars
<1>4. CASE AnnounceEnd
  BY <1>4, Bounds, MessageTyping, DrainTyping DEF MessageTypes, CountTypes,
       BatchTypes, LoopInv, Announcing, AnnounceEnd, OnMessageEnd, At, Goto,
       SameLoop, queueVars, batchVars
<1>5. CASE AnnounceNext
  BY <1>5, Bounds, MessageTyping, DrainTyping DEF MessageTypes, CountTypes,
       BatchTypes, LoopInv, Announcing, AnnounceNext, OnMessageStart, At,
       Goto, Pushed, queueVars, batchVars
<1>6. CASE FirstPoll
  <2>1. /\ pending' \in Seq(Users)
        /\ steeringQueue' \in Seq(Users) /\ followUpQueue' \in Seq(Users)
    <3>1. CASE skipPoll
      BY <1>6, <3>1 DEF FirstPoll, queueVars, MessageTypes
    <3>2. CASE ~skipPoll
      BY <1>6, <3>2, DrainTyping, ModesAssumption
         DEF FirstPoll, DrainSteering, MessageTypes
    <3>. QED
      BY <3>1, <3>2
  <2>2. UNCHANGED <<transcript, streamingMessage, context, reply, results>>
    BY <1>6 DEF FirstPoll, stateVars, batchVars
  <2>. QED
    BY <2>1, <2>2 DEF MessageTypes
<1>7. CASE AnnounceFirstPolled
  BY <1>7, Bounds, MessageTyping, DrainTyping DEF MessageTypes, CountTypes,
       BatchTypes, LoopInv, Announcing, AnnounceFirstPolled, OnMessageStart,
       At, Goto, SameLoop, queueVars, batchVars
<1>8. CASE Request
  <2>1. /\ UNCHANGED <<transcript, streamingMessage, reply, results>>
        /\ UNCHANGED <<steeringQueue, followUpQueue>>
    BY <1>8 DEF Request, SameAgent, stateVars, queueVars, batchVars
  <2>2. context' \in Seq(Messages) /\ pending' \in Seq(Users)
    <3>1. CASE UNCHANGED <<context, pending>>
      BY <3>1 DEF MessageTypes
    <3>2. CASE At("messageEnd") /\ context' = Pushed /\ pending' = <<>>
      <4>1. Head(pending) \in Messages
        BY <3>2, MessageTyping DEF At, LoopInv, Announcing, MessageTypes
      <4>. QED
        BY <3>2, <4>1 DEF Pushed, MessageTypes
    <3>. QED
      BY <1>8, <3>1, <3>2 DEF Request
  <2>. QED
    BY <2>1, <2>2 DEF MessageTypes
<1>9. CASE ResponseStart
  BY <1>9, Bounds, MessageTyping, DrainTyping DEF MessageTypes, CountTypes,
       BatchTypes, LoopInv, Announcing, ResponseStart, OnMessageStart, At,
       Goto, queueVars, batchVars
<1>10. CASE ResponseEnd
  <2>1. reply' \in Assistants
    BY <1>10, ResponseTyping DEF ResponseEnd, CountTypes
  <2>2. context' \in Seq(Messages)
    <3>1. context # <<>> /\ Len(context) \in 1..Len(context)
      BY <1>10 DEF ResponseEnd, At, LoopInv, MessageTypes
    <3>2. reply' \in Messages
      BY <2>1, MessageTyping
    <3>. QED
      BY <1>10, <3>1, <3>2, ExceptSeq DEF ResponseEnd, MessageTypes
  <2>3. transcript' \in Seq(Messages) /\ streamingMessage' = NoMessage
    BY <1>10, <2>1, MessageTyping DEF ResponseEnd, OnMessageEnd, MessageTypes
  <2>4. UNCHANGED <<pending, results, steeringQueue, followUpQueue>>
    BY <1>10 DEF ResponseEnd, queueVars, batchVars
  <2>. QED
    BY <2>1, <2>2, <2>3, <2>4 DEF MessageTypes
<1>11. CASE ResponseWhole
  <2>1. reply' \in Assistants
    BY <1>11, ResponseTyping DEF ResponseWhole, CountTypes
  <2>2. context' \in Seq(Messages) /\ streamingMessage' \in Messages
    BY <1>11, <2>1, MessageTyping DEF ResponseWhole, OnMessageStart, MessageTypes
  <2>3. /\ UNCHANGED <<transcript, pending, results>>
        /\ UNCHANGED <<steeringQueue, followUpQueue>>
    BY <1>11 DEF ResponseWhole, OnMessageStart, queueVars, batchVars
  <2>. QED
    BY <2>1, <2>2, <2>3 DEF MessageTypes
<1>12. CASE ResponseWholeEnd
  BY <1>12, Bounds, MessageTyping, DrainTyping DEF MessageTypes, CountTypes,
       BatchTypes, LoopInv, Announcing, ResponseWholeEnd, OnMessageEnd, At,
       Goto, SameLoop, queueVars, batchVars
<1>13. CASE FailedTurn
  BY <1>13, Bounds, MessageTyping, DrainTyping DEF MessageTypes, CountTypes,
       BatchTypes, LoopInv, Announcing, FailedTurn, OnTurnEnd, At, Goto,
       SameLoop, queueVars, batchVars
<1>14. CASE PlainTurn
  BY <1>14, Bounds, MessageTyping, DrainTyping DEF MessageTypes, CountTypes,
       BatchTypes, LoopInv, Announcing, PlainTurn, OnTurnEnd, At, Goto,
       queueVars, batchVars
<1>15. CASE ToolBatch
  BY <1>15, Bounds, MessageTyping, DrainTyping DEF MessageTypes, CountTypes,
       BatchTypes, LoopInv, Announcing, ToolBatch, OnToolStart, At, Goto,
       SameLoop, queueVars
<1>16. CASE ToolImmediate
  BY <1>16, Bounds, MessageTyping, DrainTyping DEF MessageTypes, CountTypes,
       BatchTypes, LoopInv, Announcing, ToolImmediate, OnToolEnd, At, Goto,
       SameLoop, queueVars
<1>17. CASE ToolPrepared
  BY <1>17, Bounds, MessageTyping, DrainTyping DEF MessageTypes, CountTypes,
       BatchTypes, LoopInv, Announcing, ToolPrepared, At, Goto, SameAgent,
       SameLoop, stateVars, queueVars
<1>18. CASE ToolNext
  BY <1>18, Bounds, MessageTyping, DrainTyping DEF MessageTypes, CountTypes,
       BatchTypes, LoopInv, Announcing, ToolNext, OnToolStart, At, Goto,
       SameLoop, MoreCalls, queueVars
<1>19. CASE RunPrepared
  BY <1>19, Bounds, MessageTyping, DrainTyping DEF MessageTypes, CountTypes,
       BatchTypes, LoopInv, Announcing, RunPrepared, At, Goto, SameAgent,
       SameLoop, MoreCalls, stateVars, queueVars
<1>20. CASE ResultStart
  BY <1>20, Bounds, MessageTyping, DrainTyping DEF MessageTypes, CountTypes,
       BatchTypes, LoopInv, Announcing, ResultStart, OnMessageStart, At, Goto,
       SameLoop, NextResult, queueVars
<1>21. CASE ResultEnd
  BY <1>21, Bounds, MessageTyping, DrainTyping DEF MessageTypes, CountTypes,
       BatchTypes, LoopInv, Announcing, ResultEnd, OnMessageEnd, At, Goto,
       SameLoop, NextResult, queueVars
<1>22. CASE BatchTurn
  BY <1>22, Bounds, MessageTyping, DrainTyping DEF MessageTypes, CountTypes,
       BatchTypes, LoopInv, Announcing, BatchTurn, OnTurnEnd, At, Goto,
       NoBatch, MoreCalls, queueVars
<1>23. CASE PollSteering
  BY <1>23, Bounds, ModesAssumption, MessageTyping, DrainTyping DEF
       MessageTypes, CountTypes, BatchTypes, LoopInv, Announcing,
       PollSteering, DrainSteering, At, Goto, stateVars, batchVars
<1>24. CASE PollFollowUps
  BY <1>24, Bounds, ModesAssumption, MessageTyping, DrainTyping DEF
       MessageTypes, CountTypes, BatchTypes, LoopInv, Announcing,
       PollFollowUps, DrainFollowUps, At, Goto, stateVars, batchVars
<1>25. CASE NextTurn
  BY <1>25, Bounds, MessageTyping, DrainTyping DEF MessageTypes, CountTypes,
       BatchTypes, LoopInv, Announcing, NextTurn, At, Goto, SameAgent,
       SameLoop, stateVars, queueVars, batchVars
<1>26. CASE AgentEnd
  BY <1>26, Bounds, MessageTyping, DrainTyping DEF MessageTypes, CountTypes,
       BatchTypes, LoopInv, Announcing, AgentEnd, OnAgentEnd, At, Goto,
       SameLoop, queueVars, batchVars
<1>27. CASE FailureEnd
  BY <1>27, Bounds, MessageTyping, DrainTyping DEF MessageTypes, CountTypes,
       BatchTypes, LoopInv, Announcing, FailureEnd, OnMessageEnd, At, Goto,
       SameLoop, queueVars, batchVars
<1>28. CASE FailureTurnEnd
  BY <1>28, Bounds, MessageTyping, DrainTyping DEF MessageTypes, CountTypes,
       BatchTypes, LoopInv, Announcing, FailureTurnEnd, OnTurnEnd, At, Goto,
       SameLoop, queueVars, batchVars
<1>29. CASE FailureAgentEnd
  BY <1>29, Bounds, MessageTyping, DrainTyping DEF MessageTypes, CountTypes,
       BatchTypes, LoopInv, Announcing, FailureAgentEnd, OnAgentEnd, At, Goto,
       SameLoop, queueVars, batchVars
<1>30. CASE Finish
  BY <1>30, Bounds, MessageTyping, DrainTyping DEF MessageTypes, CountTypes,
       BatchTypes, LoopInv, Announcing, Finish, Goto, NoRun, NoBatch,
       FinishRun, queueVars
<1>31. CASE RequestFails
  BY <1>31, Bounds, MessageTyping, DrainTyping DEF MessageTypes, CountTypes,
       BatchTypes, LoopInv, Announcing, RequestFails, OnMessageStart, At,
       Goto, NoBatch, Fail, queueVars
<1>32. CASE ListenerThrows
  BY <1>32, Bounds, MessageTyping, DrainTyping DEF MessageTypes, CountTypes,
       BatchTypes, LoopInv, Announcing, ListenerThrows, OnMessageStart, At,
       Goto, NoBatch, Fail, Unannounced, Throw, queueVars
<1>33. CASE FailureListenerThrows
  BY <1>33, Bounds, MessageTyping, DrainTyping DEF MessageTypes, CountTypes,
       BatchTypes, LoopInv, Announcing, FailureListenerThrows, At, Goto,
       NoRun, NoBatch, FinishRun, Unannounced, Throw, queueVars
<1>34. ASSUME NEW k \in Calls, ToolListenerThrows(k) PROVE MessageTypes'
  BY <1>34, Bounds, MessageTyping, DrainTyping DEF MessageTypes, CountTypes,
       BatchTypes, LoopInv, Announcing, ToolListenerThrows, OnMessageStart,
       At, Goto, NoBatch, Fail, Unannounced, Throw, queueVars
<1>35. CASE Prompt
  <2>1. PICK n \in 1..MaxPrompt :
          /\ pending' = [i \in 1..n |-> UserMessage(accepted + i, "prompt")]
          /\ context' = transcript \o pending'
    BY <1>35 DEF Prompt, StartRun
  <2>2. pending' \in Seq(Users)
    <3>1. \A i \in 1..n : UserMessage(accepted + i, "prompt") \in Users
      BY DEF UserMessage, Users, Vias, CountTypes
    <3>. QED
      BY <2>1, <3>1, BoundsAssumption
  <2>3. context' \in Seq(Messages)
    BY <2>1, <2>2, SubTypes DEF MessageTypes
  <2>4. /\ streamingMessage' = NoMessage
        /\ UNCHANGED <<transcript, steeringQueue, followUpQueue, reply, results>>
    BY <1>35 DEF Prompt, StartRun, queueVars, batchVars
  <2>. QED
    BY <2>2, <2>3, <2>4 DEF MessageTypes
<1>36. CASE ContinueFromQueues
  <2>1. /\ pending' \in Seq(Users)
        /\ steeringQueue' \in Seq(Users) /\ followUpQueue' \in Seq(Users)
    BY <1>36, DrainTyping, ModesAssumption
       DEF ContinueFromQueues, StartRun, MessageTypes
  <2>2. context' = transcript \o pending'
    BY <1>36 DEF ContinueFromQueues, StartRun
  <2>3. context' \in Seq(Messages)
    BY <2>1, <2>2, SubTypes DEF MessageTypes
  <2>4. /\ streamingMessage' = NoMessage
        /\ UNCHANGED <<transcript, reply, results>>
    BY <1>36 DEF ContinueFromQueues, StartRun, batchVars
  <2>. QED
    BY <2>1, <2>3, <2>4 DEF MessageTypes
<1>37. CASE ContinueTranscript
  BY <1>37, Bounds, MessageTyping, DrainTyping DEF MessageTypes, CountTypes,
       BatchTypes, LoopInv, Announcing, ContinueTranscript, Active, StartRun,
       queueVars, batchVars
<1>38. CASE Steer
  <2>1. UserMessage(accepted + 1, "steer") \in Users
    BY DEF UserMessage, Users, Vias, CountTypes
  <2>2. steeringQueue' = Append(steeringQueue, UserMessage(accepted + 1, "steer"))
    BY <1>38 DEF Steer, Accept
  <2>3. /\ UNCHANGED <<transcript, streamingMessage, followUpQueue, context>>
        /\ UNCHANGED <<pending, reply, results>>
    BY <1>38 DEF Steer, stateVars, turnVars, batchVars
  <2>. QED
    BY <2>1, <2>2, <2>3 DEF MessageTypes
<1>39. CASE FollowUp
  <2>1. UserMessage(accepted + 1, "followUp") \in Users
    BY DEF UserMessage, Users, Vias, CountTypes
  <2>2. followUpQueue' = Append(followUpQueue, UserMessage(accepted + 1, "followUp"))
    BY <1>39 DEF FollowUp, Accept
  <2>3. /\ UNCHANGED <<transcript, streamingMessage, steeringQueue, context>>
        /\ UNCHANGED <<pending, reply, results>>
    BY <1>39 DEF FollowUp, stateVars, turnVars, batchVars
  <2>. QED
    BY <2>1, <2>2, <2>3 DEF MessageTypes
<1>40. CASE ClearSteeringQueue
  BY <1>40, Bounds, MessageTyping, DrainTyping DEF MessageTypes, CountTypes,
       BatchTypes, LoopInv, Announcing, ClearSteeringQueue, stateVars,
       turnVars, batchVars
<1>41. CASE ClearFollowUpQueue
  BY <1>41, Bounds, MessageTyping, DrainTyping DEF MessageTypes, CountTypes,
       BatchTypes, LoopInv, Announcing, ClearFollowUpQueue, stateVars,
       turnVars, batchVars
<1>42. CASE Reset
  BY <1>42, Bounds, MessageTyping, DrainTyping DEF MessageTypes, CountTypes,
       BatchTypes, LoopInv, Announcing, Reset, Active, turnVars, batchVars
<1>43. CASE TrimLast
  BY <1>43, Bounds, MessageTyping, DrainTyping DEF MessageTypes, CountTypes,
       BatchTypes, LoopInv, Announcing, TrimLast, Active, queueVars, turnVars,
       batchVars
<1>44. CASE UNCHANGED vars
  BY <1>44 DEF MessageTypes, vars, stateVars, queueVars, turnVars, batchVars,
       envVars
<1>. QED
  BY <1>1, <1>2, <1>3, <1>4, <1>5, <1>6, <1>7, <1>8, <1>9, <1>10,
     <1>11, <1>12, <1>13, <1>14, <1>15, <1>16, <1>17, <1>18, <1>19, <1>20,
     <1>21, <1>22, <1>23, <1>24, <1>25, <1>26, <1>27, <1>28, <1>29, <1>30,
     <1>31, <1>32, <1>33, <1>34, <1>35, <1>36, <1>37, <1>38, <1>39, <1>40,
     <1>41, <1>42, <1>43, <1>44 DEF Next, Progress,
     Environment, Continue

\* A message is there to be announced, prompts come first.
LEMMA LoopStep ==
  ASSUME LoopInv, MessageTypes, [Next]_vars
  PROVE  LoopInv'
<1>1. CASE (\E k \in Calls : ToolFinish(k))
           \/ (\E k \in Calls : ToolSettle(k)) \/ StrayFinish \/ Steer
           \/ FollowUp \/ Abort \/ ClearSteeringQueue \/ ClearFollowUpQueue
           \/ Reset \/ TrimLast
  <2>1. UNCHANGED <<pc, context, pending, prompting>>
    BY <1>1 DEF ToolFinish, SameLoop, ToolSettle, StrayFinish, turnVars,
         Steer, FollowUp, Abort, ClearSteeringQueue, ClearFollowUpQueue,
         Reset, TrimLast
  <2>. QED
    BY <2>1 DEF LoopInv
<1>2. CASE TurnStart
  BY <1>2 DEF LoopInv, MessageTypes, Announcing, Responding, InBatch, Closing,
       Failing, Polling, TurnStart, At, Goto, SameLoop
<1>3. CASE Announce
  BY <1>3 DEF LoopInv, MessageTypes, Announcing, Responding, InBatch, Closing,
       Failing, Polling, Announce, At, Goto, SameLoop
<1>4. CASE AnnounceEnd
  BY <1>4 DEF LoopInv, MessageTypes, Announcing, Responding, InBatch, Closing,
       Failing, Polling, AnnounceEnd, At, Goto, SameLoop
<1>5. CASE AnnounceNext
  BY <1>5 DEF LoopInv, MessageTypes, Announcing, Responding, InBatch, Closing,
       Failing, Polling, AnnounceNext, At, Goto, Pushed
<1>6. CASE FirstPoll
  BY <1>6 DEF LoopInv, MessageTypes, Announcing, Responding, InBatch, Closing,
       Failing, Polling, FirstPoll, At, Goto
<1>7. CASE AnnounceFirstPolled
  BY <1>7 DEF LoopInv, MessageTypes, Announcing, Responding, InBatch, Closing,
       Failing, Polling, AnnounceFirstPolled, At, Goto, SameLoop
<1>8. CASE Request
  BY <1>8 DEF LoopInv, MessageTypes, Announcing, Responding, InBatch, Closing,
       Failing, Polling, Request, At, Goto, Pushed
<1>9. CASE ResponseStart
  <2>1. pc' = "streaming" /\ UNCHANGED <<pending, prompting>> /\ pc = "request"
    BY <1>9 DEF ResponseStart, At, Goto
  <2>2. context' # <<>>
    <3>1. Len(context') = Len(context) + 1 /\ Len(context) \in Nat
      BY <1>9 DEF ResponseStart, MessageTypes
    <3>. QED
      BY <3>1
  <2>. QED
    BY <2>1, <2>2 DEF LoopInv, Announcing, Failing
<1>10. CASE ResponseEnd
  BY <1>10 DEF LoopInv, MessageTypes, Announcing, Responding, InBatch,
       Closing, Failing, Polling, ResponseEnd, At, Goto
<1>11. CASE ResponseWhole
  BY <1>11 DEF LoopInv, MessageTypes, Announcing, Responding, InBatch,
       Closing, Failing, Polling, ResponseWhole, At, Goto
<1>12. CASE ResponseWholeEnd
  BY <1>12 DEF LoopInv, MessageTypes, Announcing, Responding, InBatch,
       Closing, Failing, Polling, ResponseWholeEnd, At, Goto, SameLoop
<1>13. CASE FailedTurn
  BY <1>13 DEF LoopInv, MessageTypes, Announcing, Responding, InBatch,
       Closing, Failing, Polling, FailedTurn, At, Goto, SameLoop
<1>14. CASE PlainTurn
  BY <1>14 DEF LoopInv, MessageTypes, Announcing, Responding, InBatch,
       Closing, Failing, Polling, PlainTurn, At, Goto
<1>15. CASE ToolBatch
  BY <1>15 DEF LoopInv, MessageTypes, Announcing, Responding, InBatch,
       Closing, Failing, Polling, ToolBatch, At, Goto, SameLoop
<1>16. CASE ToolImmediate
  BY <1>16 DEF LoopInv, MessageTypes, Announcing, Responding, InBatch,
       Closing, Failing, Polling, ToolImmediate, At, Goto, SameLoop
<1>17. CASE ToolPrepared
  BY <1>17 DEF LoopInv, MessageTypes, Announcing, Responding, InBatch,
       Closing, Failing, Polling, ToolPrepared, At, Goto, SameLoop
<1>18. CASE ToolNext
  BY <1>18 DEF LoopInv, MessageTypes, Announcing, Responding, InBatch,
       Closing, Failing, Polling, ToolNext, At, Goto, SameLoop
<1>19. CASE RunPrepared
  BY <1>19 DEF LoopInv, MessageTypes, Announcing, Responding, InBatch,
       Closing, Failing, Polling, RunPrepared, At, Goto, SameLoop
<1>20. CASE ResultStart
  BY <1>20 DEF LoopInv, MessageTypes, Announcing, Responding, InBatch,
       Closing, Failing, Polling, ResultStart, At, Goto, SameLoop
<1>21. CASE ResultEnd
  BY <1>21 DEF LoopInv, MessageTypes, Announcing, Responding, InBatch,
       Closing, Failing, Polling, ResultEnd, At, Goto, SameLoop
<1>22. CASE BatchTurn
  BY <1>22 DEF LoopInv, MessageTypes, Announcing, Responding, InBatch,
       Closing, Failing, Polling, BatchTurn, At, Goto
<1>23. CASE PollSteering
  BY <1>23 DEF LoopInv, MessageTypes, Announcing, Responding, InBatch,
       Closing, Failing, Polling, PollSteering, At, Goto
<1>24. CASE PollFollowUps
  BY <1>24 DEF LoopInv, MessageTypes, Announcing, Responding, InBatch,
       Closing, Failing, Polling, PollFollowUps, At, Goto
<1>25. CASE NextTurn
  BY <1>25 DEF LoopInv, MessageTypes, Announcing, Responding, InBatch,
       Closing, Failing, Polling, NextTurn, At, Goto, SameLoop
<1>26. CASE AgentEnd
  BY <1>26 DEF LoopInv, MessageTypes, Announcing, Responding, InBatch,
       Closing, Failing, Polling, AgentEnd, At, Goto, SameLoop
<1>27. CASE FailureEnd
  BY <1>27 DEF LoopInv, MessageTypes, Announcing, Responding, InBatch,
       Closing, Failing, Polling, FailureEnd, At, Goto, SameLoop
<1>28. CASE FailureTurnEnd
  BY <1>28 DEF LoopInv, MessageTypes, Announcing, Responding, InBatch,
       Closing, Failing, Polling, FailureTurnEnd, At, Goto, SameLoop
<1>29. CASE FailureAgentEnd
  BY <1>29 DEF LoopInv, MessageTypes, Announcing, Responding, InBatch,
       Closing, Failing, Polling, FailureAgentEnd, At, Goto, SameLoop
<1>30. CASE Finish
  BY <1>30 DEF LoopInv, MessageTypes, Announcing, Responding, InBatch,
       Closing, Failing, Polling, Finish, Goto, NoRun, FinishRun
<1>31. CASE RequestFails
  BY <1>31 DEF LoopInv, MessageTypes, Announcing, Responding, InBatch,
       Closing, Failing, Polling, RequestFails, At, Goto, Fail
<1>32. CASE ListenerThrows
  BY <1>32 DEF LoopInv, MessageTypes, Announcing, Responding, InBatch,
       Closing, Failing, Polling, ListenerThrows, At, Goto, Fail, Unannounced,
       Throw
<1>33. CASE FailureListenerThrows
  BY <1>33 DEF LoopInv, MessageTypes, Announcing, Responding, InBatch,
       Closing, Failing, Polling, FailureListenerThrows, At, Goto, NoRun,
       FinishRun, Unannounced, Throw
<1>34. ASSUME NEW k \in Calls, ToolListenerThrows(k) PROVE LoopInv'
  BY <1>34 DEF LoopInv, MessageTypes, Announcing, Responding, InBatch,
       Closing, Failing, Polling, ToolListenerThrows, At, Goto, Fail,
       Unannounced, Throw
<1>35. CASE Prompt
  BY <1>35 DEF LoopInv, MessageTypes, Announcing, Responding, InBatch,
       Closing, Failing, Polling, Prompt, Active, StartRun
<1>36. CASE ContinueFromQueues
  BY <1>36 DEF LoopInv, MessageTypes, Announcing, Responding, InBatch,
       Closing, Failing, Polling, ContinueFromQueues, Active, StartRun
<1>37. CASE ContinueTranscript
  BY <1>37 DEF LoopInv, MessageTypes, Announcing, Responding, InBatch,
       Closing, Failing, Polling, ContinueTranscript, Active, StartRun
<1>38. CASE UNCHANGED vars
  BY <1>38 DEF LoopInv, vars, stateVars, queueVars, turnVars, batchVars,
       envVars
<1>. QED
  BY <1>1, <1>2, <1>3, <1>4, <1>5, <1>6, <1>7, <1>8, <1>9, <1>10,
     <1>11, <1>12, <1>13, <1>14, <1>15, <1>16, <1>17, <1>18, <1>19, <1>20,
     <1>21, <1>22, <1>23, <1>24, <1>25, <1>26, <1>27, <1>28, <1>29, <1>30,
     <1>31, <1>32, <1>33, <1>34, <1>35, <1>36, <1>37, <1>38 DEF Next, Progress,
     Environment, Continue

\* The loop's context and the transcript differ by exactly what the run has
\* announced to one of them only.
LEMMA ContextStep ==
  ASSUME ContextInv, LoopInv, MessageTypes, CountTypes, [Next]_vars
  PROVE  ContextInv'
<1>1. CASE (\E k \in Calls : ToolFinish(k))
           \/ (\E k \in Calls : ToolSettle(k)) \/ StrayFinish \/ Steer
           \/ FollowUp \/ Abort \/ ClearSteeringQueue \/ ClearFollowUpQueue
  <2>1. UNCHANGED <<transcript, pc, context, pending, prompting, turn, reply, results, touched>>
    BY <1>1 DEF ToolFinish, OnToolEnd, SameLoop, SameRest, envVars,
         ToolSettle, SameAgent, stateVars, StrayFinish, turnVars, batchVars,
         Steer, FollowUp, Abort, ClearSteeringQueue, ClearFollowUpQueue
  <2>. QED
    BY <2>1 DEF ContextInv, Partial, Assistant
<1>2. CASE TurnStart
  BY <1>2, SubTypes, MessageTyping, ReplaceLast DEF ContextInv, LoopInv,
       MessageTypes, CountTypes, Announcing, Responding, InBatch, Closing,
       Failing, Polling, TurnStart, At, Goto, SameAgent, SameLoop, SameRest,
       stateVars, batchVars, envVars
<1>3. CASE Announce
  BY <1>3, SubTypes, MessageTyping, ReplaceLast DEF ContextInv, LoopInv,
       MessageTypes, CountTypes, Announcing, Responding, InBatch, Closing,
       Failing, Polling, Announce, OnMessageStart, At, Goto, SameLoop,
       SameRest, batchVars, envVars
<1>4. CASE AnnounceEnd
  <2>1. /\ pc = "messageStart" /\ pc' = "messageEnd"
        /\ transcript' = Append(transcript, Head(pending))
        /\ UNCHANGED <<context, pending, prompting, touched>>
    BY <1>4 DEF AnnounceEnd, OnMessageEnd, At, Goto, SameLoop, SameRest, envVars
  <2>2. ~touched /\ prompting => context = transcript' \o Tail(pending)
    <3>1. pending \in Seq(Messages) /\ transcript \in Seq(Messages)
      BY SubTypes DEF MessageTypes
    <3>2. pending # <<>>
      BY <2>1 DEF LoopInv, Announcing
    <3>3. ~touched /\ prompting => context = transcript \o pending
      BY <2>1 DEF ContextInv
    <3>. QED
      BY <2>1, <3>1, <3>2, <3>3, MoveHead
  <2>3. ~touched /\ ~prompting => context = transcript
    BY <2>1 DEF ContextInv
  <2>. QED
    BY <2>1, <2>2, <2>3 DEF ContextInv, InBatch, Polling, Closing
<1>5. CASE AnnounceNext
  BY <1>5, SubTypes, MessageTyping, ReplaceLast DEF ContextInv, LoopInv,
       MessageTypes, CountTypes, Announcing, Responding, InBatch, Closing,
       Failing, Polling, AnnounceNext, OnMessageStart, At, Goto, SameRest,
       Pushed, batchVars, envVars
<1>6. CASE FirstPoll
  <2>1. /\ UNCHANGED <<touched, context, transcript>>
        /\ pc' = "initialPoll" /\ prompting' = FALSE
    BY <1>6 DEF FirstPoll, Goto, stateVars, SameRest, envVars
  <2>2. ASSUME ~touched PROVE context = transcript
    <3>1. CASE At("turnStart") /\ pending = <<>>
      BY <1>6, <2>2, <3>1 DEF FirstPoll, ContextInv, At, MessageTypes
    <3>2. CASE At("messageEnd") /\ Tail(pending) = <<>>
      <4>1. context = transcript \o <<>>
        BY <1>6, <2>2, <3>2 DEF FirstPoll, ContextInv, At
      <4>. QED
        BY <4>1, ConcatEmptySeq DEF MessageTypes
    <3>. QED
      BY <1>6, <3>1, <3>2 DEF FirstPoll
  <2>. QED
    BY <2>1, <2>2 DEF ContextInv, InBatch
<1>7. CASE AnnounceFirstPolled
  BY <1>7, SubTypes, MessageTyping, ReplaceLast DEF ContextInv, LoopInv,
       MessageTypes, CountTypes, Announcing, Responding, InBatch, Closing,
       Failing, Polling, AnnounceFirstPolled, OnMessageStart, At, Goto,
       SameLoop, SameRest, batchVars, envVars
<1>8. CASE Request
  BY <1>8, SubTypes, MessageTyping, ReplaceLast DEF ContextInv, LoopInv,
       MessageTypes, CountTypes, Announcing, Responding, InBatch, Closing,
       Failing, Polling, Request, At, Goto, SameAgent, SameRest, Pushed,
       stateVars, batchVars, envVars
<1>9. CASE ResponseStart
  BY <1>9, SubTypes, MessageTyping, ReplaceLast DEF ContextInv, LoopInv,
       MessageTypes, CountTypes, Announcing, Responding, InBatch, Closing,
       Failing, Polling, ResponseStart, Assistant, Partial, OnMessageStart,
       At, Goto, SameRest, batchVars, envVars
<1>10. CASE ResponseEnd
  BY <1>10, SubTypes, MessageTyping, ReplaceLast DEF ContextInv, LoopInv,
       MessageTypes, CountTypes, Announcing, Responding, InBatch, Closing,
       Failing, Polling, ResponseEnd, Assistant, OnMessageEnd, At, Goto,
       SameRest, Response, batchVars, envVars
<1>11. CASE ResponseWhole
  BY <1>11, SubTypes, MessageTyping, ReplaceLast DEF ContextInv, LoopInv,
       MessageTypes, CountTypes, Announcing, Responding, InBatch, Closing,
       Failing, Polling, ResponseWhole, Assistant, OnMessageStart, At, Goto,
       SameRest, Response, batchVars, envVars
<1>12. CASE ResponseWholeEnd
  BY <1>12, SubTypes, MessageTyping, ReplaceLast DEF ContextInv, LoopInv,
       MessageTypes, CountTypes, Announcing, Responding, InBatch, Closing,
       Failing, Polling, ResponseWholeEnd, OnMessageEnd, At, Goto, SameLoop,
       SameRest, batchVars, envVars
<1>13. CASE FailedTurn
  BY <1>13, SubTypes, MessageTyping, ReplaceLast DEF ContextInv, LoopInv,
       MessageTypes, CountTypes, Announcing, Responding, InBatch, Closing,
       Failing, Polling, FailedTurn, OnTurnEnd, At, Goto, SameLoop, SameRest,
       batchVars, envVars
<1>14. CASE PlainTurn
  BY <1>14, SubTypes, MessageTyping, ReplaceLast DEF ContextInv, LoopInv,
       MessageTypes, CountTypes, Announcing, Responding, InBatch, Closing,
       Failing, Polling, PlainTurn, OnTurnEnd, At, Goto, SameRest, batchVars,
       envVars
<1>15. CASE ToolBatch
  BY <1>15, SubTypes, MessageTyping, ReplaceLast DEF ContextInv, LoopInv,
       MessageTypes, CountTypes, Announcing, Responding, InBatch, Closing,
       Failing, Polling, ToolBatch, OnToolStart, At, Goto, SameLoop, SameRest,
       envVars
<1>16. CASE ToolImmediate
  BY <1>16, SubTypes, MessageTyping, ReplaceLast DEF ContextInv, LoopInv,
       MessageTypes, CountTypes, Announcing, Responding, InBatch, Closing,
       Failing, Polling, ToolImmediate, OnToolEnd, At, Goto, SameLoop,
       SameRest, envVars
<1>17. CASE ToolPrepared
  BY <1>17, SubTypes, MessageTyping, ReplaceLast DEF ContextInv, LoopInv,
       MessageTypes, CountTypes, Announcing, Responding, InBatch, Closing,
       Failing, Polling, ToolPrepared, At, Goto, SameAgent, SameLoop,
       SameRest, stateVars, envVars
<1>18. CASE ToolNext
  BY <1>18, SubTypes, MessageTyping, ReplaceLast DEF ContextInv, LoopInv,
       MessageTypes, CountTypes, Announcing, Responding, InBatch, Closing,
       Failing, Polling, ToolNext, OnToolStart, At, Goto, SameLoop, SameRest,
       MoreCalls, envVars
<1>19. CASE RunPrepared
  BY <1>19, SubTypes, MessageTyping, ReplaceLast DEF ContextInv, LoopInv,
       MessageTypes, CountTypes, Announcing, Responding, InBatch, Closing,
       Failing, Polling, RunPrepared, At, Goto, SameAgent, SameLoop, SameRest,
       MoreCalls, stateVars, envVars
<1>20. CASE ResultStart
  BY <1>20, SubTypes, MessageTyping, ReplaceLast DEF ContextInv, LoopInv,
       MessageTypes, CountTypes, Announcing, Responding, InBatch, Closing,
       Failing, Polling, ResultStart, ToolResult, OnMessageStart, At, Goto,
       SameLoop, SameRest, NextResult, envVars
<1>21. CASE ResultEnd
  <2>1. /\ UNCHANGED <<touched, context, prompting>>
        /\ pc' = "resultEnd"
        /\ results' = Append(results, NextResult)
        /\ transcript' = Append(transcript, NextResult)
    BY <1>21 DEF ResultEnd, Goto, OnMessageEnd, SameLoop, SameRest, envVars
  <2>2. NextResult \in Messages
    BY MessageTyping DEF NextResult, CountTypes, MessageTypes
  <2>3. ASSUME ~touched PROVE transcript' = context' \o results'
    <3>1. transcript = context \o results
      BY <1>21, <2>3 DEF ResultEnd, At, ContextInv, InBatch
    <3>2. context \in Seq(Messages) /\ results \in Seq(Messages)
      BY SubTypes DEF MessageTypes
    <3>3. Append(context \o results, NextResult)
            = context \o Append(results, NextResult)
      BY <2>2, <3>2, AppendRight, Zenon
    <3>. QED
      BY <2>1, <3>1, <3>3
  <2>. QED
    BY <2>1, <2>3 DEF ContextInv, Polling, Closing
<1>22. CASE BatchTurn
  BY <1>22, SubTypes, MessageTyping, ReplaceLast DEF ContextInv, LoopInv,
       MessageTypes, CountTypes, Announcing, Responding, InBatch, Closing,
       Failing, Polling, BatchTurn, OnTurnEnd, At, Goto, SameRest, NoBatch,
       MoreCalls, envVars
<1>23. CASE PollSteering
  BY <1>23, SubTypes, MessageTyping, ReplaceLast DEF ContextInv, LoopInv,
       MessageTypes, CountTypes, Announcing, Responding, InBatch, Closing,
       Failing, Polling, PollSteering, At, Goto, stateVars, batchVars
<1>24. CASE PollFollowUps
  BY <1>24, SubTypes, MessageTyping, ReplaceLast DEF ContextInv, LoopInv,
       MessageTypes, CountTypes, Announcing, Responding, InBatch, Closing,
       Failing, Polling, PollFollowUps, At, Goto, SameRest, stateVars,
       batchVars, envVars
<1>25. CASE NextTurn
  BY <1>25, SubTypes, MessageTyping, ReplaceLast DEF ContextInv, LoopInv,
       MessageTypes, CountTypes, Announcing, Responding, InBatch, Closing,
       Failing, Polling, NextTurn, At, Goto, SameAgent, SameLoop, SameRest,
       stateVars, batchVars, envVars
<1>26. CASE AgentEnd
  BY <1>26, SubTypes, MessageTyping, ReplaceLast DEF ContextInv, LoopInv,
       MessageTypes, CountTypes, Announcing, Responding, InBatch, Closing,
       Failing, Polling, AgentEnd, OnAgentEnd, At, Goto, SameLoop, SameRest,
       batchVars, envVars
<1>27. CASE FailureEnd
  BY <1>27, SubTypes, MessageTyping, ReplaceLast DEF ContextInv, LoopInv,
       MessageTypes, CountTypes, Announcing, Responding, InBatch, Closing,
       Failing, Polling, FailureEnd, OnMessageEnd, At, Goto, SameLoop,
       SameRest, batchVars, envVars
<1>28. CASE FailureTurnEnd
  BY <1>28, SubTypes, MessageTyping, ReplaceLast DEF ContextInv, LoopInv,
       MessageTypes, CountTypes, Announcing, Responding, InBatch, Closing,
       Failing, Polling, FailureTurnEnd, OnTurnEnd, At, Goto, SameLoop,
       SameRest, batchVars, envVars
<1>29. CASE FailureAgentEnd
  BY <1>29, SubTypes, MessageTyping, ReplaceLast DEF ContextInv, LoopInv,
       MessageTypes, CountTypes, Announcing, Responding, InBatch, Closing,
       Failing, Polling, FailureAgentEnd, OnAgentEnd, At, Goto, SameLoop,
       SameRest, batchVars, envVars
<1>30. CASE Finish
  BY <1>30, SubTypes, MessageTyping, ReplaceLast DEF ContextInv, LoopInv,
       MessageTypes, CountTypes, Announcing, Responding, InBatch, Closing,
       Failing, Polling, Finish, NoReply, Goto, NoRun, NoBatch, FinishRun
<1>31. CASE RequestFails
  BY <1>31, SubTypes, MessageTyping, ReplaceLast DEF ContextInv, LoopInv,
       MessageTypes, CountTypes, Announcing, Responding, InBatch, Closing,
       Failing, Polling, RequestFails, Assistant, Failure, OnMessageStart, At,
       Goto, NoBatch, Fail
<1>32. CASE ListenerThrows
  BY <1>32, SubTypes, MessageTyping, ReplaceLast DEF ContextInv, LoopInv,
       MessageTypes, CountTypes, Announcing, Responding, InBatch, Closing,
       Failing, Polling, ListenerThrows, Assistant, Failure, OnMessageStart,
       At, Goto, NoBatch, Fail, Unannounced, Throw
<1>33. CASE FailureListenerThrows
  BY <1>33, SubTypes, MessageTyping, ReplaceLast DEF ContextInv, LoopInv,
       MessageTypes, CountTypes, Announcing, Responding, InBatch, Closing,
       Failing, Polling, FailureListenerThrows, NoReply, At, Goto, NoRun,
       NoBatch, FinishRun, Unannounced, Throw
<1>34. ASSUME NEW k \in Calls, ToolListenerThrows(k) PROVE ContextInv'
  BY <1>34, SubTypes, MessageTyping, ReplaceLast DEF ContextInv, LoopInv,
       MessageTypes, CountTypes, Announcing, Responding, InBatch, Closing,
       Failing, Polling, ToolListenerThrows, Assistant, Failure,
       OnMessageStart, At, Goto, NoBatch, Fail, Unannounced, Throw
<1>35. CASE Prompt
  BY <1>35, SubTypes, MessageTyping, ReplaceLast DEF ContextInv, LoopInv,
       MessageTypes, CountTypes, Announcing, Responding, InBatch, Closing,
       Failing, Polling, Prompt, Active, StartRun, batchVars
<1>36. CASE ContinueFromQueues
  BY <1>36, SubTypes, MessageTyping, ReplaceLast DEF ContextInv, LoopInv,
       MessageTypes, CountTypes, Announcing, Responding, InBatch, Closing,
       Failing, Polling, ContinueFromQueues, Active, StartRun, batchVars
<1>37. CASE ContinueTranscript
  BY <1>37, SubTypes, MessageTyping, ReplaceLast DEF ContextInv, LoopInv,
       MessageTypes, CountTypes, Announcing, Responding, InBatch, Closing,
       Failing, Polling, ContinueTranscript, Active, StartRun, batchVars
<1>38. CASE Reset
  BY <1>38, SubTypes, MessageTyping, ReplaceLast DEF ContextInv, LoopInv,
       MessageTypes, CountTypes, Announcing, Responding, InBatch, Closing,
       Failing, Polling, Reset, Active, turnVars, batchVars
<1>39. CASE TrimLast
  BY <1>39, SubTypes, MessageTyping, ReplaceLast DEF ContextInv, LoopInv,
       MessageTypes, CountTypes, Announcing, Responding, InBatch, Closing,
       Failing, Polling, TrimLast, Active, turnVars, batchVars
<1>40. CASE UNCHANGED vars
  BY <1>40 DEF ContextInv, Partial, Assistant, vars, stateVars, queueVars,
       turnVars, batchVars, envVars
<1>. QED
  BY <1>1, <1>2, <1>3, <1>4, <1>5, <1>6, <1>7, <1>8, <1>9, <1>10,
     <1>11, <1>12, <1>13, <1>14, <1>15, <1>16, <1>17, <1>18, <1>19, <1>20,
     <1>21, <1>22, <1>23, <1>24, <1>25, <1>26, <1>27, <1>28, <1>29, <1>30,
     <1>31, <1>32, <1>33, <1>34, <1>35, <1>36, <1>37, <1>38, <1>39, <1>40 DEF Next, Progress,
     Environment, Continue

\* The progress of the calls of a batch.
LEMMA BatchStep ==
  ASSUME BatchInv, MessageTypes, BatchTypes, [Next]_vars
  PROVE  BatchInv'
<1>1. CASE StrayFinish \/ Steer \/ FollowUp \/ Abort \/ ClearSteeringQueue
           \/ ClearFollowUpQueue \/ Reset \/ TrimLast
  <2>1. UNCHANGED <<pc, reply, mode, call, cursor>>
    BY <1>1 DEF StrayFinish, turnVars, batchVars, Steer, FollowUp, Abort,
         ClearSteeringQueue, ClearFollowUpQueue, Reset, TrimLast
  <2>. QED
    BY <2>1 DEF BatchInv, OthersQuiet
<1>2. CASE TurnStart
  BY <1>2, Bounds DEF BatchInv, OthersQuiet, MessageTypes, BatchTypes, Calls,
       CallStates, ToolExecutionMode, Assistants, Announcing, Responding,
       InBatch, Closing, Failing, Polling, TurnStart, At, Goto, SameLoop,
       batchVars
<1>3. CASE Announce
  BY <1>3, Bounds DEF BatchInv, OthersQuiet, MessageTypes, BatchTypes, Calls,
       CallStates, ToolExecutionMode, Assistants, Announcing, Responding,
       InBatch, Closing, Failing, Polling, Announce, At, Goto, SameLoop,
       batchVars
<1>4. CASE AnnounceEnd
  BY <1>4, Bounds DEF BatchInv, OthersQuiet, MessageTypes, BatchTypes, Calls,
       CallStates, ToolExecutionMode, Assistants, Announcing, Responding,
       InBatch, Closing, Failing, Polling, AnnounceEnd, At, Goto, SameLoop,
       batchVars
<1>5. CASE AnnounceNext
  BY <1>5, Bounds DEF BatchInv, OthersQuiet, MessageTypes, BatchTypes, Calls,
       CallStates, ToolExecutionMode, Assistants, Announcing, Responding,
       InBatch, Closing, Failing, Polling, AnnounceNext, At, Goto, batchVars
<1>6. CASE FirstPoll
  BY <1>6, Bounds DEF BatchInv, OthersQuiet, MessageTypes, BatchTypes, Calls,
       CallStates, ToolExecutionMode, Assistants, Announcing, Responding,
       InBatch, Closing, Failing, Polling, FirstPoll, At, Goto, batchVars
<1>7. CASE AnnounceFirstPolled
  BY <1>7, Bounds DEF BatchInv, OthersQuiet, MessageTypes, BatchTypes, Calls,
       CallStates, ToolExecutionMode, Assistants, Announcing, Responding,
       InBatch, Closing, Failing, Polling, AnnounceFirstPolled, At, Goto,
       SameLoop, batchVars
<1>8. CASE Request
  BY <1>8, Bounds DEF BatchInv, OthersQuiet, MessageTypes, BatchTypes, Calls,
       CallStates, ToolExecutionMode, Assistants, Announcing, Responding,
       InBatch, Closing, Failing, Polling, Request, At, Goto, batchVars
<1>9. CASE ResponseStart
  BY <1>9, Bounds DEF BatchInv, OthersQuiet, MessageTypes, BatchTypes, Calls,
       CallStates, ToolExecutionMode, Assistants, Announcing, Responding,
       InBatch, Closing, Failing, Polling, ResponseStart, At, Goto, batchVars
<1>10. CASE ResponseEnd
  BY <1>10, Bounds DEF BatchInv, OthersQuiet, MessageTypes, BatchTypes, Calls,
       CallStates, ToolExecutionMode, Assistants, Announcing, Responding,
       InBatch, Closing, Failing, Polling, ResponseEnd, At, Goto, batchVars
<1>11. CASE ResponseWhole
  BY <1>11, Bounds DEF BatchInv, OthersQuiet, MessageTypes, BatchTypes, Calls,
       CallStates, ToolExecutionMode, Assistants, Announcing, Responding,
       InBatch, Closing, Failing, Polling, ResponseWhole, At, Goto, batchVars
<1>12. CASE ResponseWholeEnd
  BY <1>12, Bounds DEF BatchInv, OthersQuiet, MessageTypes, BatchTypes, Calls,
       CallStates, ToolExecutionMode, Assistants, Announcing, Responding,
       InBatch, Closing, Failing, Polling, ResponseWholeEnd, At, Goto,
       SameLoop, batchVars
<1>13. CASE FailedTurn
  BY <1>13, Bounds DEF BatchInv, OthersQuiet, MessageTypes, BatchTypes, Calls,
       CallStates, ToolExecutionMode, Assistants, Announcing, Responding,
       InBatch, Closing, Failing, Polling, FailedTurn, At, Goto, SameLoop,
       batchVars
<1>14. CASE PlainTurn
  BY <1>14, Bounds DEF BatchInv, OthersQuiet, MessageTypes, BatchTypes, Calls,
       CallStates, ToolExecutionMode, Assistants, Announcing, Responding,
       InBatch, Closing, Failing, Polling, PlainTurn, At, Goto, batchVars
<1>15. CASE ToolBatch
  BY <1>15, Bounds DEF BatchInv, OthersQuiet, MessageTypes, BatchTypes, Calls,
       CallStates, ToolExecutionMode, Assistants, Announcing, Responding,
       InBatch, Closing, Failing, Polling, ToolBatch, At, Goto, SameLoop
<1>16. CASE ToolImmediate
  BY <1>16, Bounds DEF BatchInv, OthersQuiet, MessageTypes, BatchTypes, Calls,
       CallStates, ToolExecutionMode, Assistants, Announcing, Responding,
       InBatch, Closing, Failing, Polling, ToolImmediate, At, Goto, SameLoop
<1>17. CASE ToolPrepared
  BY <1>17, Bounds DEF BatchInv, OthersQuiet, MessageTypes, BatchTypes, Calls,
       CallStates, ToolExecutionMode, Assistants, Announcing, Responding,
       InBatch, Closing, Failing, Polling, ToolPrepared, At, Goto, SameLoop
<1>18. CASE ToolNext
  BY <1>18, Bounds DEF BatchInv, OthersQuiet, MessageTypes, BatchTypes, Calls,
       CallStates, ToolExecutionMode, Assistants, Announcing, Responding,
       InBatch, Closing, Failing, Polling, ToolNext, At, Goto, SameLoop,
       MoreCalls
<1>19. CASE RunPrepared
  BY <1>19, Bounds DEF BatchInv, OthersQuiet, MessageTypes, BatchTypes, Calls,
       CallStates, ToolExecutionMode, Assistants, Announcing, Responding,
       InBatch, Closing, Failing, Polling, RunPrepared, At, Goto, SameLoop,
       MoreCalls
<1>20. ASSUME NEW k \in Calls, ToolFinish(k) PROVE BatchInv'
  BY <1>20, Bounds DEF BatchInv, OthersQuiet, MessageTypes, BatchTypes, Calls,
       CallStates, ToolExecutionMode, Assistants, Announcing, Responding,
       InBatch, Closing, Failing, Polling, ToolFinish, At, SameLoop
<1>21. ASSUME NEW k \in Calls, ToolSettle(k) PROVE BatchInv'
  BY <1>21, Bounds DEF BatchInv, OthersQuiet, MessageTypes, BatchTypes, Calls,
       CallStates, ToolExecutionMode, Assistants, Announcing, Responding,
       InBatch, Closing, Failing, Polling, ToolSettle, At, SameLoop
<1>22. CASE ResultStart
  BY <1>22, Bounds DEF BatchInv, OthersQuiet, MessageTypes, BatchTypes, Calls,
       CallStates, ToolExecutionMode, Assistants, Announcing, Responding,
       InBatch, Closing, Failing, Polling, ResultStart, ToolResult, InState,
       At, Goto, SameLoop, BatchSettled, NextResult
<1>23. CASE ResultEnd
  BY <1>23, Bounds DEF BatchInv, OthersQuiet, MessageTypes, BatchTypes, Calls,
       CallStates, ToolExecutionMode, Assistants, Announcing, Responding,
       InBatch, Closing, Failing, Polling, ResultEnd, ToolResult, At, Goto,
       SameLoop, NextResult
<1>24. CASE BatchTurn
  BY <1>24, Bounds DEF BatchInv, OthersQuiet, MessageTypes, BatchTypes, Calls,
       CallStates, ToolExecutionMode, Assistants, Announcing, Responding,
       InBatch, Closing, Failing, Polling, BatchTurn, At, Goto, NoBatch,
       MoreCalls
<1>25. CASE PollSteering
  BY <1>25, Bounds DEF BatchInv, OthersQuiet, MessageTypes, BatchTypes, Calls,
       CallStates, ToolExecutionMode, Assistants, Announcing, Responding,
       InBatch, Closing, Failing, Polling, PollSteering, At, Goto, batchVars
<1>26. CASE PollFollowUps
  BY <1>26, Bounds DEF BatchInv, OthersQuiet, MessageTypes, BatchTypes, Calls,
       CallStates, ToolExecutionMode, Assistants, Announcing, Responding,
       InBatch, Closing, Failing, Polling, PollFollowUps, At, Goto, batchVars
<1>27. CASE NextTurn
  BY <1>27, Bounds DEF BatchInv, OthersQuiet, MessageTypes, BatchTypes, Calls,
       CallStates, ToolExecutionMode, Assistants, Announcing, Responding,
       InBatch, Closing, Failing, Polling, NextTurn, At, Goto, SameLoop,
       batchVars
<1>28. CASE AgentEnd
  BY <1>28, Bounds DEF BatchInv, OthersQuiet, MessageTypes, BatchTypes, Calls,
       CallStates, ToolExecutionMode, Assistants, Announcing, Responding,
       InBatch, Closing, Failing, Polling, AgentEnd, At, Goto, SameLoop,
       batchVars
<1>29. CASE FailureEnd
  BY <1>29, Bounds DEF BatchInv, OthersQuiet, MessageTypes, BatchTypes, Calls,
       CallStates, ToolExecutionMode, Assistants, Announcing, Responding,
       InBatch, Closing, Failing, Polling, FailureEnd, At, Goto, SameLoop,
       batchVars
<1>30. CASE FailureTurnEnd
  BY <1>30, Bounds DEF BatchInv, OthersQuiet, MessageTypes, BatchTypes, Calls,
       CallStates, ToolExecutionMode, Assistants, Announcing, Responding,
       InBatch, Closing, Failing, Polling, FailureTurnEnd, At, Goto, SameLoop,
       batchVars
<1>31. CASE FailureAgentEnd
  BY <1>31, Bounds DEF BatchInv, OthersQuiet, MessageTypes, BatchTypes, Calls,
       CallStates, ToolExecutionMode, Assistants, Announcing, Responding,
       InBatch, Closing, Failing, Polling, FailureAgentEnd, At, Goto,
       SameLoop, batchVars
<1>32. CASE Finish
  BY <1>32, Bounds DEF BatchInv, OthersQuiet, MessageTypes, BatchTypes, Calls,
       CallStates, ToolExecutionMode, Assistants, Announcing, Responding,
       InBatch, Closing, Failing, Polling, Finish, Goto, NoRun, NoBatch,
       FinishRun
<1>33. CASE RequestFails
  BY <1>33, Bounds DEF BatchInv, OthersQuiet, MessageTypes, BatchTypes, Calls,
       CallStates, ToolExecutionMode, Assistants, Announcing, Responding,
       InBatch, Closing, Failing, Polling, RequestFails, At, Goto, NoBatch,
       Fail
<1>34. CASE ListenerThrows
  BY <1>34, Bounds DEF BatchInv, OthersQuiet, MessageTypes, BatchTypes, Calls,
       CallStates, ToolExecutionMode, Assistants, Announcing, Responding,
       InBatch, Closing, Failing, Polling, ListenerThrows, At, Goto, NoBatch,
       Fail, Unannounced, Throw
<1>35. CASE FailureListenerThrows
  BY <1>35, Bounds DEF BatchInv, OthersQuiet, MessageTypes, BatchTypes, Calls,
       CallStates, ToolExecutionMode, Assistants, Announcing, Responding,
       InBatch, Closing, Failing, Polling, FailureListenerThrows, At, Goto,
       NoRun, NoBatch, FinishRun, Unannounced, Throw
<1>36. ASSUME NEW k \in Calls, ToolListenerThrows(k) PROVE BatchInv'
  BY <1>36, Bounds DEF BatchInv, OthersQuiet, MessageTypes, BatchTypes, Calls,
       CallStates, ToolExecutionMode, Assistants, Announcing, Responding,
       InBatch, Closing, Failing, Polling, ToolListenerThrows, InState, At,
       Goto, NoBatch, Fail, Unannounced, Throw
<1>37. CASE Prompt
  BY <1>37, Bounds DEF BatchInv, OthersQuiet, MessageTypes, BatchTypes, Calls,
       CallStates, ToolExecutionMode, Assistants, Announcing, Responding,
       InBatch, Closing, Failing, Polling, Prompt, Active, StartRun, batchVars
<1>38. CASE ContinueFromQueues
  BY <1>38, Bounds DEF BatchInv, OthersQuiet, MessageTypes, BatchTypes, Calls,
       CallStates, ToolExecutionMode, Assistants, Announcing, Responding,
       InBatch, Closing, Failing, Polling, ContinueFromQueues, Active,
       StartRun, batchVars
<1>39. CASE ContinueTranscript
  BY <1>39, Bounds DEF BatchInv, OthersQuiet, MessageTypes, BatchTypes, Calls,
       CallStates, ToolExecutionMode, Assistants, Announcing, Responding,
       InBatch, Closing, Failing, Polling, ContinueTranscript, Active,
       StartRun, batchVars
<1>40. CASE UNCHANGED vars
  BY <1>40 DEF BatchInv, OthersQuiet, vars, stateVars, queueVars, turnVars,
       batchVars, envVars
<1>. QED
  BY <1>1, <1>2, <1>3, <1>4, <1>5, <1>6, <1>7, <1>8, <1>9, <1>10,
     <1>11, <1>12, <1>13, <1>14, <1>15, <1>16, <1>17, <1>18, <1>19, <1>20,
     <1>21, <1>22, <1>23, <1>24, <1>25, <1>26, <1>27, <1>28, <1>29, <1>30,
     <1>31, <1>32, <1>33, <1>34, <1>35, <1>36, <1>37, <1>38, <1>39, <1>40 DEF Next, Progress,
     Environment, Continue

\* A tool left behind belongs to a turn that is over.
LEMMA StrayStep ==
  ASSUME StrayInv, CountTypes, BatchTypes, [Next]_vars
  PROVE  StrayInv'
<1>1. CASE (\E k \in Calls : ToolFinish(k))
           \/ (\E k \in Calls : ToolSettle(k)) \/ Steer \/ FollowUp
           \/ Abort \/ ClearSteeringQueue \/ ClearFollowUpQueue \/ Reset
           \/ TrimLast
  <2>1. UNCHANGED <<pc, turn, stray>>
    BY <1>1 DEF ToolFinish, SameLoop, SameRest, ToolSettle, Steer, turnVars,
         FollowUp, Abort, ClearSteeringQueue, ClearFollowUpQueue, Reset,
         TrimLast
  <2>. QED
    BY <2>1 DEF StrayInv, BeforeRequest
<1>2. CASE TurnStart
  BY <1>2 DEF StrayInv, BeforeRequest, CountTypes, BatchTypes, Announcing,
       Responding, InBatch, Closing, Failing, Polling, TurnStart, At, Goto,
       SameLoop, SameRest
<1>3. CASE Announce
  BY <1>3 DEF StrayInv, BeforeRequest, CountTypes, BatchTypes, Announcing,
       Responding, InBatch, Closing, Failing, Polling, Announce, At, Goto,
       SameLoop, SameRest
<1>4. CASE AnnounceEnd
  BY <1>4 DEF StrayInv, BeforeRequest, CountTypes, BatchTypes, Announcing,
       Responding, InBatch, Closing, Failing, Polling, AnnounceEnd, At, Goto,
       SameLoop, SameRest
<1>5. CASE AnnounceNext
  BY <1>5 DEF StrayInv, BeforeRequest, CountTypes, BatchTypes, Announcing,
       Responding, InBatch, Closing, Failing, Polling, AnnounceNext, At, Goto,
       SameRest
<1>6. CASE FirstPoll
  BY <1>6 DEF StrayInv, BeforeRequest, CountTypes, BatchTypes, Announcing,
       Responding, InBatch, Closing, Failing, Polling, FirstPoll, At, Goto,
       SameRest
<1>7. CASE AnnounceFirstPolled
  BY <1>7 DEF StrayInv, BeforeRequest, CountTypes, BatchTypes, Announcing,
       Responding, InBatch, Closing, Failing, Polling, AnnounceFirstPolled,
       At, Goto, SameLoop, SameRest
<1>8. CASE Request
  BY <1>8 DEF StrayInv, BeforeRequest, CountTypes, BatchTypes, Announcing,
       Responding, InBatch, Closing, Failing, Polling, Request, At, Goto,
       SameRest
<1>9. CASE ResponseStart
  BY <1>9 DEF StrayInv, BeforeRequest, CountTypes, BatchTypes, Announcing,
       Responding, InBatch, Closing, Failing, Polling, ResponseStart,
       Assistant, Partial, At, Goto, SameRest
<1>10. CASE ResponseEnd
  BY <1>10 DEF StrayInv, BeforeRequest, CountTypes, BatchTypes, Announcing,
       Responding, InBatch, Closing, Failing, Polling, ResponseEnd, Assistant,
       At, Goto, SameRest, Response
<1>11. CASE ResponseWhole
  BY <1>11 DEF StrayInv, BeforeRequest, CountTypes, BatchTypes, Announcing,
       Responding, InBatch, Closing, Failing, Polling, ResponseWhole,
       Assistant, At, Goto, SameRest, Response
<1>12. CASE ResponseWholeEnd
  BY <1>12 DEF StrayInv, BeforeRequest, CountTypes, BatchTypes, Announcing,
       Responding, InBatch, Closing, Failing, Polling, ResponseWholeEnd, At,
       Goto, SameLoop, SameRest
<1>13. CASE FailedTurn
  BY <1>13 DEF StrayInv, BeforeRequest, CountTypes, BatchTypes, Announcing,
       Responding, InBatch, Closing, Failing, Polling, FailedTurn, At, Goto,
       SameLoop, SameRest
<1>14. CASE PlainTurn
  BY <1>14 DEF StrayInv, BeforeRequest, CountTypes, BatchTypes, Announcing,
       Responding, InBatch, Closing, Failing, Polling, PlainTurn, At, Goto,
       SameRest
<1>15. CASE ToolBatch
  BY <1>15 DEF StrayInv, BeforeRequest, CountTypes, BatchTypes, Announcing,
       Responding, InBatch, Closing, Failing, Polling, ToolBatch, OnToolStart,
       At, Goto, SameLoop, SameRest
<1>16. CASE ToolImmediate
  BY <1>16 DEF StrayInv, BeforeRequest, CountTypes, BatchTypes, Announcing,
       Responding, InBatch, Closing, Failing, Polling, ToolImmediate, At,
       Goto, SameLoop, SameRest
<1>17. CASE ToolPrepared
  BY <1>17 DEF StrayInv, BeforeRequest, CountTypes, BatchTypes, Announcing,
       Responding, InBatch, Closing, Failing, Polling, ToolPrepared, At, Goto,
       SameLoop, SameRest
<1>18. CASE ToolNext
  BY <1>18 DEF StrayInv, BeforeRequest, CountTypes, BatchTypes, Announcing,
       Responding, InBatch, Closing, Failing, Polling, ToolNext, OnToolStart,
       At, Goto, SameLoop, SameRest
<1>19. CASE RunPrepared
  BY <1>19 DEF StrayInv, BeforeRequest, CountTypes, BatchTypes, Announcing,
       Responding, InBatch, Closing, Failing, Polling, RunPrepared, At, Goto,
       SameLoop, SameRest
<1>20. CASE ResultStart
  BY <1>20 DEF StrayInv, BeforeRequest, CountTypes, BatchTypes, Announcing,
       Responding, InBatch, Closing, Failing, Polling, ResultStart,
       ToolResult, At, Goto, SameLoop, SameRest, NextResult
<1>21. CASE ResultEnd
  BY <1>21 DEF StrayInv, BeforeRequest, CountTypes, BatchTypes, Announcing,
       Responding, InBatch, Closing, Failing, Polling, ResultEnd, ToolResult,
       At, Goto, SameLoop, SameRest, NextResult
<1>22. CASE BatchTurn
  BY <1>22 DEF StrayInv, BeforeRequest, CountTypes, BatchTypes, Announcing,
       Responding, InBatch, Closing, Failing, Polling, BatchTurn, At, Goto,
       SameRest
<1>23. CASE PollSteering
  BY <1>23 DEF StrayInv, BeforeRequest, CountTypes, BatchTypes, Announcing,
       Responding, InBatch, Closing, Failing, Polling, PollSteering, At, Goto
<1>24. CASE PollFollowUps
  BY <1>24 DEF StrayInv, BeforeRequest, CountTypes, BatchTypes, Announcing,
       Responding, InBatch, Closing, Failing, Polling, PollFollowUps, At,
       Goto, SameRest
<1>25. CASE NextTurn
  BY <1>25 DEF StrayInv, BeforeRequest, CountTypes, BatchTypes, Announcing,
       Responding, InBatch, Closing, Failing, Polling, NextTurn, At, Goto,
       SameLoop, SameRest
<1>26. CASE AgentEnd
  BY <1>26 DEF StrayInv, BeforeRequest, CountTypes, BatchTypes, Announcing,
       Responding, InBatch, Closing, Failing, Polling, AgentEnd, At, Goto,
       SameLoop, SameRest
<1>27. CASE FailureEnd
  BY <1>27 DEF StrayInv, BeforeRequest, CountTypes, BatchTypes, Announcing,
       Responding, InBatch, Closing, Failing, Polling, FailureEnd, At, Goto,
       SameLoop, SameRest
<1>28. CASE FailureTurnEnd
  BY <1>28 DEF StrayInv, BeforeRequest, CountTypes, BatchTypes, Announcing,
       Responding, InBatch, Closing, Failing, Polling, FailureTurnEnd, At,
       Goto, SameLoop, SameRest
<1>29. CASE FailureAgentEnd
  BY <1>29 DEF StrayInv, BeforeRequest, CountTypes, BatchTypes, Announcing,
       Responding, InBatch, Closing, Failing, Polling, FailureAgentEnd, At,
       Goto, SameLoop, SameRest
<1>30. CASE Finish
  BY <1>30 DEF StrayInv, BeforeRequest, CountTypes, BatchTypes, Announcing,
       Responding, InBatch, Closing, Failing, Polling, Finish, NoReply, Goto,
       NoRun, FinishRun
<1>31. CASE RequestFails
  BY <1>31 DEF StrayInv, BeforeRequest, CountTypes, BatchTypes, Announcing,
       Responding, InBatch, Closing, Failing, Polling, RequestFails,
       Assistant, Failure, At, Goto, Fail
<1>32. CASE ListenerThrows
  BY <1>32 DEF StrayInv, BeforeRequest, CountTypes, BatchTypes, Announcing,
       Responding, InBatch, Closing, Failing, Polling, ListenerThrows,
       Assistant, Failure, At, Goto, Fail, Unannounced, Throw
<1>33. CASE FailureListenerThrows
  BY <1>33 DEF StrayInv, BeforeRequest, CountTypes, BatchTypes, Announcing,
       Responding, InBatch, Closing, Failing, Polling, FailureListenerThrows,
       NoReply, At, Goto, NoRun, FinishRun, Unannounced, Throw
<1>34. ASSUME NEW k \in Calls, ToolListenerThrows(k) PROVE StrayInv'
  BY <1>34 DEF StrayInv, BeforeRequest, CountTypes, BatchTypes, Announcing,
       Responding, InBatch, Closing, Failing, Polling, ToolListenerThrows,
       Assistant, Failure, At, Goto, Fail, Unannounced, Throw
<1>35. CASE StrayFinish
  BY <1>35 DEF StrayInv, BeforeRequest, CountTypes, BatchTypes, Announcing,
       Responding, InBatch, Closing, Failing, Polling, StrayFinish, turnVars
<1>36. CASE Prompt
  BY <1>36 DEF StrayInv, BeforeRequest, CountTypes, BatchTypes, Announcing,
       Responding, InBatch, Closing, Failing, Polling, Prompt, Active,
       StartRun
<1>37. CASE ContinueFromQueues
  BY <1>37 DEF StrayInv, BeforeRequest, CountTypes, BatchTypes, Announcing,
       Responding, InBatch, Closing, Failing, Polling, ContinueFromQueues,
       Active, StartRun
<1>38. CASE ContinueTranscript
  BY <1>38 DEF StrayInv, BeforeRequest, CountTypes, BatchTypes, Announcing,
       Responding, InBatch, Closing, Failing, Polling, ContinueTranscript,
       Active, StartRun
<1>39. CASE UNCHANGED vars
  BY <1>39 DEF StrayInv, BeforeRequest, vars, stateVars, queueVars, turnVars,
       batchVars, envVars
<1>. QED
  BY <1>1, <1>2, <1>3, <1>4, <1>5, <1>6, <1>7, <1>8, <1>9, <1>10,
     <1>11, <1>12, <1>13, <1>14, <1>15, <1>16, <1>17, <1>18, <1>19, <1>20,
     <1>21, <1>22, <1>23, <1>24, <1>25, <1>26, <1>27, <1>28, <1>29, <1>30,
     <1>31, <1>32, <1>33, <1>34, <1>35, <1>36, <1>37, <1>38, <1>39 DEF Next, Progress,
     Environment, Continue

\* What the agent shows of its activity is what the run is doing.
LEMMA ActivityStep ==
  ASSUME ActivityInv, StrayInv, BatchInv, BatchTypes, MessageTypes, CountTypes, [Next]_vars
  PROVE  ActivityInv'
<1>1. CASE Steer \/ FollowUp \/ Abort \/ ClearSteeringQueue
           \/ ClearFollowUpQueue \/ TrimLast
  <2>1. UNCHANGED <<isStreaming, streamingMessage, pendingToolCalls, pc, turn, call, cursor,
                       touched>>
    BY <1>1 DEF Steer, stateVars, turnVars, batchVars, FollowUp, Abort,
         envVars, ClearSteeringQueue, ClearFollowUpQueue, TrimLast
  <2>. QED
    BY <2>1 DEF ActivityInv, OpenTools, OpenCalls, InState, Active
<1>2. CASE TurnStart
  BY <1>2, Bounds DEF ActivityInv, StrayInv, BeforeRequest, BatchInv,
       OthersQuiet, BatchTypes, MessageTypes, OpenTools, OpenCalls, InState,
       Calls, Active, Announcing, Responding, InBatch, Closing, Failing,
       Polling, TurnStart, At, Goto, SameAgent, SameLoop, SameRest, stateVars,
       batchVars, envVars
<1>3. CASE Announce
  BY <1>3, Bounds DEF ActivityInv, StrayInv, BeforeRequest, BatchInv,
       OthersQuiet, BatchTypes, MessageTypes, OpenTools, OpenCalls, InState,
       Calls, Active, Announcing, Responding, InBatch, Closing, Failing,
       Polling, Announce, OnMessageStart, At, Goto, SameLoop, SameRest,
       batchVars, envVars
<1>4. CASE AnnounceEnd
  BY <1>4, Bounds DEF ActivityInv, StrayInv, BeforeRequest, BatchInv,
       OthersQuiet, BatchTypes, MessageTypes, OpenTools, OpenCalls, InState,
       Calls, Active, Announcing, Responding, InBatch, Closing, Failing,
       Polling, AnnounceEnd, OnMessageEnd, At, Goto, SameLoop, SameRest,
       batchVars, envVars
<1>5. CASE AnnounceNext
  BY <1>5, Bounds DEF ActivityInv, StrayInv, BeforeRequest, BatchInv,
       OthersQuiet, BatchTypes, MessageTypes, OpenTools, OpenCalls, InState,
       Calls, Active, Announcing, Responding, InBatch, Closing, Failing,
       Polling, AnnounceNext, OnMessageStart, At, Goto, SameRest, batchVars,
       envVars
<1>6. CASE FirstPoll
  BY <1>6, Bounds DEF ActivityInv, StrayInv, BeforeRequest, BatchInv,
       OthersQuiet, BatchTypes, MessageTypes, OpenTools, OpenCalls, InState,
       Calls, Active, Announcing, Responding, InBatch, Closing, Failing,
       Polling, FirstPoll, At, Goto, SameRest, stateVars, batchVars, envVars
<1>7. CASE AnnounceFirstPolled
  BY <1>7, Bounds DEF ActivityInv, StrayInv, BeforeRequest, BatchInv,
       OthersQuiet, BatchTypes, MessageTypes, OpenTools, OpenCalls, InState,
       Calls, Active, Announcing, Responding, InBatch, Closing, Failing,
       Polling, AnnounceFirstPolled, OnMessageStart, At, Goto, SameLoop,
       SameRest, batchVars, envVars
<1>8. CASE Request
  BY <1>8, Bounds DEF ActivityInv, StrayInv, BeforeRequest, BatchInv,
       OthersQuiet, BatchTypes, MessageTypes, OpenTools, OpenCalls, InState,
       Calls, Active, Announcing, Responding, InBatch, Closing, Failing,
       Polling, Request, At, Goto, SameAgent, SameRest, stateVars, batchVars,
       envVars
<1>9. CASE ResponseStart
  BY <1>9, Bounds DEF ActivityInv, StrayInv, BeforeRequest, BatchInv,
       OthersQuiet, BatchTypes, MessageTypes, OpenTools, OpenCalls, InState,
       Calls, Active, Announcing, Responding, InBatch, Closing, Failing,
       Polling, ResponseStart, Assistant, Partial, OnMessageStart, At, Goto,
       SameRest, batchVars, envVars
<1>10. CASE ResponseEnd
  BY <1>10, Bounds DEF ActivityInv, StrayInv, BeforeRequest, BatchInv,
       OthersQuiet, BatchTypes, MessageTypes, OpenTools, OpenCalls, InState,
       Calls, Active, Announcing, Responding, InBatch, Closing, Failing,
       Polling, ResponseEnd, Assistant, OnMessageEnd, At, Goto, SameRest,
       Response, batchVars, envVars
<1>11. CASE ResponseWhole
  BY <1>11, Bounds DEF ActivityInv, StrayInv, BeforeRequest, BatchInv,
       OthersQuiet, BatchTypes, MessageTypes, OpenTools, OpenCalls, InState,
       Calls, Active, Announcing, Responding, InBatch, Closing, Failing,
       Polling, ResponseWhole, Assistant, OnMessageStart, At, Goto, SameRest,
       Response, batchVars, envVars
<1>12. CASE ResponseWholeEnd
  BY <1>12, Bounds DEF ActivityInv, StrayInv, BeforeRequest, BatchInv,
       OthersQuiet, BatchTypes, MessageTypes, OpenTools, OpenCalls, InState,
       Calls, Active, Announcing, Responding, InBatch, Closing, Failing,
       Polling, ResponseWholeEnd, OnMessageEnd, At, Goto, SameLoop, SameRest,
       batchVars, envVars
<1>13. CASE FailedTurn
  BY <1>13, Bounds DEF ActivityInv, StrayInv, BeforeRequest, BatchInv,
       OthersQuiet, BatchTypes, MessageTypes, OpenTools, OpenCalls, InState,
       Calls, Active, Announcing, Responding, InBatch, Closing, Failing,
       Polling, FailedTurn, OnTurnEnd, At, Goto, SameLoop, SameRest,
       batchVars, envVars
<1>14. CASE PlainTurn
  BY <1>14, Bounds DEF ActivityInv, StrayInv, BeforeRequest, BatchInv,
       OthersQuiet, BatchTypes, MessageTypes, OpenTools, OpenCalls, InState,
       Calls, Active, Announcing, Responding, InBatch, Closing, Failing,
       Polling, PlainTurn, OnTurnEnd, At, Goto, SameRest, batchVars, envVars
<1>15. CASE ToolBatch
  <2>1. 1 \in Calls
    BY <1>15, Bounds DEF ToolBatch, MessageTypes, Assistants, Calls
  <2>2. OpenTools' = {turn} \X {1}
    BY <1>15, <2>1 DEF ToolBatch, Goto, InBatch, OpenTools, OpenCalls, InState,
       SameLoop
  <2>3. /\ UNCHANGED <<touched, isStreaming, streamingMessage>>
        /\ pc = "assistantEnd" /\ pc' = "toolStart"
        /\ pendingToolCalls' = pendingToolCalls \union {<<turn, 1>>}
    BY <1>15 DEF ToolBatch, At, Goto, OnToolStart, SameRest, envVars
  <2>4. ~touched => pendingToolCalls = {}
    BY <2>3 DEF ActivityInv, Failing, OpenTools, InBatch
  <2>. QED
    BY <2>2, <2>3, <2>4 DEF ActivityInv, Active
<1>16. CASE ToolImmediate
  BY <1>16, Bounds DEF ActivityInv, StrayInv, BeforeRequest, BatchInv,
       OthersQuiet, BatchTypes, MessageTypes, OpenTools, OpenCalls, InState,
       Calls, Active, Announcing, Responding, InBatch, Closing, Failing,
       Polling, ToolImmediate, OnToolEnd, At, Goto, SameLoop, SameRest,
       envVars
<1>17. CASE ToolPrepared
  BY <1>17, Bounds DEF ActivityInv, StrayInv, BeforeRequest, BatchInv,
       OthersQuiet, BatchTypes, MessageTypes, OpenTools, OpenCalls, InState,
       Calls, Active, Announcing, Responding, InBatch, Closing, Failing,
       Polling, ToolPrepared, At, Goto, SameAgent, SameLoop, SameRest,
       stateVars, envVars
<1>18. CASE ToolNext
  <2>1. cursor + 1 \in Calls
    BY <1>18, Bounds DEF ToolNext, MoreCalls, BatchTypes, MessageTypes,
         Assistants, Calls
  <2>2. /\ UNCHANGED <<touched, isStreaming, streamingMessage, turn>>
        /\ pc \in InBatch /\ pc' = "toolStart"
        /\ pendingToolCalls' = pendingToolCalls \union {<<turn, cursor + 1>>}
    BY <1>18 DEF ToolNext, At, Goto, OnToolStart, SameLoop, SameRest, envVars,
       InBatch
  <2>3. OpenCalls' = OpenCalls \union {cursor + 1}
    BY <1>18, <2>1 DEF ToolNext, At, OpenCalls, InState, BatchInv, BatchTypes
  <2>4. OpenTools' = OpenTools \union {<<turn, cursor + 1>>}
    BY <2>2, <2>3 DEF OpenTools, InBatch
  <2>. QED
    BY <2>2, <2>4 DEF ActivityInv, Active, InBatch, Failing
<1>19. CASE RunPrepared
  BY <1>19, Bounds DEF ActivityInv, StrayInv, BeforeRequest, BatchInv,
       OthersQuiet, BatchTypes, MessageTypes, OpenTools, OpenCalls, InState,
       Calls, Active, Announcing, Responding, InBatch, Closing, Failing,
       Polling, RunPrepared, At, Goto, SameAgent, SameLoop, SameRest,
       MoreCalls, stateVars, envVars
<1>20. ASSUME NEW k \in Calls, ToolFinish(k) PROVE ActivityInv'
  BY <1>20, Bounds DEF ActivityInv, StrayInv, BeforeRequest, BatchInv,
       OthersQuiet, BatchTypes, MessageTypes, OpenTools, OpenCalls, InState,
       Calls, Active, Announcing, Responding, InBatch, Closing, Failing,
       Polling, ToolFinish, OnToolEnd, At, SameLoop, SameRest, envVars
<1>21. ASSUME NEW k \in Calls, ToolSettle(k) PROVE ActivityInv'
  BY <1>21, Bounds DEF ActivityInv, StrayInv, BeforeRequest, BatchInv,
       OthersQuiet, BatchTypes, MessageTypes, OpenTools, OpenCalls, InState,
       Calls, Active, Announcing, Responding, InBatch, Closing, Failing,
       Polling, ToolSettle, At, SameAgent, SameLoop, SameRest, stateVars,
       envVars
<1>22. CASE ResultStart
  BY <1>22, Bounds DEF ActivityInv, StrayInv, BeforeRequest, BatchInv,
       OthersQuiet, BatchTypes, MessageTypes, OpenTools, OpenCalls, InState,
       Calls, Active, Announcing, Responding, InBatch, Closing, Failing,
       Polling, ResultStart, ToolResult, OnMessageStart, At, Goto, SameLoop,
       SameRest, BatchSettled, NextResult, envVars
<1>23. CASE ResultEnd
  BY <1>23, Bounds DEF ActivityInv, StrayInv, BeforeRequest, BatchInv,
       OthersQuiet, BatchTypes, MessageTypes, OpenTools, OpenCalls, InState,
       Calls, Active, Announcing, Responding, InBatch, Closing, Failing,
       Polling, ResultEnd, ToolResult, OnMessageEnd, At, Goto, SameLoop,
       SameRest, NextResult, envVars
<1>24. CASE BatchTurn
  BY <1>24, Bounds DEF ActivityInv, StrayInv, BeforeRequest, BatchInv,
       OthersQuiet, BatchTypes, MessageTypes, OpenTools, OpenCalls, InState,
       Calls, Active, Announcing, Responding, InBatch, Closing, Failing,
       Polling, BatchTurn, OnTurnEnd, At, Goto, SameRest, NoBatch, MoreCalls,
       envVars
<1>25. CASE PollSteering
  BY <1>25, Bounds DEF ActivityInv, StrayInv, BeforeRequest, BatchInv,
       OthersQuiet, BatchTypes, MessageTypes, OpenTools, OpenCalls, InState,
       Calls, Active, Announcing, Responding, InBatch, Closing, Failing,
       Polling, PollSteering, At, Goto, stateVars, batchVars
<1>26. CASE PollFollowUps
  BY <1>26, Bounds DEF ActivityInv, StrayInv, BeforeRequest, BatchInv,
       OthersQuiet, BatchTypes, MessageTypes, OpenTools, OpenCalls, InState,
       Calls, Active, Announcing, Responding, InBatch, Closing, Failing,
       Polling, PollFollowUps, At, Goto, SameRest, stateVars, batchVars,
       envVars
<1>27. CASE NextTurn
  BY <1>27, Bounds DEF ActivityInv, StrayInv, BeforeRequest, BatchInv,
       OthersQuiet, BatchTypes, MessageTypes, OpenTools, OpenCalls, InState,
       Calls, Active, Announcing, Responding, InBatch, Closing, Failing,
       Polling, NextTurn, At, Goto, SameAgent, SameLoop, SameRest, stateVars,
       batchVars, envVars
<1>28. CASE AgentEnd
  BY <1>28, Bounds DEF ActivityInv, StrayInv, BeforeRequest, BatchInv,
       OthersQuiet, BatchTypes, MessageTypes, OpenTools, OpenCalls, InState,
       Calls, Active, Announcing, Responding, InBatch, Closing, Failing,
       Polling, AgentEnd, OnAgentEnd, At, Goto, SameLoop, SameRest, batchVars,
       envVars
<1>29. CASE FailureEnd
  BY <1>29, Bounds DEF ActivityInv, StrayInv, BeforeRequest, BatchInv,
       OthersQuiet, BatchTypes, MessageTypes, OpenTools, OpenCalls, InState,
       Calls, Active, Announcing, Responding, InBatch, Closing, Failing,
       Polling, FailureEnd, OnMessageEnd, At, Goto, SameLoop, SameRest,
       batchVars, envVars
<1>30. CASE FailureTurnEnd
  BY <1>30, Bounds DEF ActivityInv, StrayInv, BeforeRequest, BatchInv,
       OthersQuiet, BatchTypes, MessageTypes, OpenTools, OpenCalls, InState,
       Calls, Active, Announcing, Responding, InBatch, Closing, Failing,
       Polling, FailureTurnEnd, OnTurnEnd, At, Goto, SameLoop, SameRest,
       batchVars, envVars
<1>31. CASE FailureAgentEnd
  BY <1>31, Bounds DEF ActivityInv, StrayInv, BeforeRequest, BatchInv,
       OthersQuiet, BatchTypes, MessageTypes, OpenTools, OpenCalls, InState,
       Calls, Active, Announcing, Responding, InBatch, Closing, Failing,
       Polling, FailureAgentEnd, OnAgentEnd, At, Goto, SameLoop, SameRest,
       batchVars, envVars
<1>32. CASE Finish
  BY <1>32, Bounds DEF ActivityInv, StrayInv, BeforeRequest, BatchInv,
       OthersQuiet, BatchTypes, MessageTypes, OpenTools, OpenCalls, InState,
       Calls, Active, Announcing, Responding, InBatch, Closing, Failing,
       Polling, Finish, NoReply, Goto, NoRun, NoBatch, FinishRun
<1>33. CASE RequestFails
  BY <1>33, Bounds DEF ActivityInv, StrayInv, BeforeRequest, BatchInv,
       OthersQuiet, BatchTypes, MessageTypes, OpenTools, OpenCalls, InState,
       Calls, Active, Announcing, Responding, InBatch, Closing, Failing,
       Polling, RequestFails, Assistant, Failure, OnMessageStart, At, Goto,
       NoBatch, Fail
<1>34. CASE ListenerThrows
  <2>1. pc # "idle" /\ pc' = "failStart"
    BY <1>34 DEF ListenerThrows, Listening, Fail, Goto
  <2>2. UNCHANGED <<touched, isStreaming>>
    BY <1>34 DEF ListenerThrows, Fail, OnMessageStart
  <2>. QED
    BY <2>1, <2>2 DEF ActivityInv, Active, Failing
<1>35. CASE FailureListenerThrows
  BY <1>35, Bounds DEF ActivityInv, StrayInv, BeforeRequest, BatchInv,
       OthersQuiet, BatchTypes, MessageTypes, OpenTools, OpenCalls, InState,
       Calls, Active, Announcing, Responding, InBatch, Closing, Failing,
       Polling, FailureListenerThrows, NoReply, At, Goto, NoRun, NoBatch,
       FinishRun, Unannounced, Throw
<1>36. ASSUME NEW k \in Calls, ToolListenerThrows(k) PROVE ActivityInv'
  BY <1>36, Bounds DEF ActivityInv, StrayInv, BeforeRequest, BatchInv,
       OthersQuiet, BatchTypes, MessageTypes, OpenTools, OpenCalls, InState,
       Calls, Active, Announcing, Responding, InBatch, Closing, Failing,
       Polling, ToolListenerThrows, Assistant, Failure, OnMessageStart, At,
       Goto, NoBatch, Fail, Unannounced, Throw
<1>37. CASE StrayFinish
  <2>1. PICK id \in stray : pendingToolCalls' = pendingToolCalls \ {id}
    BY <1>37 DEF StrayFinish, OnToolEnd
  <2>2. /\ UNCHANGED <<pc, call, turn, cursor, touched>>
        /\ UNCHANGED <<isStreaming, streamingMessage>>
    BY <1>37 DEF StrayFinish, OnToolEnd, turnVars, batchVars, envVars
  <2>3. OpenTools' = OpenTools
    BY <2>2 DEF OpenTools, OpenCalls, InState
  <2>4. id \notin OpenTools
    <3>1. CASE pc \in InBatch
      <4>1. id \in stray
        BY <2>1
      <4>2. id[1] < turn
        BY <3>1, <4>1 DEF StrayInv, BeforeRequest, InBatch, Announcing, Failing
      <4>3. id[1] \in Nat /\ turn \in Nat
        BY <4>1 DEF BatchTypes, CountTypes
      <4>4. id[1] # turn
        BY <4>2, <4>3
      <4>5. \A t \in {turn} \X OpenCalls : t[1] = turn
        OBVIOUS
      <4>. QED
        BY <4>4, <4>5 DEF OpenTools
    <3>2. CASE pc \notin InBatch
      BY <3>2 DEF OpenTools
    <3>. QED
      BY <3>1, <3>2
  <2>. QED
    BY <2>1, <2>2, <2>3, <2>4 DEF ActivityInv, Active
<1>38. CASE Prompt
  BY <1>38, Bounds DEF ActivityInv, StrayInv, BeforeRequest, BatchInv,
       OthersQuiet, BatchTypes, MessageTypes, OpenTools, OpenCalls, InState,
       Calls, Active, Announcing, Responding, InBatch, Closing, Failing,
       Polling, Prompt, StartRun, batchVars
<1>39. CASE ContinueFromQueues
  BY <1>39, Bounds DEF ActivityInv, StrayInv, BeforeRequest, BatchInv,
       OthersQuiet, BatchTypes, MessageTypes, OpenTools, OpenCalls, InState,
       Calls, Active, Announcing, Responding, InBatch, Closing, Failing,
       Polling, ContinueFromQueues, StartRun, batchVars
<1>40. CASE ContinueTranscript
  BY <1>40, Bounds DEF ActivityInv, StrayInv, BeforeRequest, BatchInv,
       OthersQuiet, BatchTypes, MessageTypes, OpenTools, OpenCalls, InState,
       Calls, Active, Announcing, Responding, InBatch, Closing, Failing,
       Polling, ContinueTranscript, StartRun, batchVars
<1>41. CASE Reset
  BY <1>41, Bounds DEF ActivityInv, StrayInv, BeforeRequest, BatchInv,
       OthersQuiet, BatchTypes, MessageTypes, OpenTools, OpenCalls, InState,
       Calls, Active, Announcing, Responding, InBatch, Closing, Failing,
       Polling, Reset, turnVars, batchVars
<1>42. CASE UNCHANGED vars
  BY <1>42 DEF ActivityInv, OpenTools, OpenCalls, InState, Active, vars,
       stateVars, queueVars, turnVars, batchVars, envVars
<1>. QED
  BY <1>1, <1>2, <1>3, <1>4, <1>5, <1>6, <1>7, <1>8, <1>9, <1>10,
     <1>11, <1>12, <1>13, <1>14, <1>15, <1>16, <1>17, <1>18, <1>19, <1>20,
     <1>21, <1>22, <1>23, <1>24, <1>25, <1>26, <1>27, <1>28, <1>29, <1>30,
     <1>31, <1>32, <1>33, <1>34, <1>35, <1>36, <1>37, <1>38, <1>39, <1>40,
     <1>41, <1>42 DEF Next, Progress,
     Environment, Continue

-----------------------------------------------------------------------------
(* The theorems *)

LEMMA Initially == Init => IInv
<1> SUFFICES ASSUME Init PROVE IInv
  OBVIOUS
<1>1. pc \in Locations
  BY DEF Init, Locations
<1>2. MessageTypes
  BY MessageTyping DEF Init, MessageTypes
<1>3. FlagTypes
  BY DEF Init, FlagTypes
<1>4. BatchTypes
  BY Bounds DEF Init, BatchTypes, ToolExecutionMode, CallStates
<1>5. CountTypes
  BY DEF Init, CountTypes
<1>6. LoopInv
  BY DEF Init, LoopInv, Announcing
<1>7. ContextInv
  BY DEF Init, ContextInv, InBatch, Closing, Polling
<1>8. BatchInv
  BY DEF Init, BatchInv, InBatch
<1>9. StrayInv
  BY DEF Init, StrayInv
<1>10. ActivityInv
  BY DEF Init, ActivityInv, Active, OpenTools, InBatch
<1>. QED
  BY <1>1, <1>2, <1>3, <1>4, <1>5, <1>6, <1>7, <1>8, <1>9, <1>10
     DEF IInv, TypeOK

LEMMA Inductive == IInv /\ [Next]_vars => IInv'
<1> SUFFICES ASSUME IInv, [Next]_vars PROVE IInv'
  OBVIOUS
<1> USE DEF IInv, TypeOK
<1>1. (pc \in Locations)'
  BY LocationStep
<1>2. MessageTypes'
  BY MessageStep
<1>3. FlagTypes'
  BY FlagStep
<1>4. BatchTypes'
  BY BatchTypeStep
<1>5. CountTypes'
  BY CountStep
<1>6. LoopInv'
  BY LoopStep
<1>7. ContextInv'
  BY ContextStep
<1>8. BatchInv'
  BY BatchStep
<1>9. StrayInv'
  BY StrayStep
<1>10. ActivityInv'
  BY ActivityStep
<1>. QED
  BY <1>1, <1>2, <1>3, <1>4, <1>5, <1>6, <1>7, <1>8, <1>9, <1>10

LEMMA Invariance == Spec => []IInv
<1>1. Init => IInv
  BY Initially
<1>2. IInv /\ [Next]_vars => IInv'
  BY Inductive
<1>. QED
  BY <1>1, <1>2, PTL DEF Spec

\* Every variable of the agent and of its runs keeps its type, whatever the
\* order of events, calls and failures.
THEOREM TypeCorrect == Spec => []TypeOK
<1>1. IInv => TypeOK
  BY DEF IInv
<1>. QED
  BY <1>1, Invariance, PTL

\* Whenever the loop requests a response, the context it sends and the agent's
\* transcript are the same sequence, unless reset() emptied the transcript
\* during the run (agent-loop.ts runLoop, agent.ts processEvents).
THEOREM ContextIsTranscript == Spec => []TranscriptAgrees
<1>1. IInv => TranscriptAgrees
  BY DEF IInv, TranscriptAgrees, At, LoopInv, ContextInv, Announcing, Failing
<1>. QED
  BY <1>1, Invariance, PTL

\* The activity an agent shows, between runs and during one, is what its run is
\* doing, although listeners may throw and tools may outlive their batch
\* (agent.ts processEvents and finishRun).
THEOREM ActivityIsShown == Spec => []StateSettled
<1>1. IInv => StateSettled
  BY DEF IInv, StateSettled, ActivityInv, Failing, InBatch
<1>. QED
  BY <1>1, Invariance, PTL

-----------------------------------------------------------------------------
(* The user messages of a sequence, by the way they came and their number  *)

Mark(m) == IF IsUser(m) THEN {<<m.via, m.id>>} ELSE {}
Marks(s) == UNION {Mark(s[i]) : i \in 1..Len(s)}

\* Messages that came the same way are in the order in which they came.
Rising(s) ==
  \A i, j \in 1..Len(s) :
    /\ i < j
    /\ IsUser(s[i]) /\ IsUser(s[j])
    /\ s[i].via = s[j].via
    => s[i].id < s[j].id

Before(M, N) == \A x \in M, y \in N : x[1] = y[1] => x[2] < y[2]

LEMMA MarksAre ==
  ASSUME NEW s
  PROVE  /\ \A i \in 1..Len(s) : IsUser(s[i]) => <<s[i].via, s[i].id>> \in Marks(s)
         /\ \A x \in Marks(s) : \E i \in 1..Len(s) :
              IsUser(s[i]) /\ x = <<s[i].via, s[i].id>>
  BY DEF Marks, Mark

LEMMA MarkTyping ==
  ASSUME NEW s, s \in Seq(Messages) \/ s \in Seq(Users)
  PROVE  Marks(s) \subseteq Vias \X Nat
<1>1. s \in Seq(Messages)
  BY SubTypes
<1>2. \A i \in 1..Len(s) : IsUser(s[i]) => s[i].via \in Vias /\ s[i].id \in Nat
  BY <1>1 DEF Messages, Users, Assistants, ToolResults, IsUser
<1>. QED
  BY <1>2, MarksAre

LEMMA NoMarks == Marks(<<>>) = {} /\ Rising(<<>>)
  BY DEF Marks, Rising

LEMMA IdsAre ==
  ASSUME NEW s
  PROVE  Ids(s) = {x[2] : x \in Marks(s)}
<1>1. ASSUME NEW i \in 1..Len(s), IsUser(s[i])
      PROVE  s[i].id \in {x[2] : x \in Marks(s)}
  <2>1. <<s[i].via, s[i].id>> \in Marks(s)
    BY <1>1, MarksAre
  <2>. QED
    BY <2>1
<1>2. \A x \in Marks(s) : x[2] \in Ids(s)
  BY MarksAre DEF Ids
<1>. QED
  BY <1>1, <1>2 DEF Ids

LEMMA AppendMarks ==
  ASSUME NEW s \in Seq(Messages), NEW m \in Messages
  PROVE  /\ Marks(Append(s, m)) = Marks(s) \union Mark(m)
         /\ Rising(s) /\ Before(Marks(s), Mark(m)) => Rising(Append(s, m))
<1> DEFINE t == Append(s, m)
<1>1. /\ Len(s) \in Nat /\ Len(t) = Len(s) + 1 /\ t[Len(s) + 1] = m
      /\ \A i \in 1..Len(s) : t[i] = s[i]
      /\ \A i \in 1..Len(t) : i \in 1..Len(s) \/ i = Len(s) + 1
  OBVIOUS
<1> HIDE DEF t
<1>2. Marks(t) = Marks(s) \union Mark(m)
  <2>1. Marks(t) \subseteq Marks(s) \union Mark(m)
    BY <1>1 DEF Marks
  <2>2. Marks(s) \subseteq Marks(t)
    BY <1>1 DEF Marks
  <2>3. Mark(m) \subseteq Marks(t)
    BY <1>1 DEF Marks
  <2>. QED
    BY <2>1, <2>2, <2>3
<1>3. ASSUME Rising(s), Before(Marks(s), Mark(m)) PROVE Rising(t)
  <2>1. ASSUME NEW i \in 1..Len(t), NEW j \in 1..Len(t), i < j, IsUser(t[i]),
               IsUser(t[j]), t[i].via = t[j].via
        PROVE  t[i].id < t[j].id
    <3>1. i \in 1..Len(s)
      BY <1>1, <2>1
    <3>2. CASE j \in 1..Len(s)
      BY <1>1, <1>3, <2>1, <3>1, <3>2 DEF Rising
    <3>3. CASE j = Len(s) + 1
      <4>1. <<t[i].via, t[i].id>> \in Marks(s) /\ <<t[j].via, t[j].id>> \in Mark(m)
        BY <1>1, <2>1, <3>1, <3>3, MarksAre DEF Mark
      <4>. QED
        BY <1>3, <2>1, <4>1 DEF Before
    <3>. QED
      BY <1>1, <3>2, <3>3
  <2>. QED
    BY <2>1 DEF Rising
<1>. QED
  BY <1>2, <1>3 DEF t

\* The first of a sequence and the rest.
LEMMA TailMarks ==
  ASSUME NEW s \in Seq(Users), s # <<>>
  PROVE  /\ Marks(s) = Mark(Head(s)) \union Marks(Tail(s))
         /\ Rising(s) => Rising(Tail(s)) /\ Before(Mark(Head(s)), Marks(Tail(s)))
         /\ Marks(<<Head(s)>>) = Mark(Head(s)) /\ Rising(<<Head(s)>>)
<1> DEFINE t == Tail(s)
           h == <<Head(s)>>
<1>1. /\ Len(s) \in Nat \ {0} /\ Len(t) = Len(s) - 1 /\ Head(s) = s[1]
      /\ \A i \in 1..Len(t) : t[i] = s[i + 1] /\ i + 1 \in 1..Len(s)
      /\ \A i \in 1..Len(s) : i = 1 \/ (i - 1 \in 1..Len(t) /\ t[i - 1] = s[i])
  OBVIOUS
<1>2. Len(h) = 1 /\ h[1] = Head(s) /\ 1..1 = {1}
  OBVIOUS
<1> HIDE DEF t, h
<1>3. Marks(s) = Mark(Head(s)) \union Marks(t)
  <2>1. Mark(Head(s)) \subseteq Marks(s)
    BY <1>1 DEF Marks
  <2>2. Marks(t) \subseteq Marks(s)
    BY <1>1 DEF Marks
  <2>3. Marks(s) \subseteq Mark(Head(s)) \union Marks(t)
    BY <1>1 DEF Marks
  <2>. QED
    BY <2>1, <2>2, <2>3
<1>4. ASSUME Rising(s) PROVE Rising(t)
  <2>1. ASSUME NEW i \in 1..Len(t), NEW j \in 1..Len(t), i < j, IsUser(t[i]),
               IsUser(t[j]), t[i].via = t[j].via
        PROVE  t[i].id < t[j].id
    <3>1. /\ i + 1 \in 1..Len(s) /\ j + 1 \in 1..Len(s) /\ i + 1 < j + 1
          /\ t[i] = s[i + 1] /\ t[j] = s[j + 1]
      BY <1>1, <2>1
    <3>. QED
      BY <1>4, <2>1, <3>1 DEF Rising
  <2>. QED
    BY <2>1 DEF Rising
<1>5. ASSUME Rising(s) PROVE Before(Mark(Head(s)), Marks(t))
  <2>1. ASSUME NEW x \in Mark(Head(s)), NEW y \in Marks(t), x[1] = y[1]
        PROVE  x[2] < y[2]
    <3>1. PICK i \in 1..Len(t) : IsUser(t[i]) /\ y = <<t[i].via, t[i].id>>
      BY MarksAre
    <3>2. IsUser(s[1]) /\ x = <<s[1].via, s[1].id>>
      BY <1>1 DEF Mark
    <3>3. i + 1 \in 1..Len(s) /\ 1 \in 1..Len(s) /\ 1 < i + 1 /\ t[i] = s[i + 1]
      BY <1>1
    <3>. QED
      BY <1>5, <2>1, <3>1, <3>2, <3>3 DEF Rising
  <2>. QED
    BY <2>1 DEF Before
<1>6. Marks(h) = Mark(Head(s))
  BY <1>2 DEF Marks
<1>7. Rising(h)
  BY <1>2 DEF Rising
<1>. QED
  BY <1>3, <1>4, <1>5, <1>6, <1>7 DEF t, h

\* All but the last, when that is no user message.
LEMMA FrontMarks ==
  ASSUME NEW s \in Seq(Messages), s # <<>>, ~IsUser(s[Len(s)])
  PROVE  /\ Marks(SubSeq(s, 1, Len(s) - 1)) = Marks(s)
         /\ Rising(s) => Rising(SubSeq(s, 1, Len(s) - 1))
<1> DEFINE n == Len(s) - 1
           t == SubSeq(s, 1, n)
<1>1. Len(s) \in Nat \ {0} /\ n \in Nat
  OBVIOUS
<1>2. Len(t) = n /\ \A i \in 1..n : t[i] = s[i]
  OBVIOUS
<1> HIDE DEF t
<1>3. \A i \in 1..Len(s) : i \in 1..n \/ i = Len(s)
  BY <1>1
<1>4. \A i \in 1..n : i \in 1..Len(s)
  BY <1>1
<1>5. Marks(t) \subseteq Marks(s)
  BY <1>2, <1>4 DEF Marks
<1>6. Marks(s) \subseteq Marks(t)
  <2>1. Mark(s[Len(s)]) = {}
    BY DEF Mark
  <2>. QED
    BY <1>2, <1>3, <2>1 DEF Marks
<1>7. Rising(s) => Rising(t)
  BY <1>2, <1>4 DEF Rising
<1>. QED
  BY <1>5, <1>6, <1>7 DEF t

\* What is drained from a queue, and what stays in it.
LEMMA DrainMarks ==
  ASSUME NEW q \in Seq(Users), NEW m \in QueueMode
  PROVE  /\ Marks(q) = Marks(Drained(q, m)) \union Marks(AfterDrain(q, m))
         /\ Rising(q) => /\ Rising(Drained(q, m)) /\ Rising(AfterDrain(q, m))
                         /\ Before(Marks(Drained(q, m)), Marks(AfterDrain(q, m)))
<1>1. CASE m = "all" \/ q = <<>>
  BY <1>1, NoMarks DEF Drained, AfterDrain, Before
<1>2. CASE ~(m = "all" \/ q = <<>>)
  BY <1>2, TailMarks DEF Drained, AfterDrain
<1>. QED
  BY <1>1, <1>2

\* New prompts.
LEMMA NumberedMarks ==
  ASSUME NEW a \in Nat, NEW n \in Nat, NEW s, Len(s) = n,
         \A i \in 1..n : IsUser(s[i]) /\ s[i].via = "prompt" /\ s[i].id = a + i
  PROVE  Marks(s) = {"prompt"} \X ((a + 1)..(a + n)) /\ Rising(s)
<1>1. ASSUME NEW x \in Marks(s)
      PROVE  x \in {"prompt"} \X ((a + 1)..(a + n))
  <2>1. PICK i \in 1..Len(s) : x = <<s[i].via, s[i].id>>
    BY MarksAre
  <2>2. x = <<"prompt", a + i>>
    BY <2>1
  <2>3. a + i \in (a + 1)..(a + n)
    OBVIOUS
  <2>. QED
    BY <2>2, <2>3
<1>2. ASSUME NEW x \in {"prompt"} \X ((a + 1)..(a + n))
      PROVE  x \in Marks(s)
  <2>1. PICK i \in 1..n : x = <<"prompt", a + i>>
    <3>1. x[2] - a \in 1..n /\ x = <<"prompt", a + (x[2] - a)>>
      OBVIOUS
    <3>. QED
      BY <3>1
  <2>2. <<s[i].via, s[i].id>> \in Marks(s)
    BY MarksAre
  <2>. QED
    BY <2>1, <2>2
<1>3. Rising(s)
  BY DEF Rising
<1>. QED
  BY <1>1, <1>2, <1>3

LEMMA PromptMarks ==
  ASSUME NEW a \in Nat, NEW n \in Nat,
         NEW s, s = [i \in 1..n |-> UserMessage(a + i, "prompt")]
  PROVE  /\ Marks(s) = {"prompt"} \X ((a + 1)..(a + n))
         /\ Rising(s) /\ s \in Seq(Users)
<1>1. s \in Seq(Users) /\ Len(s) = n
  BY DEF Users, UserMessage, Vias
<1>2. \A i \in 1..n : IsUser(s[i]) /\ s[i].via = "prompt" /\ s[i].id = a + i
  BY DEF UserMessage, IsUser
<1>. QED
  BY <1>1, <1>2, NumberedMarks

-----------------------------------------------------------------------------
(* The ways a step moves user messages *)

kept == <<queueVars, accepted, cleared, lost>>

Still == UNCHANGED <<transcript, kept>> /\ Unannounced' = Unannounced

Says ==
  /\ \E m \in Messages : ~IsUser(m) /\ transcript' = Append(transcript, m)
  /\ UNCHANGED kept /\ Unannounced' = Unannounced

Tells ==
  /\ Unannounced # <<>>
  /\ transcript' = Append(transcript, Head(Unannounced))
  /\ Unannounced' = Tail(Unannounced)
  /\ UNCHANGED kept

Takes ==
  /\ Unannounced = <<>>
  /\ \E m \in QueueMode :
       \/ /\ Unannounced' = Drained(steeringQueue, m)
          /\ steeringQueue' = AfterDrain(steeringQueue, m)
          /\ UNCHANGED followUpQueue
       \/ /\ Unannounced' = Drained(followUpQueue, m)
          /\ followUpQueue' = AfterDrain(followUpQueue, m)
          /\ UNCHANGED steeringQueue
  /\ UNCHANGED <<transcript, accepted, cleared, lost>>

Asks ==
  /\ Unannounced = <<>>
  /\ \E n \in Nat :
       /\ Unannounced' = [i \in 1..n |-> UserMessage(accepted + i, "prompt")]
       /\ accepted' = accepted + n
  /\ UNCHANGED <<transcript, queueVars, cleared, lost>>

Queues ==
  /\ \/ /\ steeringQueue' =
             Append(steeringQueue, UserMessage(accepted + 1, "steer"))
        /\ UNCHANGED followUpQueue
     \/ /\ followUpQueue' =
             Append(followUpQueue, UserMessage(accepted + 1, "followUp"))
        /\ UNCHANGED steeringQueue
  /\ accepted' = accepted + 1
  /\ UNCHANGED <<transcript, cleared, lost>> /\ Unannounced' = Unannounced

Drops ==
  /\ Unannounced' = <<>>
  /\ lost' = lost \union Ids(Unannounced)
  /\ UNCHANGED <<transcript, queueVars, accepted, cleared>>

Removes ==
  /\ \/ /\ steeringQueue' = <<>>
        /\ cleared' = cleared \union Ids(steeringQueue)
        /\ UNCHANGED <<transcript, followUpQueue>>
     \/ /\ followUpQueue' = <<>>
        /\ cleared' = cleared \union Ids(followUpQueue)
        /\ UNCHANGED <<transcript, steeringQueue>>
     \/ /\ transcript' = <<>> /\ steeringQueue' = <<>> /\ followUpQueue' = <<>>
        /\ cleared' = cleared \union Ids(steeringQueue)
                        \union Ids(followUpQueue) \union Ids(transcript)
  /\ UNCHANGED <<accepted, lost>> /\ Unannounced' = Unannounced

Trims ==
  /\ transcript # <<>> /\ ~IsUser(transcript[Len(transcript)])
  /\ transcript' = SubSeq(transcript, 1, Len(transcript) - 1)
  /\ UNCHANGED kept /\ Unannounced' = Unannounced

Moves ==
  \/ Still \/ Says \/ Tells \/ Takes \/ Asks \/ Queues \/ Drops \/ Removes
  \/ Trims

\* Where a run has messages in hand: all that are pending.
Handing == {"agentStart", "turnStart", "messageStart"} \union Polling

LEMMA HandIs ==
  /\ pc \in Handing => Unannounced = pending
  /\ pc = "messageEnd" => Unannounced = Tail(pending)
  /\ pc \notin Handing \union {"messageEnd"} => Unannounced = <<>>
  BY DEF Unannounced, Handing, Polling, At

LEMMA HandWillBe ==
  /\ pc' \in Handing => Unannounced' = pending'
  /\ pc' = "messageEnd" => Unannounced' = Tail(pending')
  /\ pc' \notin Handing \union {"messageEnd"} => Unannounced' = <<>>
  BY DEF Unannounced, Handing, Polling, At

\* Messages that are no user messages.
LEMMA Others ==
  ASSUME TypeOK
  PROVE  /\ reply \in Messages /\ ~IsUser(reply)
         /\ NextResult \in Messages /\ ~IsUser(NextResult)
         /\ \A m \in Assistants : m \in Messages /\ ~IsUser(m)
<1>1. \A m \in Assistants \union ToolResults : m \in Messages /\ ~IsUser(m)
  BY DEF Messages, Assistants, ToolResults, IsUser
<1>2. NextResult \in ToolResults /\ reply \in Assistants
  BY MessageTyping DEF TypeOK, MessageTypes, CountTypes, NextResult
<1>. QED
  BY <1>1, <1>2

LEMMA StillSteps ==
  ASSUME IInv,
         \/ TurnStart \/ Announce \/ AnnounceNext \/ AnnounceFirstPolled
         \/ Request \/ ResponseStart \/ ResponseWhole \/ FailedTurn \/ PlainTurn
         \/ ToolBatch \/ ToolImmediate \/ ToolPrepared \/ ToolNext \/ RunPrepared
         \/ (\E k \in Calls : ToolFinish(k)) \/ (\E k \in Calls : ToolSettle(k))
         \/ ResultStart \/ BatchTurn \/ NextTurn \/ AgentEnd
         \/ FailureTurnEnd \/ FailureAgentEnd \/ Finish \/ RequestFails
         \/ StrayFinish \/ Abort \/ ContinueTranscript \/ UNCHANGED vars
  PROVE  Still
<1>1. UNCHANGED <<transcript, kept>>
  BY DEF kept, TurnStart, Announce, AnnounceNext, AnnounceFirstPolled, Request,
     ResponseStart, ResponseWhole, FailedTurn, PlainTurn, ToolBatch,
     ToolImmediate, ToolPrepared, ToolNext, RunPrepared, ToolFinish, ToolSettle,
     ResultStart, BatchTurn, NextTurn, AgentEnd, FailureTurnEnd,
     FailureAgentEnd, Finish, RequestFails, StrayFinish, Abort,
     ContinueTranscript, vars, SameAgent, SameLoop, SameRest, stateVars,
     queueVars, envVars, OnMessageStart, OnToolStart, OnToolEnd, OnTurnEnd,
     OnAgentEnd, FinishRun, Fail, StartRun
<1>2. Unannounced' = Unannounced
  <2>1. CASE TurnStart \/ Announce \/ AnnounceFirstPolled \/ NextTurn
    <3>1. pc \in Handing /\ pc' \in Handing /\ pending' = pending
      BY <2>1 DEF TurnStart, Announce, AnnounceFirstPolled, NextTurn, At, Goto,
         SameLoop, Handing, Polling
    <3>. QED
      BY <3>1, HandIs, HandWillBe
  <2>2. CASE AnnounceNext
    <3>1. /\ pc = "messageEnd" /\ pc' = "messageStart" /\ pending' = Tail(pending)
      BY <2>2 DEF AnnounceNext, At, Goto
    <3>2. pc' \in Handing
      BY <3>1 DEF Handing
    <3>. QED
      BY <3>1, <3>2, HandIs, HandWillBe
  <2>3. CASE Request \/ AgentEnd
    <3>1. Unannounced = <<>>
      BY <2>3, HandIs DEF Request, AgentEnd, At, Handing, Polling
    <3>2. pc' \notin Handing \union {"messageEnd"}
      BY <2>3 DEF Request, AgentEnd, Goto, Handing, Polling
    <3>. QED
      BY <3>1, <3>2, HandWillBe
  <2>4. CASE \/ ResponseStart \/ ResponseWhole \/ FailedTurn \/ PlainTurn
             \/ ToolBatch \/ ToolImmediate \/ ToolPrepared \/ ToolNext
             \/ RunPrepared \/ ResultStart \/ BatchTurn
             \/ FailureTurnEnd \/ FailureAgentEnd \/ Finish \/ RequestFails
    <3>1. pc \notin Handing \union {"messageEnd"}
      BY <2>4 DEF ResponseStart, ResponseWhole, FailedTurn, PlainTurn, ToolBatch,
         ToolImmediate, ToolPrepared, ToolNext, RunPrepared, ResultStart,
         BatchTurn, FailureTurnEnd, FailureAgentEnd, Finish, RequestFails, At,
         Handing, Polling
    <3>2. pc' \notin Handing \union {"messageEnd"}
      BY <2>4 DEF ResponseStart, ResponseWhole, FailedTurn, PlainTurn, ToolBatch,
         ToolImmediate, ToolPrepared, ToolNext, RunPrepared, ResultStart,
         BatchTurn, FailureTurnEnd, FailureAgentEnd, Finish, RequestFails, Goto,
         Handing, Polling, FinishRun, Fail
    <3>. QED
      BY <3>1, <3>2, HandIs, HandWillBe
  <2>5. CASE \/ (\E k \in Calls : ToolFinish(k)) \/ (\E k \in Calls : ToolSettle(k))
             \/ StrayFinish \/ Abort \/ UNCHANGED vars
    <3>1. pc' = pc /\ pending' = pending
      BY <2>5 DEF ToolFinish, ToolSettle, StrayFinish, Abort, vars, turnVars,
         SameLoop
    <3>. QED
      BY <3>1 DEF Unannounced, At
  <2>6. CASE ContinueTranscript
    <3>1. pc = "idle" /\ pc' = "agentStart" /\ pending' = <<>>
      BY <2>6 DEF ContinueTranscript, StartRun, Active
    <3>2. pc \notin Handing \union {"messageEnd"} /\ pc' \in Handing
      BY <3>1 DEF Handing, Polling
    <3>. QED
      BY <3>1, <3>2, HandIs, HandWillBe
  <2>. QED
    BY <2>1, <2>2, <2>3, <2>4, <2>5, <2>6
<1>. QED
  BY <1>1, <1>2 DEF Still

LEMMA SayingSteps ==
  ASSUME IInv, ResponseEnd \/ ResponseWholeEnd \/ ResultEnd \/ FailureEnd
  PROVE  Says
<1>1. UNCHANGED kept
  BY DEF kept, ResponseEnd, ResponseWholeEnd, ResultEnd, FailureEnd, SameRest,
     queueVars, envVars
<1>2. /\ pc \notin Handing \union {"messageEnd"}
      /\ pc' \notin Handing \union {"messageEnd"}
  BY DEF ResponseEnd, ResponseWholeEnd, ResultEnd, FailureEnd, At, Goto, Handing,
     Polling
<1>3. Unannounced' = Unannounced
  BY <1>2, HandIs, HandWillBe
<1>4. \E m \in Messages : ~IsUser(m) /\ transcript' = Append(transcript, m)
  <2>1. CASE ResponseEnd
    <3>1. reply' \in Assistants
      BY <2>1, ResponseTyping DEF IInv, TypeOK, CountTypes, ResponseEnd
    <3>. QED
      BY <2>1, <3>1, Others DEF IInv, ResponseEnd, OnMessageEnd
  <2>2. CASE ResponseWholeEnd \/ FailureEnd
    BY <2>2, Others DEF IInv, ResponseWholeEnd, FailureEnd, OnMessageEnd
  <2>3. CASE ResultEnd
    BY <2>3, Others DEF IInv, ResultEnd, OnMessageEnd
  <2>. QED
    BY <2>1, <2>2, <2>3
<1>. QED
  BY <1>1, <1>3, <1>4 DEF Says

LEMMA TellingStep ==
  ASSUME IInv, AnnounceEnd
  PROVE  Tells
<1>1. /\ pc = "messageStart" /\ pc' = "messageEnd" /\ pending' = pending
      /\ transcript' = Append(transcript, Head(pending)) /\ UNCHANGED kept
  BY DEF AnnounceEnd, At, Goto, SameLoop, OnMessageEnd, kept, SameRest, envVars
<1>2. pending # <<>>
  BY <1>1 DEF IInv, LoopInv, Announcing
<1>3. Unannounced = pending /\ Unannounced' = Tail(pending)
  BY <1>1, HandIs, HandWillBe DEF Handing
<1>. QED
  BY <1>1, <1>2, <1>3 DEF Tells

LEMMA TakingSteps ==
  ASSUME IInv, FirstPoll \/ PollSteering \/ PollFollowUps \/ ContinueFromQueues
  PROVE  Still \/ Takes
<1>1. /\ Unannounced = <<>> /\ Unannounced' = pending'
      /\ UNCHANGED <<transcript, accepted, cleared, lost>>
  <2>1. CASE FirstPoll
    BY <2>1, HandIs, HandWillBe DEF FirstPoll, At, Goto, Handing, Polling,
       stateVars, SameRest, envVars
  <2>2. CASE PollSteering \/ PollFollowUps
    BY <2>2, HandIs, HandWillBe DEF PollSteering, PollFollowUps, At, Goto, Handing,
       Polling, stateVars, SameRest, envVars
  <2>3. CASE ContinueFromQueues
    BY <2>3, HandIs, HandWillBe DEF ContinueFromQueues, StartRun, Active, Handing,
       Polling
  <2>. QED
    BY <2>1, <2>2, <2>3
<1>2. CASE pending' = <<>> /\ UNCHANGED queueVars
  BY <1>1, <1>2 DEF Still, kept, queueVars
<1>3. ASSUME NEW m \in SteeringModes, pending' = Drained(steeringQueue, m),
             steeringQueue' = AfterDrain(steeringQueue, m), UNCHANGED followUpQueue
      PROVE  Takes
  BY <1>1, <1>3, ModesAssumption DEF Takes
<1>4. ASSUME NEW m \in FollowUpModes, pending' = Drained(followUpQueue, m),
             followUpQueue' = AfterDrain(followUpQueue, m), UNCHANGED steeringQueue
      PROVE  Takes
  BY <1>1, <1>4, ModesAssumption DEF Takes
<1>. QED
  BY <1>2, <1>3, <1>4 DEF FirstPoll, PollSteering, PollFollowUps,
     ContinueFromQueues, DrainSteering, DrainFollowUps, StartRun

LEMMA AskingStep ==
  ASSUME IInv, Prompt
  PROVE  Asks
<1>1. PICK n \in 1..MaxPrompt :
        /\ accepted' = accepted + n
        /\ StartRun([i \in 1..n |-> UserMessage(accepted + i, "prompt")], FALSE)
  BY DEF Prompt
<1>2. n \in Nat
  BY BoundsAssumption
<1>3. /\ pc = "idle" /\ pc' = "agentStart"
      /\ pending' = [i \in 1..n |-> UserMessage(accepted + i, "prompt")]
      /\ UNCHANGED <<transcript, queueVars, cleared, lost>>
  BY <1>1 DEF Prompt, StartRun, Active
<1>4. Unannounced = <<>> /\ Unannounced' = pending'
  BY <1>3, HandIs, HandWillBe DEF Handing, Polling
<1>. QED
  BY <1>1, <1>2, <1>3, <1>4 DEF Asks

LEMMA QueueingSteps ==
  ASSUME Steer \/ FollowUp
  PROVE  Queues
<1>1. UNCHANGED <<pc, pending, transcript, cleared, lost>>
  BY DEF Steer, FollowUp, stateVars, turnVars
<1>2. Unannounced' = Unannounced
  BY <1>1 DEF Unannounced, At
<1>. QED
  BY <1>1, <1>2 DEF Steer, FollowUp, Accept, Queues

LEMMA DroppingSteps ==
  ASSUME \/ ListenerThrows \/ FailureListenerThrows
         \/ (\E k \in Calls : ToolListenerThrows(k))
  PROVE  Drops
<1>1. /\ lost' = lost \union Ids(Unannounced)
      /\ UNCHANGED <<transcript, queueVars, accepted, cleared>>
  BY DEF ListenerThrows, FailureListenerThrows, ToolListenerThrows, Throw, Fail,
     FinishRun, OnMessageStart
<1>2. pc' \in {"failStart", "idle"}
  BY DEF ListenerThrows, FailureListenerThrows, ToolListenerThrows, Fail,
     FinishRun, Goto
<1>3. Unannounced' = <<>>
  BY <1>2, HandWillBe DEF Handing, Polling
<1>. QED
  BY <1>1, <1>3 DEF Drops

LEMMA RemovingSteps ==
  ASSUME ClearSteeringQueue \/ ClearFollowUpQueue \/ Reset
  PROVE  Removes
<1>1. UNCHANGED <<pc, pending, accepted, lost>>
  BY DEF ClearSteeringQueue, ClearFollowUpQueue, Reset, turnVars
<1>2. Unannounced' = Unannounced
  BY <1>1 DEF Unannounced, At
<1>. QED
  BY <1>1, <1>2 DEF ClearSteeringQueue, ClearFollowUpQueue, Reset, stateVars,
     Removes

LEMMA TrimmingStep ==
  ASSUME TrimLast
  PROVE  Trims
<1>1. UNCHANGED <<pc, pending, kept>>
  BY DEF TrimLast, turnVars, kept
<1>2. Unannounced' = Unannounced
  BY <1>1 DEF Unannounced, At
<1>. QED
  BY <1>1, <1>2 DEF TrimLast, Trims, IsUser

\* Every step moves messages in one of these ways.
LEMMA StepMoves ==
  ASSUME IInv, [Next]_vars
  PROVE  Moves
BY StillSteps, SayingSteps, TellingStep, TakingSteps, AskingStep, QueueingSteps,
   DroppingSteps, RemovingSteps, TrimmingStep
   DEF Moves, Next, Progress, Environment, Continue

-----------------------------------------------------------------------------
(* The lines of user messages *)

\* All that came the same way wait in one line: what is announced comes before
\* what is drained, and that before what is queued.
Lines(T, H, S, F) ==
  /\ Before(T, H) /\ Before(T, S) /\ Before(T, F)
  /\ Before(H, S) /\ Before(H, F)
  /\ S \subseteq {"steer"} \X Nat /\ F \subseteq {"followUp"} \X Nat

LineInv ==
  /\ Rising(transcript) /\ Rising(Unannounced)
  /\ Rising(steeringQueue) /\ Rising(followUpQueue)
  /\ Lines(Marks(transcript), Marks(Unannounced), Marks(steeringQueue),
           Marks(followUpQueue))

Present ==
  Marks(transcript) \union Marks(Unannounced) \union Marks(steeringQueue)
    \union Marks(followUpQueue)

\* Every number is present with one mark, cleared or lost.
Numbers(M, C, L, n) ==
  /\ \A x \in M : x[2] \in 1..n
  /\ \A x, y \in M : x[2] = y[2] => x[1] = y[1]
  /\ C \subseteq 1..n /\ L \subseteq 1..n /\ C \intersect L = {}
  /\ \A x \in M : x[2] \notin C /\ x[2] \notin L
  /\ \A i \in 1..n : i \in C \/ i \in L \/ \E x \in M : x[2] = i

NumberInv == Numbers(Present, cleared, lost, accepted)

LEMMA Typed ==
  ASSUME IInv
  PROVE  /\ transcript \in Seq(Messages) /\ Unannounced \in Seq(Users)
         /\ steeringQueue \in Seq(Users) /\ followUpQueue \in Seq(Users)
         /\ accepted \in Nat
         /\ Marks(transcript) \subseteq Vias \X Nat
         /\ Marks(Unannounced) \subseteq Vias \X Nat
         /\ Marks(steeringQueue) \subseteq Vias \X Nat
         /\ Marks(followUpQueue) \subseteq Vias \X Nat
         /\ Present \subseteq Vias \X Nat
<1>1. /\ transcript \in Seq(Messages) /\ Unannounced \in Seq(Users)
      /\ steeringQueue \in Seq(Users) /\ followUpQueue \in Seq(Users)
      /\ accepted \in Nat
  BY UnannouncedTyping DEF IInv, TypeOK, MessageTypes, CountTypes
<1>. QED
  BY <1>1, MarkTyping DEF Present

LEMMA LineStep ==
  ASSUME IInv, LineInv, NumberInv, Moves
  PROVE  LineInv'
<1> DEFINE T == Marks(transcript)
           H == Marks(Unannounced)
           S == Marks(steeringQueue)
           F == Marks(followUpQueue)
<1>1. /\ Lines(T, H, S, F) /\ Rising(transcript) /\ Rising(Unannounced)
      /\ Rising(steeringQueue) /\ Rising(followUpQueue)
  BY DEF LineInv
<1>2. /\ T \subseteq Vias \X Nat /\ H \subseteq Vias \X Nat
      /\ S \subseteq Vias \X Nat /\ F \subseteq Vias \X Nat /\ accepted \in Nat
  BY Typed
<1>3. \A x \in T \union H \union S \union F : x[2] < accepted + 1
  BY <1>2 DEF NumberInv, Numbers, Present
<1>4. SUFFICES /\ Rising(transcript') /\ Rising(Unannounced')
               /\ Rising(steeringQueue') /\ Rising(followUpQueue')
               /\ Lines(T', H', S', F')
  BY DEF LineInv
<1>5. CASE Still
  BY <1>1, <1>5 DEF Still, kept, queueVars
<1>6. CASE Says
  <2>1. PICK m \in Messages : ~IsUser(m) /\ transcript' = Append(transcript, m)
    BY <1>6 DEF Says
  <2>2. Mark(m) = {} /\ Before(T, Mark(m))
    BY <2>1 DEF Mark, Before
  <2>3. T' = T /\ Rising(transcript')
    BY <1>1, <2>1, <2>2, Typed, AppendMarks
  <2>4. /\ Unannounced' = Unannounced /\ steeringQueue' = steeringQueue
        /\ followUpQueue' = followUpQueue
    BY <1>6 DEF Says, kept, queueVars
  <2>. QED
    BY <1>1, <2>3, <2>4
<1>7. CASE Tells
  <2> DEFINE m == Head(Unannounced)
  <2>1. /\ Unannounced # <<>> /\ transcript' = Append(transcript, m)
        /\ Unannounced' = Tail(Unannounced)
        /\ steeringQueue' = steeringQueue /\ followUpQueue' = followUpQueue
    BY <1>7 DEF Tells, kept, queueVars
  <2>2. m \in Messages
    BY <2>1, Typed, SubTypes
  <2>3. /\ H = Mark(m) \union H' /\ Rising(Unannounced')
        /\ Before(Mark(m), H')
    BY <1>1, <2>1, Typed, TailMarks
  <2> HIDE DEF m
  <2>4. Before(T, Mark(m))
    BY <1>1, <2>3 DEF Lines, Before
  <2>5. T' = T \union Mark(m) /\ Rising(transcript')
    BY <1>1, <2>1, <2>2, <2>4, Typed, AppendMarks
  <2>6. S' = S /\ F' = F
    BY <2>1
  <2> HIDE DEF T, H, S, F
  <2>7. Lines(T', H', S', F')
    BY <1>1, <2>3, <2>5, <2>6 DEF Lines, Before
  <2>. QED
    BY <1>1, <2>1, <2>3, <2>5, <2>7
<1>8. CASE Takes
  <2>1. H = {} /\ transcript' = transcript
    BY <1>8, NoMarks DEF Takes
  <2>2. PICK m \in QueueMode :
          \/ /\ Unannounced' = Drained(steeringQueue, m)
             /\ steeringQueue' = AfterDrain(steeringQueue, m)
             /\ followUpQueue' = followUpQueue
          \/ /\ Unannounced' = Drained(followUpQueue, m)
             /\ followUpQueue' = AfterDrain(followUpQueue, m)
             /\ steeringQueue' = steeringQueue
    BY <1>8 DEF Takes
  <2>3. CASE /\ Unannounced' = Drained(steeringQueue, m)
             /\ steeringQueue' = AfterDrain(steeringQueue, m)
             /\ followUpQueue' = followUpQueue
    <3>1. /\ S = H' \union S' /\ Rising(Unannounced') /\ Rising(steeringQueue')
          /\ Before(H', S')
      BY <1>1, <2>3, Typed, DrainMarks
    <3>2. T' = T /\ F' = F
      BY <2>1, <2>3
    <3> HIDE DEF T, H, S, F
    <3>3. Lines(T', H', S', F')
      BY <1>1, <3>1, <3>2 DEF Lines, Before
    <3>. QED
      BY <1>1, <2>1, <2>3, <3>1, <3>3
  <2>4. CASE /\ Unannounced' = Drained(followUpQueue, m)
             /\ followUpQueue' = AfterDrain(followUpQueue, m)
             /\ steeringQueue' = steeringQueue
    <3>1. /\ F = H' \union F' /\ Rising(Unannounced') /\ Rising(followUpQueue')
          /\ Before(H', F')
      BY <1>1, <2>4, Typed, DrainMarks
    <3>2. T' = T /\ S' = S
      BY <2>1, <2>4
    <3> HIDE DEF T, H, S, F
    <3>3. Lines(T', H', S', F')
      BY <1>1, <3>1, <3>2 DEF Lines, Before
    <3>. QED
      BY <1>1, <2>1, <2>4, <3>1, <3>3
  <2>. QED
    BY <2>2, <2>3, <2>4
<1>9. CASE Asks
  <2>1. PICK n \in Nat :
          Unannounced' = [i \in 1..n |-> UserMessage(accepted + i, "prompt")]
    BY <1>9 DEF Asks
  <2>2. /\ H' = {"prompt"} \X ((accepted + 1)..(accepted + n))
        /\ Rising(Unannounced')
    BY <1>2, <2>1, PromptMarks
  <2>3. /\ transcript' = transcript /\ steeringQueue' = steeringQueue
        /\ followUpQueue' = followUpQueue
    BY <1>9 DEF Asks, queueVars
  <2>4. T' = T /\ S' = S /\ F' = F
    BY <2>3
  <2> HIDE DEF T, H, S, F
  <2>5. Before(T, H')
    BY <1>2, <1>3, <2>2 DEF Before
  <2>6. Before(H', S) /\ Before(H', F)
    BY <1>1, <2>2 DEF Lines, Before
  <2>7. Lines(T', H', S', F')
    BY <1>1, <2>4, <2>5, <2>6 DEF Lines
  <2>. QED
    BY <1>1, <2>2, <2>3, <2>7
<1>10. CASE Queues
  <2>1. transcript' = transcript /\ Unannounced' = Unannounced
    BY <1>10 DEF Queues
  <2>2. ASSUME NEW q \in Seq(Users), Rising(q), NEW via \in Vias,
               Marks(q) \subseteq T \union H \union S \union F
        PROVE  /\ Marks(Append(q, UserMessage(accepted + 1, via)))
                    = Marks(q) \union {<<via, accepted + 1>>}
               /\ Rising(Append(q, UserMessage(accepted + 1, via)))
    <3> DEFINE m == UserMessage(accepted + 1, via)
    <3>1. m \in Messages /\ Mark(m) = {<<via, accepted + 1>>}
      BY <1>2 DEF UserMessage, Messages, Users, Mark, IsUser
    <3>2. Before(Marks(q), Mark(m))
      BY <1>3, <2>2, <3>1 DEF Before
    <3>3. q \in Seq(Messages)
      BY SubTypes
    <3>. QED
      BY <2>2, <3>1, <3>2, <3>3, AppendMarks
  <2>3. CASE /\ steeringQueue' =
                  Append(steeringQueue, UserMessage(accepted + 1, "steer"))
             /\ followUpQueue' = followUpQueue
    <3>1. S' = S \union {<<"steer", accepted + 1>>} /\ Rising(steeringQueue')
      BY <1>1, <2>2, <2>3, Typed DEF Vias
    <3>2. T' = T /\ H' = H /\ F' = F
      BY <2>1, <2>3
    <3> HIDE DEF T, H, S, F
    <3>3. \A x \in T \union H : x[2] < accepted + 1
      BY <1>3
    <3>4. Lines(T', H', S', F')
      BY <1>1, <1>2, <3>1, <3>2, <3>3 DEF Lines, Before
    <3>. QED
      BY <1>1, <2>1, <2>3, <3>1, <3>4
  <2>4. CASE /\ followUpQueue' =
                  Append(followUpQueue, UserMessage(accepted + 1, "followUp"))
             /\ steeringQueue' = steeringQueue
    <3>1. F' = F \union {<<"followUp", accepted + 1>>} /\ Rising(followUpQueue')
      BY <1>1, <2>2, <2>4, Typed DEF Vias
    <3>2. T' = T /\ H' = H /\ S' = S
      BY <2>1, <2>4
    <3> HIDE DEF T, H, S, F
    <3>3. \A x \in T \union H : x[2] < accepted + 1
      BY <1>3
    <3>4. Lines(T', H', S', F')
      BY <1>1, <1>2, <3>1, <3>2, <3>3 DEF Lines, Before
    <3>. QED
      BY <1>1, <2>1, <2>4, <3>1, <3>4
  <2>. QED
    BY <1>10, <2>3, <2>4 DEF Queues
<1>11. CASE Drops
  <2>1. /\ Unannounced' = <<>> /\ transcript' = transcript
        /\ steeringQueue' = steeringQueue /\ followUpQueue' = followUpQueue
    BY <1>11 DEF Drops, queueVars
  <2>2. Lines(T', H', S', F')
    BY <1>1, <2>1, NoMarks DEF Lines, Before
  <2>. QED
    BY <1>1, <2>1, <2>2, NoMarks
<1>12. CASE Removes
  <2>1. /\ Unannounced' = Unannounced
        /\ transcript' \in {<<>>, transcript}
        /\ steeringQueue' \in {<<>>, steeringQueue}
        /\ followUpQueue' \in {<<>>, followUpQueue}
    BY <1>12 DEF Removes
  <2>2. /\ H' = H /\ T' \in {{}, T} /\ S' \in {{}, S} /\ F' \in {{}, F}
        /\ Rising(transcript') /\ Rising(steeringQueue') /\ Rising(followUpQueue')
    BY <1>1, <2>1, NoMarks
  <2> HIDE DEF T, H, S, F
  <2>3. Lines(T', H', S', F')
    BY <1>1, <2>2 DEF Lines, Before
  <2>. QED
    BY <1>1, <2>1, <2>2, <2>3
<1>13. CASE Trims
  <2>1. /\ Unannounced' = Unannounced /\ steeringQueue' = steeringQueue
        /\ followUpQueue' = followUpQueue
    BY <1>13 DEF Trims, kept, queueVars
  <2>2. T' = T /\ Rising(transcript')
    BY <1>1, <1>13, Typed, FrontMarks DEF Trims
  <2>. QED
    BY <1>1, <2>1, <2>2
<1>. QED
  BY <1>5, <1>6, <1>7, <1>8, <1>9, <1>10, <1>11, <1>12, <1>13 DEF Moves

\* What is in different places has different numbers.
LEMMA Apart ==
  ASSUME IInv, LineInv, NumberInv
  PROVE  /\ \A x \in Marks(transcript) :
              \A y \in Marks(Unannounced) \union Marks(steeringQueue)
                         \union Marks(followUpQueue) : x[2] # y[2]
         /\ \A x \in Marks(Unannounced) :
              \A y \in Marks(steeringQueue) \union Marks(followUpQueue) :
                x[2] # y[2]
         /\ \A x \in Marks(steeringQueue), y \in Marks(followUpQueue) : x[2] # y[2]
<1> DEFINE T == Marks(transcript)
           H == Marks(Unannounced)
           S == Marks(steeringQueue)
           F == Marks(followUpQueue)
<1>1. /\ T \subseteq Vias \X Nat /\ H \subseteq Vias \X Nat
      /\ S \subseteq Vias \X Nat /\ F \subseteq Vias \X Nat
  BY Typed
<1>2. Lines(T, H, S, F)
  BY DEF LineInv
<1>3. \A x, y \in T \union H \union S \union F : x[2] = y[2] => x[1] = y[1]
  BY DEF NumberInv, Numbers, Present
<1> SUFFICES /\ \A x \in T : \A y \in H \union S \union F : x[2] # y[2]
             /\ \A x \in H : \A y \in S \union F : x[2] # y[2]
             /\ \A x \in S, y \in F : x[2] # y[2]
  OBVIOUS
<1> HIDE DEF T, H, S, F
<1>4. ASSUME NEW M, NEW N, Before(M, N), M \subseteq Vias \X Nat,
             M \union N \subseteq T \union H \union S \union F
      PROVE  \A x \in M, y \in N : x[2] # y[2]
  <2>1. ASSUME NEW x \in M, NEW y \in N, x[2] = y[2]
        PROVE  FALSE
    <3>1. x[2] < y[2]
      BY <1>3, <1>4, <2>1 DEF Before
    <3>2. x[2] \in Nat
      BY <1>4
    <3>. QED
      BY <2>1, <3>1, <3>2
  <2>. QED
    BY <2>1
<1>5. \A x \in S, y \in F : x[2] # y[2]
  <2>1. \A x \in S : x[1] = "steer"
    BY <1>2 DEF Lines
  <2>2. \A y \in F : y[1] = "followUp"
    BY <1>2 DEF Lines
  <2>. QED
    BY <1>3, <2>1, <2>2
<1>6. \A x \in T : \A y \in H \union S \union F : x[2] # y[2]
  <2>1. Before(T, H \union S \union F)
    BY <1>2 DEF Lines, Before
  <2>. QED
    BY <1>1, <1>4, <2>1
<1>7. \A x \in H : \A y \in S \union F : x[2] # y[2]
  <2>1. Before(H, S \union F)
    BY <1>2 DEF Lines, Before
  <2>. QED
    BY <1>1, <1>4, <2>1
<1>. QED
  BY <1>5, <1>6, <1>7

\* Messages that are taken away.
LEMMA NumbersGo ==
  ASSUME NEW n \in Nat, NEW M, NEW C, NEW L, NEW R, NEW G, Numbers(M, C, L, n),
         M = R \union G, \A x \in R, y \in G : x[2] # y[2]
  PROVE  /\ Numbers(R, C \union {x[2] : x \in G}, L, n)
         /\ Numbers(R, C, L \union {x[2] : x \in G}, n)
<1> DEFINE D == {x[2] : x \in G}
<1>1. /\ D \subseteq 1..n /\ D \intersect C = {} /\ D \intersect L = {}
      /\ \A x \in R : x[2] \notin D
      /\ \A i : (\E x \in G : x[2] = i) <=> i \in D
  BY DEF Numbers
<1> HIDE DEF D
<1>2. Numbers(R, C \union D, L, n) /\ Numbers(R, C, L \union D, n)
  BY <1>1 DEF Numbers
<1>. QED
  BY <1>2 DEF D

\* New messages.
LEMMA NumbersCome ==
  ASSUME NEW n \in Nat, NEW k \in Nat, NEW M, NEW C, NEW L, NEW via,
         Numbers(M, C, L, n)
  PROVE  Numbers(M \union ({via} \X ((n + 1)..(n + k))), C, L, n + k)
<1> DEFINE N == {via} \X ((n + 1)..(n + k))
<1>1. \A x \in N : x[1] = via /\ x[2] \in (n + 1)..(n + k)
  OBVIOUS
<1>2. \A i \in (n + 1)..(n + k) : \E x \in N : x[2] = i
  <2>1. \A i \in (n + 1)..(n + k) : <<via, i>> \in N /\ <<via, i>>[2] = i
    OBVIOUS
  <2>. QED
    BY <2>1
<1>3. /\ \A i \in 1..(n + k) : i \in 1..n \/ i \in (n + 1)..(n + k)
      /\ \A i \in 1..n : i \in 1..(n + k) /\ i \notin (n + 1)..(n + k)
      /\ \A i \in (n + 1)..(n + k) : i \in 1..(n + k)
  OBVIOUS
<1> HIDE DEF N
<1>4. Numbers(M \union N, C, L, n + k)
  BY <1>1, <1>2, <1>3 DEF Numbers
<1>. QED
  BY <1>4 DEF N

LEMMA NumberStep ==
  ASSUME IInv, LineInv, NumberInv, Moves
  PROVE  NumberInv'
<1> DEFINE T == Marks(transcript)
           H == Marks(Unannounced)
           S == Marks(steeringQueue)
           F == Marks(followUpQueue)
<1>1. Numbers(T \union H \union S \union F, cleared, lost, accepted)
  BY DEF NumberInv, Present
<1>2. accepted \in Nat
  BY Typed
<1> SUFFICES Numbers(T' \union H' \union S' \union F', cleared', lost', accepted')
  BY DEF NumberInv, Present
<1>3. CASE Still \/ Says \/ Tells \/ Takes \/ Trims
  <2>1. UNCHANGED <<cleared, lost, accepted>>
    BY <1>3 DEF Still, Says, Tells, Takes, Trims, kept
  <2>2. CASE Still
    BY <1>1, <2>2 DEF Still, kept, queueVars
  <2>3. CASE Says
    <3>1. PICK m \in Messages : ~IsUser(m) /\ transcript' = Append(transcript, m)
      BY <2>3 DEF Says
    <3>2. T' = T
      <4>1. Mark(m) = {}
        BY <3>1 DEF Mark
      <4>. QED
        BY <3>1, <4>1, Typed, AppendMarks
    <3>3. H' = H /\ S' = S /\ F' = F
      BY <2>3 DEF Says, kept, queueVars
    <3>. QED
      BY <1>1, <2>1, <3>2, <3>3
  <2>4. CASE Tells
    <3> DEFINE m == Head(Unannounced)
    <3>1. /\ Unannounced # <<>> /\ transcript' = Append(transcript, m)
          /\ Unannounced' = Tail(Unannounced) /\ S' = S /\ F' = F
      BY <2>4 DEF Tells, kept, queueVars
    <3>2. m \in Messages
      BY <3>1, Typed, SubTypes
    <3>3. H = Mark(m) \union H'
      BY <3>1, Typed, TailMarks
    <3>4. T' = T \union Mark(m)
      BY <3>1, <3>2, Typed, AppendMarks
    <3> HIDE DEF m, T, H, S, F
    <3>5. T' \union H' \union S' \union F' = T \union H \union S \union F
      BY <3>1, <3>3, <3>4
    <3>. QED
      BY <1>1, <2>1, <3>5
  <2>5. CASE Takes
    <3>1. H = {} /\ T' = T
      BY <2>5, NoMarks DEF Takes
    <3>2. H' \union S' \union F' = S \union F
      <4>1. PICK m \in QueueMode :
              \/ /\ Unannounced' = Drained(steeringQueue, m)
                 /\ steeringQueue' = AfterDrain(steeringQueue, m)
                 /\ followUpQueue' = followUpQueue
              \/ /\ Unannounced' = Drained(followUpQueue, m)
                 /\ followUpQueue' = AfterDrain(followUpQueue, m)
                 /\ steeringQueue' = steeringQueue
        BY <2>5 DEF Takes
      <4>2. \/ S = H' \union S' /\ F' = F
            \/ F = H' \union F' /\ S' = S
        BY <4>1, Typed, DrainMarks
      <4> HIDE DEF T, H, S, F
      <4>. QED
        BY <4>2
    <3> HIDE DEF T, H, S, F
    <3>3. T' \union H' \union S' \union F' = T \union H \union S \union F
      BY <3>1, <3>2
    <3>. QED
      BY <1>1, <2>1, <3>3
  <2>6. CASE Trims
    <3>1. T' = T
      BY <2>6, Typed, FrontMarks DEF Trims
    <3>2. H' = H /\ S' = S /\ F' = F
      BY <2>6 DEF Trims, kept, queueVars
    <3>. QED
      BY <1>1, <2>1, <3>1, <3>2
  <2>. QED
    BY <1>3, <2>2, <2>3, <2>4, <2>5, <2>6
<1>4. CASE Asks
  <2>1. PICK n \in Nat :
          /\ Unannounced' = [i \in 1..n |-> UserMessage(accepted + i, "prompt")]
          /\ accepted' = accepted + n
    BY <1>4 DEF Asks
  <2>2. /\ H = {} /\ T' = T /\ S' = S /\ F' = F
        /\ cleared' = cleared /\ lost' = lost
    BY <1>4, NoMarks DEF Asks, queueVars
  <2>3. H' = {"prompt"} \X ((accepted + 1)..(accepted + n))
    BY <1>2, <2>1, PromptMarks
  <2>4. Numbers(T \union H \union S \union F \union H', cleared, lost, accepted + n)
    BY <1>1, <1>2, <2>3, NumbersCome
  <2> HIDE DEF T, H, S, F
  <2>5. T' \union H' \union S' \union F' = T \union H \union S \union F \union H'
    BY <2>2
  <2>. QED
    BY <2>1, <2>2, <2>4, <2>5
<1>5. CASE Queues
  <2>1. /\ T' = T /\ H' = H /\ accepted' = accepted + 1
        /\ cleared' = cleared /\ lost' = lost
    BY <1>5 DEF Queues
  <2>2. (accepted + 1)..(accepted + 1) = {accepted + 1}
    BY <1>2
  <2>3. ASSUME NEW q \in Seq(Users), NEW via \in Vias
        PROVE  Marks(Append(q, UserMessage(accepted + 1, via)))
                 = Marks(q) \union ({via} \X ((accepted + 1)..(accepted + 1)))
    <3> DEFINE m == UserMessage(accepted + 1, via)
    <3>1. m \in Messages /\ Mark(m) = {<<via, accepted + 1>>}
      BY <1>2 DEF UserMessage, Messages, Users, Mark, IsUser
    <3>2. {via} \X ((accepted + 1)..(accepted + 1)) = Mark(m)
      BY <2>2, <3>1
    <3>3. q \in Seq(Messages)
      BY SubTypes
    <3> HIDE DEF m
    <3>4. Marks(Append(q, m)) = Marks(q) \union Mark(m)
      BY <3>1, <3>3, AppendMarks
    <3>. QED
      BY <3>2, <3>4 DEF m
  <2>4. PICK via \in {"steer", "followUp"} :
          \/ /\ S' = S \union ({via} \X ((accepted + 1)..(accepted + 1)))
             /\ F' = F
          \/ /\ F' = F \union ({via} \X ((accepted + 1)..(accepted + 1)))
             /\ S' = S
    BY <1>5, <2>3, Typed DEF Queues, Vias
  <2>5. Numbers(T \union H \union S \union F
                  \union ({via} \X ((accepted + 1)..(accepted + 1))),
                cleared, lost, accepted + 1)
    BY <1>1, <1>2, NumbersCome
  <2> HIDE DEF T, H, S, F
  <2>6. T' \union H' \union S' \union F'
          = T \union H \union S \union F
              \union ({via} \X ((accepted + 1)..(accepted + 1)))
    BY <2>1, <2>4
  <2>. QED
    BY <2>1, <2>5, <2>6
<1>6. CASE Drops
  <2>1. /\ H' = {} /\ T' = T /\ S' = S /\ F' = F /\ accepted' = accepted
        /\ cleared' = cleared /\ lost' = lost \union {x[2] : x \in H}
    BY <1>6, NoMarks, IdsAre DEF Drops, queueVars
  <2>2. \A x \in T \union S \union F, y \in H : x[2] # y[2]
    BY Apart
  <2> HIDE DEF T, H, S, F
  <2>3. T \union H \union S \union F = (T \union S \union F) \union H
    OBVIOUS
  <2>4. Numbers(T \union S \union F, cleared, lost \union {x[2] : x \in H}, accepted)
    BY <1>1, <1>2, <2>2, <2>3, NumbersGo
  <2>5. T' \union H' \union S' \union F' = T \union S \union F
    BY <2>1
  <2>. QED
    BY <2>1, <2>4, <2>5
<1>7. CASE Removes
  <2>1. H' = H /\ accepted' = accepted /\ lost' = lost
    BY <1>7 DEF Removes
  <2>2. \/ /\ S' = {} /\ T' = T /\ F' = F
           /\ cleared' = cleared \union {x[2] : x \in S}
        \/ /\ F' = {} /\ T' = T /\ S' = S
           /\ cleared' = cleared \union {x[2] : x \in F}
        \/ /\ T' = {} /\ S' = {} /\ F' = {}
           /\ cleared' = cleared \union {x[2] : x \in S} \union {x[2] : x \in F}
                           \union {x[2] : x \in T}
    BY <1>7, NoMarks, IdsAre DEF Removes
  <2>3. /\ \A x \in T, y \in H \union S \union F : x[2] # y[2]
        /\ \A x \in H, y \in S \union F : x[2] # y[2]
        /\ \A x \in S, y \in F : x[2] # y[2]
    BY Apart
  <2> HIDE DEF T, H, S, F
  <2>4. CASE /\ S' = {} /\ T' = T /\ F' = F
             /\ cleared' = cleared \union {x[2] : x \in S}
    <3>1. T \union H \union S \union F = (T \union H \union F) \union S
      OBVIOUS
    <3>2. T' \union H' \union S' \union F' = T \union H \union F
      BY <2>1, <2>4
    <3>3. \A x \in T \union H \union F, y \in S : x[2] # y[2]
      BY <2>3
    <3>. QED
      BY <1>1, <1>2, <2>1, <2>4, <3>1, <3>2, <3>3, NumbersGo
  <2>5. CASE /\ F' = {} /\ T' = T /\ S' = S
             /\ cleared' = cleared \union {x[2] : x \in F}
    <3>1. T \union H \union S \union F = (T \union H \union S) \union F
      OBVIOUS
    <3>2. T' \union H' \union S' \union F' = T \union H \union S
      BY <2>1, <2>5
    <3>3. \A x \in T \union H \union S, y \in F : x[2] # y[2]
      BY <2>3
    <3>. QED
      BY <1>1, <1>2, <2>1, <2>5, <3>1, <3>2, <3>3, NumbersGo
  <2>6. CASE /\ T' = {} /\ S' = {} /\ F' = {}
             /\ cleared' = cleared \union {x[2] : x \in S} \union {x[2] : x \in F}
                             \union {x[2] : x \in T}
    <3> DEFINE G == T \union S \union F
    <3>1. T \union H \union S \union F = H \union G
      OBVIOUS
    <3>2. T' \union H' \union S' \union F' = H
      BY <2>1, <2>6
    <3>3. \A x \in H, y \in G : x[2] # y[2]
      BY <2>3
    <3>4. cleared' = cleared \union {x[2] : x \in G}
      BY <2>6
    <3> HIDE DEF G
    <3>. QED
      BY <1>1, <1>2, <2>1, <3>1, <3>2, <3>3, <3>4, NumbersGo
  <2>. QED
    BY <2>2, <2>4, <2>5, <2>6
<1>. QED
  BY <1>3, <1>4, <1>5, <1>6, <1>7 DEF Moves

LEMMA LinesInit == ASSUME Init PROVE LineInv /\ NumberInv
<1>1. /\ transcript = <<>> /\ Unannounced = <<>>
      /\ steeringQueue = <<>> /\ followUpQueue = <<>>
      /\ accepted = 0 /\ cleared = {} /\ lost = {}
  BY HandIs DEF Init, Handing, Polling
<1>2. 1..0 = {}
  OBVIOUS
<1>. QED
  BY <1>1, <1>2, NoMarks DEF LineInv, Lines, Before, NumberInv, Numbers, Present

LEMMA LinesHold == Spec => [](LineInv /\ NumberInv)
<1>1. Init => LineInv /\ NumberInv
  BY LinesInit
<1>2. IInv /\ LineInv /\ NumberInv /\ [Next]_vars => (LineInv /\ NumberInv)'
  BY StepMoves, LineStep, NumberStep
<1>. QED
  BY <1>1, <1>2, Invariance, PTL DEF Spec

\* Whichever run delivers them, and whatever the modes, failures and calls to
\* clear, messages of one queue reach the transcript in the order in which they
\* were accepted (agent.ts PendingMessageQueue, agent-loop.ts runLoop).
THEOREM DeliveryKeepsOrder == Spec => []DeliveredInOrder
<1>1. LineInv => DeliveredInOrder
  BY DEF LineInv, Rising, DeliveredInOrder
<1>. QED
  BY <1>1, LinesHold, PTL

\* A number with a mark in a sequence is there once.
LEMMA OneIn ==
  ASSUME NEW s, s \in Seq(Messages) \/ s \in Seq(Users), Rising(s), NEW place,
         NEW id, \A x, y \in Marks(s) : x[2] = y[2] => x[1] = y[1]
  PROVE  /\ (\E x \in Marks(s) : x[2] = id) => \E k : In(s, place, id) = {<<place, k>>}
         /\ ~(\E x \in Marks(s) : x[2] = id) => In(s, place, id) = {}
<1>1. \A x \in Marks(s) : x[2] \in Nat
  BY MarkTyping
<1>2. Len(s) \in Nat
  OBVIOUS
<1>3. ASSUME NEW i \in 1..Len(s), IsUser(s[i])
      PROVE  \E x \in Marks(s) : x[1] = s[i].via /\ x[2] = s[i].id
  <2>1. <<s[i].via, s[i].id>> \in Marks(s)
    BY <1>3, MarksAre
  <2>. QED
    BY <2>1
<1>4. ASSUME NEW x \in Marks(s), x[2] = id
      PROVE  \E k : In(s, place, id) = {<<place, k>>}
  <2>1. PICK k \in 1..Len(s) : IsUser(s[k]) /\ x = <<s[k].via, s[k].id>>
    BY MarksAre
  <2>2. s[k].id = id
    BY <1>4, <2>1
  <2>3. ASSUME NEW j \in 1..Len(s), IsUser(s[j]), s[j].id = id
        PROVE  j = k
    <3>1. s[j].via = s[k].via /\ id \in Nat
      BY <1>1, <1>3, <1>4, <2>1, <2>2, <2>3
    <3>2. ~(j < k) /\ ~(k < j)
      BY <2>1, <2>2, <2>3, <3>1 DEF Rising
    <3>. QED
      BY <1>2, <3>2
  <2>4. {j \in 1..Len(s) : IsUser(s[j]) /\ s[j].id = id} = {k}
    BY <2>1, <2>2, <2>3
  <2>5. In(s, place, id) = {<<place, j>> : j \in {k}}
    BY <2>4 DEF In
  <2>. QED
    BY <2>5
<1>5. ASSUME ~(\E x \in Marks(s) : x[2] = id)
      PROVE  In(s, place, id) = {}
  BY <1>3, <1>5 DEF In
<1>. QED
  BY <1>4, <1>5

Cleared(id) == {<<"cleared", 0>> : x \in {id} \intersect cleared}
Lost(id) == {<<"lost", 0>> : x \in {id} \intersect lost}

LEMMA OnePlace ==
  ASSUME IInv, LineInv, NumberInv, NEW id \in 1..accepted
  PROVE  \E p : PlacesOf(id) = {p}
<1> DEFINE A == In(transcript, "transcript", id)
           B == In(Unannounced, "drained", id)
           C == In(steeringQueue, "steering", id)
           D == In(followUpQueue, "followUp", id)
           Has(M) == \E x \in M : x[2] = id
<1>1. PlacesOf(id) = A \union B \union C \union D \union Cleared(id) \union Lost(id)
  BY DEF PlacesOf, Cleared, Lost
<1>2. ASSUME NEW s, s \in Seq(Messages) \/ s \in Seq(Users), Rising(s),
             Marks(s) \subseteq Present, NEW place
      PROVE  /\ Has(Marks(s)) => \E k : In(s, place, id) = {<<place, k>>}
             /\ ~Has(Marks(s)) => In(s, place, id) = {}
  <2>1. \A x, y \in Marks(s) : x[2] = y[2] => x[1] = y[1]
    BY <1>2 DEF NumberInv, Numbers
  <2>. QED
    BY <1>2, <2>1, OneIn
<1>3. /\ Has(Marks(transcript)) => \E k : A = {<<"transcript", k>>}
      /\ ~Has(Marks(transcript)) => A = {}
  BY <1>2, Typed DEF LineInv, Present
<1>4. /\ Has(Marks(Unannounced)) => \E k : B = {<<"drained", k>>}
      /\ ~Has(Marks(Unannounced)) => B = {}
  BY <1>2, Typed DEF LineInv, Present
<1>5. /\ Has(Marks(steeringQueue)) => \E k : C = {<<"steering", k>>}
      /\ ~Has(Marks(steeringQueue)) => C = {}
  BY <1>2, Typed DEF LineInv, Present
<1>6. /\ Has(Marks(followUpQueue)) => \E k : D = {<<"followUp", k>>}
      /\ ~Has(Marks(followUpQueue)) => D = {}
  BY <1>2, Typed DEF LineInv, Present
<1>7. /\ id \in cleared => Cleared(id) = {<<"cleared", 0>>}
      /\ id \notin cleared => Cleared(id) = {}
      /\ id \in lost => Lost(id) = {<<"lost", 0>>}
      /\ id \notin lost => Lost(id) = {}
  BY DEF Cleared, Lost
<1>8. /\ Has(Marks(transcript)) => /\ ~Has(Marks(Unannounced))
                                   /\ ~Has(Marks(steeringQueue))
                                   /\ ~Has(Marks(followUpQueue))
      /\ Has(Marks(Unannounced)) => /\ ~Has(Marks(steeringQueue))
                                    /\ ~Has(Marks(followUpQueue))
      /\ Has(Marks(steeringQueue)) => ~Has(Marks(followUpQueue))
  BY Apart
<1>9. /\ Has(Marks(transcript)) \/ Has(Marks(Unannounced))
           \/ Has(Marks(steeringQueue)) \/ Has(Marks(followUpQueue))
           => id \notin cleared /\ id \notin lost
      /\ id \in cleared => id \notin lost
      /\ \/ Has(Marks(transcript)) \/ Has(Marks(Unannounced))
         \/ Has(Marks(steeringQueue)) \/ Has(Marks(followUpQueue))
         \/ id \in cleared \/ id \in lost
  BY DEF NumberInv, Numbers, Present
<1> HIDE DEF A, B, C, D, Has
<1>. QED
  BY <1>1, <1>3, <1>4, <1>5, <1>6, <1>7, <1>8, <1>9

\* Every user message the agent accepted is in exactly one place, whatever
\* listeners throw, runs abort and callers clear (agent.ts, agent-loop.ts).
THEOREM MessagesAreKept == Spec => []Conservation
<1>1. IInv /\ LineInv /\ NumberInv => Conservation
  BY OnePlace, FS_Singleton DEF Conservation
<1>. QED
  BY <1>1, Invariance, LinesHold, PTL

-----------------------------------------------------------------------------
(* What is queued when a run ends *)

Later(q) == \A id \in Ids(q) : id > polledAt

\* What each place between the last poll and the end of a run says of the queues.
ServedInv ==
  /\ polledAt <= accepted
  /\ pc = "polled" /\ pending = <<>> => Later(steeringQueue)
  /\ pc = "polledFollowUp" /\ pending = <<>> =>
       Later(steeringQueue) /\ Later(followUpQueue)
  /\ pc = "turnEndFinal" => Failed(reply)
  /\ pc = "agentEnd" /\ ~Failed(reply) =>
       Later(steeringQueue) /\ Later(followUpQueue)

Ending == {"polled", "polledFollowUp", "turnEndFinal", "agentEnd"}

\* A poll that returns nothing found nothing.
LEMMA NothingDrained ==
  ASSUME NEW q \in Seq(Users), NEW m, Drained(q, m) = <<>>
  PROVE  AfterDrain(q, m) = <<>>
BY DEF Drained, AfterDrain

LEMMA EmptyIds == Ids(<<>>) = {}
BY DEF Ids

LEMMA AppendIds ==
  ASSUME NEW q \in Seq(Users), NEW m \in Users
  PROVE  Ids(Append(q, m)) = Ids(q) \union {m.id}
<1>1. Mark(m) = {<<m.via, m.id>>} /\ m \in Messages /\ q \in Seq(Messages)
  BY SubTypes DEF Mark, IsUser, Users
<1>2. Marks(Append(q, m)) = Marks(q) \union {<<m.via, m.id>>}
  BY <1>1, AppendMarks
<1>3. \A p : {x[2] : x \in Marks(q) \union {p}} = {x[2] : x \in Marks(q)} \union {p[2]}
  OBVIOUS
<1>4. <<m.via, m.id>>[2] = m.id
  OBVIOUS
<1>. QED
  BY <1>2, <1>3, <1>4, IdsAre

LEMMA ServedStep ==
  ASSUME IInv, ServedInv, [Next]_vars
  PROVE  ServedInv'
<1>1. /\ accepted \in Nat /\ polledAt \in Nat /\ polledAt <= accepted
      /\ steeringQueue \in Seq(Users) /\ followUpQueue \in Seq(Users)
  BY DEF IInv, TypeOK, CountTypes, MessageTypes, ServedInv
<1>2. CASE \/ TurnStart \/ Announce \/ AnnounceEnd \/ AnnounceNext
           \/ FirstPoll \/ AnnounceFirstPolled \/ Request
           \/ ResponseStart \/ ResponseEnd \/ ResponseWhole \/ ResponseWholeEnd
           \/ PlainTurn \/ ToolBatch \/ ToolImmediate \/ ToolPrepared \/ ToolNext
           \/ RunPrepared \/ ResultStart \/ ResultEnd \/ BatchTurn \/ NextTurn
           \/ FailureEnd \/ FailureTurnEnd \/ FailureAgentEnd
           \/ RequestFails \/ ListenerThrows
           \/ (\E k \in Calls : ToolListenerThrows(k)) \/ ContinueTranscript
           \/ ContinueFromQueues
  <2>1. pc' \notin Ending
    BY <1>2 DEF Ending, TurnStart, Announce, AnnounceEnd, AnnounceNext, FirstPoll,
       AnnounceFirstPolled, Request, ResponseStart, ResponseEnd, ResponseWhole,
       ResponseWholeEnd, PlainTurn, ToolBatch, ToolImmediate, ToolPrepared,
       ToolNext, RunPrepared, ResultStart, ResultEnd, BatchTurn, NextTurn,
       FailureEnd, FailureTurnEnd, FailureAgentEnd, RequestFails,
       ListenerThrows, ToolListenerThrows, ContinueTranscript,
       ContinueFromQueues, StartRun, Fail, Goto
  <2>2. polledAt' = polledAt /\ accepted' = accepted
    BY <1>2 DEF TurnStart, Announce, AnnounceEnd, AnnounceNext, FirstPoll,
       AnnounceFirstPolled, Request, ResponseStart, ResponseEnd, ResponseWhole,
       ResponseWholeEnd, PlainTurn, ToolBatch, ToolImmediate, ToolPrepared,
       ToolNext, RunPrepared, ResultStart, ResultEnd, BatchTurn, NextTurn,
       FailureEnd, FailureTurnEnd, FailureAgentEnd, RequestFails,
       ListenerThrows, ToolListenerThrows, ContinueTranscript,
       ContinueFromQueues, StartRun, Fail, SameRest, envVars
  <2>. QED
    BY <1>1, <2>1, <2>2 DEF ServedInv, Ending
<1>3. CASE Finish \/ FailureListenerThrows \/ Prompt
  <2>1. pc' \notin Ending
    BY <1>3 DEF Ending, Finish, FailureListenerThrows, FinishRun, Goto, Prompt,
       StartRun
  <2>2. polledAt' <= accepted'
    <3>1. CASE Finish \/ FailureListenerThrows
      BY <1>1, <3>1 DEF Finish, FailureListenerThrows, FinishRun
    <3>2. CASE Prompt
      <4>1. PICK n \in 1..MaxPrompt : accepted' = accepted + n
        BY <3>2 DEF Prompt
      <4>2. polledAt' = polledAt /\ n \in Nat
        BY <3>2, BoundsAssumption DEF Prompt, StartRun
      <4>. QED
        BY <1>1, <4>1, <4>2
    <3>. QED
      BY <1>3, <3>1, <3>2
  <2>. QED
    BY <2>1, <2>2 DEF ServedInv, Ending
<1>4. CASE \/ (\E k \in Calls : ToolFinish(k)) \/ (\E k \in Calls : ToolSettle(k))
           \/ StrayFinish \/ Abort \/ TrimLast \/ UNCHANGED vars
  <2>1. UNCHANGED <<pc, pending, reply, polledAt, accepted, steeringQueue,
                    followUpQueue>>
    BY <1>4 DEF ToolFinish, ToolSettle, StrayFinish, Abort, TrimLast, vars,
       SameAgent, SameLoop, SameRest, queueVars, turnVars, envVars
  <2>. QED
    BY <2>1 DEF ServedInv, Later, Failed
<1>5. CASE \/ Steer \/ FollowUp \/ ClearSteeringQueue \/ ClearFollowUpQueue
           \/ Reset
  <2>1. UNCHANGED <<pc, pending, reply, polledAt>>
    BY <1>5 DEF Steer, FollowUp, ClearSteeringQueue, ClearFollowUpQueue, Reset,
       turnVars
  <2>2. /\ accepted' \in Nat /\ accepted' >= accepted
        /\ Later(steeringQueue) => Later(steeringQueue)'
        /\ Later(followUpQueue) => Later(followUpQueue)'
    <3>1. CASE Steer
      <4>1. /\ accepted' = accepted + 1 /\ followUpQueue' = followUpQueue
            /\ steeringQueue' = Append(steeringQueue, UserMessage(accepted', "steer"))
        BY <3>1 DEF Steer, Accept
      <4>2. UserMessage(accepted', "steer") \in Users
        BY <1>1, <4>1 DEF UserMessage, Users, Vias
      <4>3. Ids(steeringQueue') = Ids(steeringQueue) \union {accepted + 1}
        BY <1>1, <4>1, <4>2, AppendIds DEF UserMessage
      <4>. QED
        BY <1>1, <2>1, <4>1, <4>3 DEF Later
    <3>2. CASE FollowUp
      <4>1. /\ accepted' = accepted + 1 /\ steeringQueue' = steeringQueue
            /\ followUpQueue'
                 = Append(followUpQueue, UserMessage(accepted', "followUp"))
        BY <3>2 DEF FollowUp, Accept
      <4>2. UserMessage(accepted', "followUp") \in Users
        BY <1>1, <4>1 DEF UserMessage, Users, Vias
      <4>3. Ids(followUpQueue') = Ids(followUpQueue) \union {accepted + 1}
        BY <1>1, <4>1, <4>2, AppendIds DEF UserMessage
      <4>. QED
        BY <1>1, <2>1, <4>1, <4>3 DEF Later
    <3>3. CASE ClearSteeringQueue \/ ClearFollowUpQueue \/ Reset
      <4>1. /\ accepted' = accepted
            /\ steeringQueue' \in {<<>>, steeringQueue}
            /\ followUpQueue' \in {<<>>, followUpQueue}
        BY <3>3 DEF ClearSteeringQueue, ClearFollowUpQueue, Reset
      <4>. QED
        BY <1>1, <2>1, <4>1, EmptyIds DEF Later
    <3>. QED
      BY <1>5, <3>1, <3>2, <3>3
  <2>3. polledAt' <= accepted'
    BY <1>1, <2>1, <2>2
  <2>. QED
    BY <2>1, <2>2, <2>3 DEF ServedInv, Failed
<1>6. CASE PollSteering
  <2>1. /\ pc' = "polled" /\ polledAt' = accepted /\ accepted' = accepted
        /\ \E m : /\ pending' = Drained(steeringQueue, m)
                  /\ steeringQueue' = AfterDrain(steeringQueue, m)
    BY <1>6 DEF PollSteering, DrainSteering, Goto
  <2>2. pending' = <<>> => steeringQueue' = <<>>
    BY <1>1, <2>1, NothingDrained
  <2>. QED
    BY <1>1, <2>1, <2>2, EmptyIds DEF ServedInv, Later
<1>7. CASE PollFollowUps
  <2>1. /\ pc = "polled" /\ pending = <<>> /\ pc' = "polledFollowUp"
        /\ UNCHANGED <<polledAt, accepted, steeringQueue>>
        /\ \E m : /\ pending' = Drained(followUpQueue, m)
                  /\ followUpQueue' = AfterDrain(followUpQueue, m)
    BY <1>7 DEF PollFollowUps, DrainFollowUps, At, Goto, SameRest, envVars
  <2>2. pending' = <<>> => followUpQueue' = <<>>
    BY <1>1, <2>1, NothingDrained
  <2>. QED
    BY <1>1, <2>1, <2>2, EmptyIds DEF ServedInv, Later
<1>8. CASE AgentEnd
  <2>1. /\ pc' = "agentEnd"
        /\ UNCHANGED <<polledAt, accepted, steeringQueue, followUpQueue, reply>>
        /\ \/ pc = "polledFollowUp" /\ pending = <<>>
           \/ pc = "turnEndFinal"
    BY <1>8 DEF AgentEnd, At, Goto, SameLoop, SameRest, queueVars, envVars
  <2>. QED
    BY <1>1, <2>1 DEF ServedInv, Later, Failed
<1>9. CASE FailedTurn
  <2>1. /\ pc' = "turnEndFinal" /\ Failed(reply)
        /\ UNCHANGED <<polledAt, accepted, reply>>
    BY <1>9 DEF FailedTurn, Goto, SameLoop, SameRest, envVars
  <2>. QED
    BY <1>1, <2>1 DEF ServedInv, Failed
<1>. QED
  BY <1>2, <1>3, <1>4, <1>5, <1>6, <1>7, <1>8, <1>9 DEF Next, Progress,
     Environment, Continue

\* A run that ends of its own accord leaves nothing queued that was there at its
\* last polls, whoever queues, clears or aborts meanwhile (agent-loop.ts runLoop).
THEOREM QueuesAreServed == Spec => []NothingStranded
<1>1. Init => ServedInv
  BY DEF Init, ServedInv
<1>2. IInv /\ ServedInv /\ [Next]_vars => ServedInv'
  BY ServedStep
<1>3. ServedInv => NothingStranded
  BY DEF ServedInv, NothingStranded, Later, At
<1>. QED
  BY <1>1, <1>2, <1>3, Invariance, PTL DEF Spec

-----------------------------------------------------------------------------
(* The results of a batch *)

\* From its end on, the response is the last message of the context.
EndsWithReply ==
  pc \in {"finalStart", "assistantEnd"} \union InBatch =>
    context # <<>> /\ context[Len(context)] = reply

\* The results answer the calls in their order, up to the last one started;
\* only an abort keeps a call from being started.
ResultsInv ==
  pc \in InBatch =>
    /\ cursor \in 1..reply.calls
    /\ \A k \in 1..Len(results) : results[k] = ToolResult(k)
    /\ mode = "parallel" /\ pc \in {"toolsRunning", "resultStart", "resultEnd"}
         => cursor = reply.calls \/ aborted

AnswerInv == EndsWithReply /\ ResultsInv /\ ToolResultsComplete

LEMMA EndStep ==
  ASSUME IInv, EndsWithReply, [Next]_vars
  PROVE  EndsWithReply'
<1>1. context \in Seq(Messages) /\ turn \in Nat
  BY DEF IInv, TypeOK, MessageTypes, CountTypes
<1> DEFINE Held == {"finalStart", "assistantEnd"} \union InBatch
<1>2. CASE ResponseEnd
  <2>1. pc = "streaming" /\ context # <<>> /\ reply' \in Messages
    <3>1. reply' \in Assistants
      BY <1>1, <1>2, ResponseTyping DEF ResponseEnd
    <3>. QED
      BY <1>2, <3>1, Others DEF IInv, LoopInv, ResponseEnd, At
  <2>2. context' = [context EXCEPT ![Len(context)] = reply']
    BY <1>2 DEF ResponseEnd
  <2>3. Len(context) \in 1..Len(context)
    BY <1>1, <2>1
  <2>4. context' \in Seq(Messages) /\ Len(context') = Len(context)
        /\ context'[Len(context)] = reply'
    BY <1>1, <2>1, <2>2, <2>3, ExceptSeq
  <2>5. context' # <<>> /\ context'[Len(context')] = reply'
    BY <2>3, <2>4
  <2>. QED
    BY <2>5 DEF EndsWithReply
<1>3. CASE ResponseWhole
  <2>1. context' = Append(context, reply')
    BY <1>3 DEF ResponseWhole
  <2>2. context' # <<>> /\ context'[Len(context')] = reply'
    BY <1>1, <2>1
  <2>. QED
    BY <2>2 DEF EndsWithReply
<1>4. CASE \/ ResponseWholeEnd \/ ToolBatch \/ ToolImmediate \/ ToolPrepared
           \/ ToolNext \/ RunPrepared
           \/ (\E k \in Calls : ToolFinish(k)) \/ (\E k \in Calls : ToolSettle(k))
           \/ ResultStart \/ ResultEnd
  <2>1. pc \in Held /\ context' = context /\ reply' = reply
    BY <1>4 DEF ResponseWholeEnd, ToolBatch, ToolImmediate, ToolPrepared, ToolNext,
       RunPrepared, ToolFinish, ToolSettle, ResultStart, ResultEnd, At, InBatch,
       SameLoop
  <2>. QED
    BY <2>1 DEF EndsWithReply
<1>5. CASE \/ StrayFinish \/ Steer \/ FollowUp \/ Abort \/ ClearSteeringQueue
           \/ ClearFollowUpQueue \/ Reset \/ TrimLast \/ UNCHANGED vars
  <2>1. UNCHANGED <<pc, context, reply>>
    BY <1>5 DEF StrayFinish, Steer, FollowUp, Abort, ClearSteeringQueue,
       ClearFollowUpQueue, Reset, TrimLast, turnVars, vars
  <2>. QED
    BY <2>1 DEF EndsWithReply
<1>6. CASE \/ TurnStart \/ Announce \/ AnnounceEnd \/ AnnounceNext \/ FirstPoll
           \/ AnnounceFirstPolled \/ Request \/ ResponseStart \/ FailedTurn
           \/ PlainTurn \/ BatchTurn \/ PollSteering \/ PollFollowUps \/ NextTurn
           \/ AgentEnd \/ FailureEnd \/ FailureTurnEnd \/ FailureAgentEnd
           \/ Finish \/ RequestFails \/ ListenerThrows
           \/ FailureListenerThrows \/ (\E k \in Calls : ToolListenerThrows(k))
           \/ Prompt \/ ContinueFromQueues \/ ContinueTranscript
  <2>1. pc' \notin Held
    BY <1>6 DEF TurnStart, Announce, AnnounceEnd, AnnounceNext, FirstPoll,
       AnnounceFirstPolled, Request, ResponseStart, FailedTurn, PlainTurn,
       BatchTurn, PollSteering, PollFollowUps, NextTurn, AgentEnd, FailureEnd,
       FailureTurnEnd, FailureAgentEnd, Finish, RequestFails, ListenerThrows,
       FailureListenerThrows, ToolListenerThrows, Prompt, ContinueFromQueues,
       ContinueTranscript, StartRun, FinishRun, Fail, Goto, InBatch
  <2>. QED
    BY <2>1 DEF EndsWithReply
<1>. QED
  BY <1>2, <1>3, <1>4, <1>5, <1>6 DEF Next, Progress, Environment, Continue

LEMMA ResultsStep ==
  ASSUME IInv, ResultsInv, [Next]_vars
  PROVE  ResultsInv'
<1>1. /\ results \in Seq(ToolResults) /\ cursor \in Nat /\ turn \in Nat
      /\ reply.calls \in Nat /\ mode \in {"parallel", "sequential"}
  BY Bounds DEF IInv, TypeOK, MessageTypes, BatchTypes, CountTypes, Assistants,
     ToolExecutionMode
<1>2. CASE ToolBatch
  <2>1. /\ reply' = reply /\ reply.calls > 0 /\ cursor' = 1 /\ results' = <<>>
        /\ pc' = "toolStart"
    BY <1>2 DEF ToolBatch, Goto, SameLoop
  <2>. QED
    BY <1>1, <2>1 DEF ResultsInv
<1>3. CASE \/ ToolImmediate \/ ToolPrepared
           \/ (\E k \in Calls : ToolFinish(k)) \/ (\E k \in Calls : ToolSettle(k))
           \/ ResultStart
  <2>1. /\ pc \in InBatch /\ UNCHANGED <<cursor, results, reply, turn, mode, aborted>>
    BY <1>3 DEF ToolImmediate, ToolPrepared, ToolFinish, ToolSettle, ResultStart,
       At, InBatch, SameLoop, SameRest
  <2>2. mode = "parallel" /\ pc' \in {"toolsRunning", "resultStart", "resultEnd"}
          => pc \in {"toolsRunning", "resultStart", "resultEnd"}
    BY <1>3 DEF ToolImmediate, ToolPrepared, ToolFinish, ToolSettle, ResultStart,
       At, Goto
  <2>. QED
    BY <2>1, <2>2 DEF ResultsInv, ToolResult
<1>4. CASE ToolNext
  <2>1. /\ pc \in InBatch /\ pc' = "toolStart" /\ cursor < reply.calls
        /\ cursor' = cursor + 1 /\ UNCHANGED <<results, reply, turn>>
    BY <1>4 DEF ToolNext, MoreCalls, At, Goto, InBatch, SameLoop
  <2>. QED
    BY <1>1, <2>1 DEF ResultsInv, ToolResult
<1>5. CASE RunPrepared
  <2>1. /\ pc \in InBatch /\ UNCHANGED <<cursor, results, reply, turn, aborted>>
        /\ aborted \/ ~(cursor < reply.calls)
    BY <1>5 DEF RunPrepared, MoreCalls, At, InBatch, SameLoop, SameRest
  <2>. QED
    BY <1>1, <2>1 DEF ResultsInv, ToolResult
<1>6. CASE ResultEnd
  <2>1. /\ pc = "resultStart" /\ pc \in InBatch
        /\ results' = Append(results, ToolResult(Len(results) + 1))
        /\ UNCHANGED <<cursor, reply, turn, mode, aborted>>
    BY <1>6 DEF ResultEnd, NextResult, At, InBatch, SameLoop, SameRest
  <2>2. \A k \in 1..Len(results') : results'[k] = ToolResult(k)
    <3>1. /\ Len(results') = Len(results) + 1
          /\ results'[Len(results) + 1] = ToolResult(Len(results) + 1)
          /\ \A k \in 1..Len(results) : results'[k] = results[k]
      BY <1>1, <2>1
    <3>2. \A k \in 1..Len(results') : k \in 1..Len(results) \/ k = Len(results) + 1
      BY <1>1, <3>1
    <3>. QED
      BY <2>1, <3>1, <3>2 DEF ResultsInv
  <2>. QED
    BY <2>1, <2>2 DEF ResultsInv, ToolResult
<1>7. CASE \/ StrayFinish \/ Steer \/ FollowUp \/ Abort \/ ClearSteeringQueue
           \/ ClearFollowUpQueue \/ Reset \/ TrimLast \/ UNCHANGED vars
  <2>1. /\ UNCHANGED <<pc, cursor, reply, results, mode, turn>>
        /\ aborted => aborted'
    BY <1>7 DEF StrayFinish, Steer, FollowUp, Abort, ClearSteeringQueue,
       ClearFollowUpQueue, Reset, TrimLast, turnVars, batchVars, vars
  <2>. QED
    BY <2>1 DEF ResultsInv, ToolResult
<1>8. CASE \/ TurnStart \/ Announce \/ AnnounceEnd \/ AnnounceNext \/ FirstPoll
           \/ AnnounceFirstPolled \/ Request \/ ResponseStart \/ ResponseEnd
           \/ ResponseWhole \/ ResponseWholeEnd \/ FailedTurn
           \/ PlainTurn \/ BatchTurn \/ PollSteering \/ PollFollowUps \/ NextTurn
           \/ AgentEnd \/ FailureEnd \/ FailureTurnEnd \/ FailureAgentEnd
           \/ Finish \/ RequestFails \/ ListenerThrows
           \/ FailureListenerThrows \/ (\E k \in Calls : ToolListenerThrows(k))
           \/ Prompt \/ ContinueFromQueues \/ ContinueTranscript
  <2>1. pc' \notin InBatch
    BY <1>8 DEF TurnStart, Announce, AnnounceEnd, AnnounceNext, FirstPoll,
       AnnounceFirstPolled, Request, ResponseStart, ResponseEnd, ResponseWhole,
       ResponseWholeEnd, FailedTurn, PlainTurn,
       BatchTurn, PollSteering, PollFollowUps, NextTurn, AgentEnd, FailureEnd,
       FailureTurnEnd, FailureAgentEnd, Finish, RequestFails, ListenerThrows,
       FailureListenerThrows, ToolListenerThrows, Prompt, ContinueFromQueues,
       ContinueTranscript, StartRun, FinishRun, Fail, Goto, InBatch
  <2>. QED
    BY <2>1 DEF ResultsInv
<1>. QED
  BY <1>2, <1>3, <1>4, <1>5, <1>6, <1>7, <1>8 DEF Next, Progress, Environment,
     Continue

\* The end of a sequence from the last of its first part.
LEMMA EndOf ==
  ASSUME NEW S, NEW s \in Seq(S), s # <<>>, NEW r \in Seq(S)
  PROVE  /\ Len(s \o r) > Len(r)
         /\ SubSeq(s \o r, Len(s \o r) - Len(r), Len(s \o r))
              = <<s[Len(s)]>> \o r
<1> DEFINE t == s \o r
           m == Len(t) - Len(r)
           u == SubSeq(t, m, Len(t))
           v == <<s[Len(s)]>> \o r
<1>1. /\ Len(s) \in Nat \ {0} /\ Len(r) \in Nat /\ t \in Seq(S)
      /\ Len(t) = Len(s) + Len(r) /\ s[Len(s)] \in S
      /\ \A i \in 1..Len(s) : t[i] = s[i]
      /\ \A i \in 1..Len(r) : t[Len(s) + i] = r[i]
  OBVIOUS
<1>2. /\ v \in Seq(S) /\ Len(v) = Len(r) + 1 /\ v[1] = s[Len(s)]
      /\ \A i \in 1..Len(r) : v[i + 1] = r[i]
  <2>1. <<s[Len(s)]>> \in Seq(S) /\ Len(<<s[Len(s)]>>) = 1
    BY <1>1
  <2>. QED
    BY <1>1, <2>1
<1> HIDE DEF t, v
<1>3. m = Len(s) /\ m <= Len(t) /\ Len(t) - m + 1 = Len(r) + 1
  BY <1>1
<1>4. \A i \in m..Len(t) : t[i] \in S
  BY <1>1, <1>3
<1>5. /\ u \in Seq(S) /\ Len(u) = Len(r) + 1
      /\ \A i \in 1..(Len(r) + 1) : u[i] = t[m + i - 1]
  <2> HIDE DEF m
  <2>1. m \in Int /\ Len(t) \in Int
    BY <1>1, <1>3
  <2>. QED
    BY <1>3, <1>4, <2>1, SubSeqProperties
<1>6. \A i \in 1..(Len(r) + 1) : u[i] = v[i]
  <2>1. ASSUME NEW i \in 1..(Len(r) + 1)
        PROVE  u[i] = v[i]
    <3>1. u[i] = t[Len(s) + i - 1]
      BY <1>3, <1>5
    <3> HIDE DEF u, m
    <3>2. CASE i = 1
      BY <1>1, <1>2, <3>1, <3>2
    <3>3. CASE i # 1
      <4>1. i - 1 \in 1..Len(r) /\ Len(s) + i - 1 = Len(s) + (i - 1) /\ i = (i - 1) + 1
        BY <1>1, <3>3
      <4>. QED
        BY <1>1, <1>2, <3>1, <4>1
    <3>. QED
      BY <3>2, <3>3
  <2>. QED
    BY <2>1
<1> HIDE DEF u
<1>7. u = v
  BY <1>1, <1>2, <1>5, <1>6, SeqEqual
<1>. QED
  BY <1>1, <1>7 DEF u, v, m, t

LEMMA CompleteStep ==
  ASSUME IInv, AnswerInv, [Next]_vars
  PROVE  ToolResultsComplete'
<1>1. CASE BatchTurn
  <2>1. /\ pc = "resultEnd" /\ pc \in InBatch /\ Len(results) = cursor
        /\ mode = "parallel" \/ aborted \/ ~(cursor < reply.calls)
        /\ UNCHANGED <<transcript, reply, turn, touched, aborted>>
    BY <1>1 DEF BatchTurn, At, InBatch, MoreCalls, OnTurnEnd, SameRest, envVars
  <2>2. /\ results \in Seq(Messages) /\ context \in Seq(Messages)
        /\ reply.calls \in Nat
    BY SubTypes, Bounds DEF IInv, TypeOK, MessageTypes, Assistants
  <2>3. /\ context # <<>> /\ context[Len(context)] = reply
        /\ cursor \in 1..reply.calls
        /\ \A k \in 1..Len(results) : results[k] = ToolResult(k)
        /\ cursor = reply.calls \/ aborted
    BY <2>1, <2>2 DEF AnswerInv, EndsWithReply, ResultsInv
  <2>4. SUFFICES ASSUME ~touched
                 PROVE  /\ Len(transcript) > cursor
                        /\ SubSeq(transcript, Len(transcript) - cursor, Len(transcript))
                             = <<reply>> \o [k \in 1..cursor |-> ToolResult(k)]
    BY <2>1, <2>3 DEF ToolResultsComplete, ToolResult
  <2>5. transcript = context \o results
    BY <2>1, <2>4 DEF IInv, ContextInv
  <2>6. results = [k \in 1..cursor |-> ToolResult(k)]
    BY <2>1, <2>2, <2>3
  <2>. QED
    BY <2>1, <2>2, <2>3, <2>5, <2>6, EndOf
<1>2. CASE PlainTurn
  BY <1>2 DEF PlainTurn, ToolResultsComplete
<1>3. CASE StrayFinish \/ Steer \/ FollowUp \/ ClearSteeringQueue
           \/ ClearFollowUpQueue \/ UNCHANGED vars
  <2>1. UNCHANGED <<pc, transcript, reply, turn, touched, aborted>>
    BY <1>3 DEF StrayFinish, OnToolEnd, Steer, FollowUp, ClearSteeringQueue,
       ClearFollowUpQueue, turnVars, stateVars, envVars, vars
  <2>. QED
    BY <2>1 DEF AnswerInv, ToolResultsComplete, ToolResult, At
<1>4. CASE Abort
  <2>1. UNCHANGED <<pc, transcript, reply, turn, touched>> /\ aborted'
    BY <1>4 DEF Abort, turnVars, stateVars, envVars
  <2>. QED
    BY <2>1 DEF AnswerInv, ToolResultsComplete, ToolResult, At
<1>5. CASE Reset
  BY <1>5 DEF Reset, Active, ToolResultsComplete, At
<1>6. CASE TrimLast \/ (\E k \in Calls : ToolFinish(k))
           \/ (\E k \in Calls : ToolSettle(k))
  BY <1>6 DEF TrimLast, ToolFinish, ToolSettle, Active, At, ToolResultsComplete
<1>7. CASE \/ TurnStart \/ Announce \/ AnnounceEnd \/ AnnounceNext \/ FirstPoll
           \/ AnnounceFirstPolled \/ Request \/ ResponseStart \/ ResponseEnd
           \/ ResponseWhole \/ ResponseWholeEnd \/ FailedTurn \/ ToolBatch
           \/ ToolImmediate \/ ToolPrepared \/ ToolNext \/ RunPrepared
           \/ ResultStart \/ ResultEnd
           \/ PollSteering \/ PollFollowUps \/ NextTurn
           \/ AgentEnd \/ FailureEnd \/ FailureTurnEnd \/ FailureAgentEnd
           \/ Finish \/ RequestFails \/ ListenerThrows
           \/ FailureListenerThrows \/ (\E k \in Calls : ToolListenerThrows(k))
           \/ Prompt \/ ContinueFromQueues \/ ContinueTranscript
  <2>1. pc' # "turnEnd"
    BY <1>7 DEF TurnStart, Announce, AnnounceEnd, AnnounceNext, FirstPoll,
       AnnounceFirstPolled, Request, ResponseStart, ResponseEnd, ResponseWhole,
       ResponseWholeEnd, FailedTurn, ToolBatch, ToolImmediate, ToolPrepared,
       ToolNext, RunPrepared, ResultStart, ResultEnd,
       PollSteering, PollFollowUps, NextTurn, AgentEnd, FailureEnd,
       FailureTurnEnd, FailureAgentEnd, Finish, RequestFails, ListenerThrows,
       FailureListenerThrows, ToolListenerThrows, Prompt, ContinueFromQueues,
       ContinueTranscript, StartRun, FinishRun, Fail, Goto
  <2>. QED
    BY <2>1 DEF ToolResultsComplete, At
<1>. QED
  BY <1>1, <1>2, <1>3, <1>4, <1>5, <1>6, <1>7 DEF Next, Progress, Environment,
     Continue

\* However the tools of a batch finish, its turn closes with the response and
\* the results of its calls in their order; only an abort leaves the last ones
\* out (agent-loop.ts executeToolCallsSequential, executeToolCallsParallel).
THEOREM CallsAreAnswered == Spec => []ToolResultsComplete
<1>1. Init => AnswerInv
  BY DEF Init, AnswerInv, EndsWithReply, ResultsInv, ToolResultsComplete, At,
     InBatch
<1>2. IInv /\ AnswerInv /\ [Next]_vars => AnswerInv'
  BY EndStep, ResultsStep, CompleteStep DEF AnswerInv
<1>3. AnswerInv => ToolResultsComplete
  BY DEF AnswerInv
<1>. QED
  BY <1>1, <1>2, <1>3, Invariance, PTL DEF Spec

-----------------------------------------------------------------------------
(* The agent implements RunProtocol                                        *)

\* The calls after the last one started wait, and only the responses of the
\* first turns have calls.
StartedInv ==
  /\ pc \in InBatch => \A k \in Calls : k > cursor => call[k] = "todo"
  /\ pc \in {"request", "streaming", "finalStart", "assistantEnd"} \union InBatch
       => turn > 0
  /\ pc \in {"finalStart", "assistantEnd"} \union InBatch /\ reply.calls > 0
       => turn <= MaxToolTurns

LEMMA StartedStep ==
  ASSUME IInv, StartedInv, [Next]_vars
  PROVE  StartedInv'
<1>1. /\ call \in [Calls -> CallStates] /\ cursor \in Nat /\ turn \in Nat
      /\ MaxToolTurns \in Nat /\ MaxCalls \in Nat
  BY Bounds, BoundsAssumption DEF IInv, TypeOK, BatchTypes, CountTypes
<1>2. CASE Request
  <2>1. pc' = "request" /\ turn' = turn + 1
    BY <1>2 DEF Request, Goto
  <2>. QED
    BY <1>1, <2>1 DEF StartedInv, InBatch
<1>3. CASE ResponseStart
  <2>1. pc = "request" /\ pc' = "streaming" /\ turn' = turn
    BY <1>3 DEF ResponseStart, At, Goto
  <2>. QED
    BY <2>1 DEF StartedInv, InBatch
<1>4. CASE ResponseEnd \/ ResponseWhole
  <2>1. /\ pc \in {"request", "streaming"} /\ pc' \in {"finalStart", "assistantEnd"}
        /\ turn' = turn /\ Response(reply')
    BY <1>4 DEF ResponseEnd, ResponseWhole, At, Goto
  <2>2. reply'.calls > 0 => turn <= MaxToolTurns
    <3>1. PICK n \in 0..(IF turn <= MaxToolTurns THEN MaxCalls ELSE 0) :
            reply'.calls = n
      BY <2>1 DEF Response, Assistant
    <3>. QED
      BY <1>1, <3>1
  <2>. QED
    BY <2>1, <2>2 DEF StartedInv, InBatch
<1>5. CASE ResponseWholeEnd
  <2>1. pc = "finalStart" /\ pc' = "assistantEnd" /\ UNCHANGED <<turn, reply>>
    BY <1>5 DEF ResponseWholeEnd, At, Goto, SameLoop
  <2>. QED
    BY <2>1 DEF StartedInv, InBatch
<1>6. CASE ToolBatch
  <2>1. /\ pc = "assistantEnd" /\ UNCHANGED <<turn, reply>> /\ cursor' = 1
        /\ call' = [k \in Calls |-> IF k = 1 THEN "started" ELSE "todo"]
    BY <1>6 DEF ToolBatch, At, SameLoop
  <2>. QED
    BY <2>1 DEF StartedInv
<1>7. CASE \/ ToolImmediate \/ ToolPrepared \/ ToolNext \/ RunPrepared
           \/ (\E k \in Calls : ToolFinish(k)) \/ (\E k \in Calls : ToolSettle(k))
           \/ ResultStart \/ ResultEnd
  <2>1. pc \in InBatch /\ UNCHANGED <<turn, reply>>
    BY <1>7 DEF ToolImmediate, ToolPrepared, ToolNext, RunPrepared, ToolFinish,
       ToolSettle, ResultStart, ResultEnd, At, InBatch, SameLoop
  <2>2. \A k \in Calls : k > cursor' => call'[k] = "todo"
    <3>1. \A k \in Calls : k > cursor => call[k] = "todo"
      BY <2>1 DEF StartedInv
    <3>2. CASE ToolImmediate \/ ToolPrepared
      <4>1. /\ cursor' = cursor
            /\ \E s \in CallStates : call' = [call EXCEPT ![cursor] = s]
        BY <3>2 DEF ToolImmediate, ToolPrepared, CallStates
      <4>. QED
        BY <1>1, <3>1, <4>1
    <3>2a. CASE ToolNext
      <4>1. /\ cursor' = cursor + 1
            /\ \/ call' = [call EXCEPT ![cursor + 1] = "started"]
               \/ call' = [call EXCEPT ![cursor] = "done",
                                       ![cursor + 1] = "started"]
        BY <3>2a DEF ToolNext
      <4>. QED
        BY <1>1, <3>1, <4>1 DEF Calls
    <3>2b. CASE ResultStart \/ ResultEnd
      <4>1. /\ cursor' = cursor
            /\ call' = call \/ call' = [call EXCEPT ![cursor] = "done"]
        BY <3>2b DEF ResultStart, ResultEnd
      <4>. QED
        BY <1>1, <3>1, <4>1
    <3>3. CASE RunPrepared
      BY <3>1, <3>3 DEF RunPrepared
    <3>4. CASE \/ (\E k \in Calls : ToolFinish(k))
               \/ (\E k \in Calls : ToolSettle(k))
      BY <1>1, <3>1, <3>4 DEF ToolFinish, ToolSettle
    <3>. QED
      BY <1>7, <3>2, <3>2a, <3>2b, <3>3, <3>4
  <2>. QED
    BY <2>1, <2>2 DEF StartedInv
<1>8. CASE \/ StrayFinish \/ Steer \/ FollowUp \/ Abort \/ ClearSteeringQueue
           \/ ClearFollowUpQueue \/ Reset \/ TrimLast \/ UNCHANGED vars
  <2>1. UNCHANGED <<pc, call, cursor, turn, reply>>
    BY <1>8 DEF StrayFinish, Steer, FollowUp, Abort, ClearSteeringQueue,
       ClearFollowUpQueue, Reset, TrimLast, turnVars, batchVars, vars
  <2>. QED
    BY <2>1 DEF StartedInv
<1>9. CASE \/ TurnStart \/ Announce \/ AnnounceEnd \/ AnnounceNext \/ FirstPoll
           \/ AnnounceFirstPolled \/ FailedTurn \/ PlainTurn \/ BatchTurn
           \/ PollSteering \/ PollFollowUps \/ NextTurn
           \/ AgentEnd \/ FailureEnd \/ FailureTurnEnd \/ FailureAgentEnd
           \/ Finish \/ RequestFails \/ ListenerThrows
           \/ FailureListenerThrows \/ (\E k \in Calls : ToolListenerThrows(k))
           \/ Prompt \/ ContinueFromQueues \/ ContinueTranscript
  <2>1. pc' \notin {"request", "streaming", "finalStart", "assistantEnd"}
                     \union InBatch
    BY <1>9 DEF TurnStart, Announce, AnnounceEnd, AnnounceNext, FirstPoll,
       AnnounceFirstPolled, FailedTurn, PlainTurn, BatchTurn,
       PollSteering, PollFollowUps, NextTurn, AgentEnd, FailureEnd,
       FailureTurnEnd, FailureAgentEnd, Finish, RequestFails, ListenerThrows,
       FailureListenerThrows, ToolListenerThrows, Prompt, ContinueFromQueues,
       ContinueTranscript, StartRun, FinishRun, Fail, Goto, InBatch
  <2>. QED
    BY <2>1 DEF StartedInv
<1>. QED
  BY <1>2, <1>3, <1>4, <1>5, <1>6, <1>7, <1>8, <1>9 DEF Next, Progress,
     Environment, Continue

\* Outside a batch no tool is open; where a message is announced, neither.
LEMMA NoToolsOpen ==
  ASSUME IInv
  PROVE  /\ pc \notin InBatch => OpenTools = {}
         /\ pc \in {"resultStart", "resultEnd"} => OpenTools = {}
         /\ pc = "toolsRunning" /\ BatchSettled => OpenTools = {}
         /\ pc = "toolEnd" /\ mode = "sequential" => OpenTools = {}
<1>1. OpenCalls = {} => OpenTools = {}
  BY DEF OpenTools
<1>2. pc \in {"resultStart", "resultEnd"} => OpenCalls = {}
  BY DEF IInv, BatchInv, OpenCalls, InState
<1>3. pc = "toolsRunning" /\ BatchSettled => OpenCalls = {}
  BY DEF IInv, BatchInv, OpenCalls, InState, BatchSettled
<1>4. pc = "toolEnd" /\ mode = "sequential" => OpenCalls = {}
  BY DEF IInv, BatchInv, OthersQuiet, OpenCalls, InState, InBatch
<1>. QED
  BY <1>1, <1>2, <1>3, <1>4 DEF OpenTools

LEMMA NoToolsOpenNext ==
  ASSUME IInv'
  PROVE  /\ pc' \notin InBatch => OpenTools' = {}
         /\ pc' \in {"resultStart", "resultEnd"} => OpenTools' = {}
  BY NoToolsOpen DEF OpenTools, IInv, BatchInv, OpenCalls, InState

\* A step between places outside a batch shows in the phase and the message.
LEMMA OutsideBatch ==
  ASSUME IInv, IInv', [Next]_vars,
         pc \notin InBatch, pc' \notin InBatch
  PROVE  OpenTools = {} /\ OpenTools' = {}
  BY NoToolsOpen, NoToolsOpenNext

\* Once a listener threw, the run only reports its failure.
BrokenInv == threw => pc \in Failing \union {"idle"}

RunSteps ==
  \/ TurnStart \/ Announce \/ AnnounceEnd \/ AnnounceNext
  \/ FirstPoll \/ AnnounceFirstPolled \/ Request
  \/ ResponseStart \/ ResponseEnd \/ ResponseWhole \/ ResponseWholeEnd
  \/ FailedTurn \/ PlainTurn \/ PollSteering \/ PollFollowUps \/ NextTurn
  \/ AgentEnd \/ RequestFails

BatchSteps ==
  \/ ToolBatch \/ ToolImmediate \/ ToolPrepared \/ ToolNext \/ RunPrepared
  \/ (\E k \in Calls : ToolFinish(k)) \/ (\E k \in Calls : ToolSettle(k))
  \/ ResultStart \/ ResultEnd \/ BatchTurn

ReportSteps == FailureEnd \/ FailureTurnEnd \/ FailureAgentEnd \/ Finish

Throws ==
  \/ ListenerThrows \/ FailureListenerThrows
  \/ \E k \in Calls : ToolListenerThrows(k)

CallsFromOutside ==
  \/ Steer \/ FollowUp \/ Abort \/ ClearSteeringQueue
  \/ ClearFollowUpQueue \/ Reset \/ TrimLast

\* No listener throws in these steps, and no stray tool ends.
LEMMA Unbroken ==
  ASSUME RunSteps \/ BatchSteps \/ ReportSteps
  PROVE  threw' = threw /\ stray' = stray
<1>1. CASE RunSteps
  BY <1>1 DEF RunSteps, TurnStart, Announce, AnnounceEnd, AnnounceNext,
     FirstPoll, AnnounceFirstPolled, Request, ResponseStart, ResponseEnd,
     ResponseWhole, ResponseWholeEnd, FailedTurn, PlainTurn, PollSteering,
     PollFollowUps, NextTurn, AgentEnd, RequestFails, SameRest, envVars
<1>2. CASE BatchSteps
  BY <1>2 DEF BatchSteps, ToolBatch, ToolImmediate, ToolPrepared, ToolNext,
     RunPrepared, ToolFinish, ToolSettle, ResultStart, ResultEnd, BatchTurn,
     SameRest, envVars
<1>3. CASE ReportSteps
  BY <1>3 DEF ReportSteps, FailureEnd, FailureTurnEnd, FailureAgentEnd, Finish,
     SameRest, envVars
<1>. QED
  BY <1>1, <1>2, <1>3

LEMMA BeforeFailure ==
  ASSUME BrokenInv, RunSteps \/ BatchSteps
  PROVE  ~threw /\ ~threw'
<1>1. pc \notin Failing \union {"idle"}
  <2>1. CASE RunSteps
    BY <2>1 DEF RunSteps, TurnStart, Announce, AnnounceEnd, AnnounceNext,
       FirstPoll, AnnounceFirstPolled, Request, ResponseStart, ResponseEnd,
       ResponseWhole, ResponseWholeEnd, FailedTurn, PlainTurn, PollSteering,
       PollFollowUps, NextTurn, AgentEnd, RequestFails, At, Failing
  <2>2. CASE BatchSteps
    BY <2>2 DEF BatchSteps, ToolBatch, ToolImmediate, ToolPrepared, ToolNext,
       RunPrepared, ToolFinish, ToolSettle, ResultStart, ResultEnd, BatchTurn,
       At, Failing
  <2>. QED
    BY <2>1, <2>2
<1>. QED
  BY <1>1, Unbroken DEF BrokenInv

LEMMA BrokenStep ==
  ASSUME BrokenInv, [Next]_vars
  PROVE  BrokenInv'
<1>1. CASE RunSteps \/ BatchSteps
  BY <1>1, BeforeFailure DEF BrokenInv
<1>2. CASE ReportSteps \/ Throws
  <2>1. pc' \in Failing \union {"idle"}
    BY <1>2 DEF ReportSteps, Throws, FailureEnd, FailureTurnEnd,
       FailureAgentEnd, Finish, ListenerThrows, FailureListenerThrows,
       ToolListenerThrows, Fail, FinishRun, Goto, Failing
  <2>. QED
    BY <2>1 DEF BrokenInv
<1>3. CASE Prompt \/ Continue
  BY <1>3 DEF BrokenInv, Prompt, Continue, ContinueFromQueues,
     ContinueTranscript, StartRun
<1>4. CASE StrayFinish \/ CallsFromOutside \/ UNCHANGED vars
  <2>1. UNCHANGED <<pc, threw>>
    BY <1>4 DEF CallsFromOutside, StrayFinish, Steer, FollowUp, Abort,
       ClearSteeringQueue, ClearFollowUpQueue, Reset, TrimLast, envVars, vars
  <2>. QED
    BY <2>1 DEF BrokenInv
<1>. QED
  BY <1>1, <1>2, <1>3, <1>4 DEF Next, Progress, Environment, RunSteps,
     BatchSteps, ReportSteps, Throws, CallsFromOutside

\* The steps that announce the run, its turns and its messages, or nothing.
LEMMA RunMove ==
  ASSUME IInv, IInv', BrokenInv, [Next]_vars,
         RunSteps \/ ReportSteps \/ Prompt \/ Continue
  PROVE  [Protocol!Next]_(Protocol!vars)
<1>1. pc \notin InBatch /\ pc' \notin InBatch => OpenTools = {} /\ OpenTools' = {}
  BY OutsideBatch
<1>a. stray' = stray
  BY Unbroken DEF Prompt, Continue, ContinueFromQueues, ContinueTranscript,
     StartRun
<1>b. RunSteps \/ ReportSteps => threw' = threw
  BY Unbroken
<1>c. RunSteps => ~threw
  BY BeforeFailure
<1>2. CASE TurnStart \/ NextTurn
  <2>1. pc \in {"agentStart", "polled", "polledFollowUp"} /\ pc' = "turnStart"
    BY <1>2 DEF TurnStart, NextTurn, At, Goto
  <2>. QED
    BY <1>1, <1>a, <1>b, <1>c, <1>2, <2>1 DEF RunSteps, InBatch, RunPhase, MessageOpen, At, Protocol!Next,
       Protocol!TurnStart, Protocol!Move
<1>3. CASE \/ Announce \/ AnnounceNext \/ AnnounceFirstPolled \/ ResponseStart
           \/ ResponseWhole \/ RequestFails
  <2>1. /\ pc \in {"turnStart", "messageEnd", "initialPoll", "request"}
        /\ pc' \in {"messageStart", "streaming", "finalStart", "failStart"}
    BY <1>3 DEF Announce, AnnounceNext, AnnounceFirstPolled, ResponseStart,
       ResponseWhole, RequestFails, Fail, At, Goto
  <2>. QED
    BY <1>1, <1>a, <1>b, <1>c, <1>3, <2>1 DEF RunSteps, InBatch, RunPhase, MessageOpen, At, Protocol!Next,
       Protocol!MessageStart
<1>4. CASE \/ AnnounceEnd \/ ResponseEnd \/ ResponseWholeEnd \/ FailureEnd
  <2>1. /\ pc \in {"messageStart", "streaming", "finalStart", "failStart"}
        /\ pc' \in {"messageEnd", "assistantEnd", "failEnd"}
    BY <1>4 DEF AnnounceEnd, ResponseEnd, ResponseWholeEnd, FailureEnd, At, Goto
  <2>. QED
    BY <1>1, <1>a, <1>b, <1>c, <1>4, <2>1 DEF RunSteps, ReportSteps, InBatch, RunPhase, MessageOpen, At, Protocol!Next,
       Protocol!MessageEnd
<1>5. CASE FailedTurn \/ PlainTurn \/ FailureTurnEnd
  <2>1. /\ pc \in {"assistantEnd", "failEnd"}
        /\ pc' \in {"turnEnd", "turnEndFinal", "failTurnEnd"}
    BY <1>5 DEF FailedTurn, PlainTurn, FailureTurnEnd, At, Goto
  <2>. QED
    BY <1>1, <1>a, <1>b, <1>c, <1>5, <2>1 DEF RunSteps, ReportSteps, InBatch, RunPhase, MessageOpen, At, Protocol!Next,
       Protocol!TurnEnd, Protocol!Move
<1>6. CASE AgentEnd \/ FailureAgentEnd
  <2>1. /\ pc \in {"polledFollowUp", "turnEndFinal", "failTurnEnd"}
        /\ pc' \in {"agentEnd", "failAgentEnd"}
    BY <1>6 DEF AgentEnd, FailureAgentEnd, At, Goto
  <2>. QED
    BY <1>1, <1>a, <1>b, <1>c, <1>6, <2>1 DEF RunSteps, ReportSteps, InBatch, RunPhase, MessageOpen, At, Protocol!Next,
       Protocol!AgentEnd, Protocol!Move
<1>7. CASE Finish
  <2>1. pc \in {"agentEnd", "failAgentEnd"} /\ pc' = "idle"
    BY <1>7 DEF Finish, FinishRun, Goto
  <2>. QED
    BY <1>1, <1>a, <1>b, <1>c, <1>7, <2>1 DEF ReportSteps, InBatch, RunPhase, MessageOpen, At, Protocol!Next,
       Protocol!Settle, Protocol!Move
<1>8. CASE Prompt \/ Continue
  <2>1. pc = "idle" /\ pc' = "agentStart"
    BY <1>8 DEF Prompt, Continue, ContinueFromQueues, ContinueTranscript,
       StartRun, Active
  <2>2. threw' = FALSE
    BY <1>8 DEF Prompt, Continue, ContinueFromQueues, ContinueTranscript,
       StartRun
  <2>. QED
    BY <1>1, <1>a, <2>1, <2>2 DEF InBatch, RunPhase, MessageOpen, At, Protocol!Next,
       Protocol!AgentStart, Protocol!Move
<1>9. CASE FirstPoll \/ Request \/ PollSteering \/ PollFollowUps
  <2>1. \/ /\ pc \in {"turnStart", "messageEnd", "initialPoll"}
           /\ pc' \in {"initialPoll", "request"}
        \/ pc \in {"turnEnd", "polled"} /\ pc' \in {"polled", "polledFollowUp"}
    BY <1>9 DEF FirstPoll, Request, PollSteering, PollFollowUps, At, Goto
  <2>. QED
    BY <1>1, <1>a, <1>b, <1>c, <1>9, <2>1 DEF RunSteps, InBatch, RunPhase, MessageOpen, At, Protocol!vars
<1>. QED
  BY <1>2, <1>3, <1>4, <1>5, <1>6, <1>7, <1>8, <1>9 DEF RunSteps,
     ReportSteps

\* The steps of a batch: a call that starts is open, one that ended is not.
LEMMA BatchMove ==
  ASSUME IInv, IInv', StartedInv, BrokenInv, [Next]_vars, BatchSteps
  PROVE  [Protocol!Next]_(Protocol!vars)
<1>1. /\ call \in [Calls -> CallStates] /\ cursor \in Nat /\ turn \in Nat
      /\ reply.calls \in 0..MaxCalls /\ MaxToolTurns \in Nat /\ MaxCalls \in Nat
  <2>1. reply \in Assistants
    BY DEF IInv, TypeOK, MessageTypes
  <2>. QED
    BY <2>1, Bounds, BoundsAssumption DEF IInv, TypeOK, BatchTypes, CountTypes,
       Assistants
<1>2. pc \in InBatch => turn \in 1..MaxToolTurns /\ reply.calls > 0
  BY <1>1 DEF StartedInv, IInv, BatchInv
<1>0. ~threw /\ threw' = threw /\ stray' = stray
  BY Unbroken, BeforeFailure
<1>3. CASE ToolBatch
  <2>1. /\ pc = "assistantEnd" /\ pc' = "toolStart" /\ turn' = turn
        /\ reply.calls > 0
        /\ call' = [k \in Calls |-> IF k = 1 THEN "started" ELSE "todo"]
    BY <1>3 DEF ToolBatch, At, Goto, SameLoop
  <2>2. turn \in 1..MaxToolTurns /\ 1 \in Calls
    BY <1>1, <2>1 DEF StartedInv, Calls
  <2>3. OpenTools = {}
    BY <2>1 DEF OpenTools, InBatch
  <2>4. OpenCalls' = {1}
    BY <2>1, <2>2 DEF OpenCalls, InState
  <2>5. OpenTools' = {<<turn, 1>>}
    BY <2>1, <2>4 DEF OpenTools, InBatch
  <2>6. <<turn, 1>> \in ToolIds
    BY <2>2 DEF ToolIds
  <2>. QED
    BY <1>0, <2>1, <2>3, <2>5, <2>6 DEF RunPhase, MessageOpen, At, Protocol!Next,
       Protocol!ToolStart
<1>4. CASE ToolNext
  <2>1. /\ pc \in {"prepared", "toolEnd", "resultEnd"} /\ pc' = "toolStart"
        /\ turn' = turn /\ cursor < reply.calls
        /\ \/ call' = [call EXCEPT ![cursor + 1] = "started"]
           \/ /\ pc = "toolEnd"
              /\ call' = [call EXCEPT ![cursor] = "done",
                                      ![cursor + 1] = "started"]
    BY <1>4 DEF ToolNext, MoreCalls, At, Goto, SameLoop
  <2>2. turn \in 1..MaxToolTurns /\ cursor + 1 \in Calls
    BY <1>1, <1>2, <2>1 DEF InBatch, Calls
  <2>3. call[cursor + 1] = "todo"
    BY <1>1, <2>1, <2>2 DEF StartedInv, InBatch
  <2>4. pc = "toolEnd" => call[cursor] = "ending"
    BY DEF IInv, BatchInv
  <2>5. OpenCalls' = OpenCalls \union {cursor + 1} /\ cursor + 1 \notin OpenCalls
    BY <1>1, <2>1, <2>2, <2>3, <2>4 DEF OpenCalls, InState
  <2>6. OpenTools = {turn} \X OpenCalls /\ OpenTools' = {turn} \X OpenCalls'
    BY <2>1 DEF OpenTools, InBatch
  <2>7. /\ OpenTools' = OpenTools \union {<<turn, cursor + 1>>}
        /\ <<turn, cursor + 1>> \notin OpenTools
    BY <2>5, <2>6
  <2>8. <<turn, cursor + 1>> \in ToolIds
    BY <2>2 DEF ToolIds
  <2>. QED
    BY <1>0, <2>1, <2>7, <2>8 DEF RunPhase, MessageOpen, At, Protocol!Next,
       Protocol!ToolStart
<1>5. CASE ToolImmediate \/ (\E k \in Calls : ToolFinish(k))
  <2>1. PICK k \in Calls :
          /\ pc \in {"toolStart", "toolsRunning"}
          /\ pc' \in {"toolEnd", "toolsRunning"} /\ turn' = turn
          /\ call[k] \in {"started", "running"}
          /\ call' = [call EXCEPT ![k] = "ending"]
    <3>1. CASE ToolImmediate
      <4>1. cursor \in Calls
        BY <3>1, <1>1 DEF ToolImmediate, At, IInv, TypeOK, BatchTypes, BatchInv,
           InBatch, Calls
      <4>2. /\ pc = "toolStart" /\ pc' = "toolEnd" /\ turn' = turn
            /\ call' = [call EXCEPT ![cursor] = "ending"]
        BY <3>1 DEF ToolImmediate, At, Goto, SameLoop
      <4>3. call[cursor] = "started"
        BY <4>2 DEF IInv, BatchInv
      <4>. QED
        BY <4>1, <4>2, <4>3
    <3>2. CASE \E k \in Calls : ToolFinish(k)
      BY <3>2 DEF ToolFinish, At, SameLoop
    <3>. QED
      BY <1>5, <3>1, <3>2
  <2>2. OpenCalls' = OpenCalls \ {k} /\ k \in OpenCalls
    BY <1>1, <2>1 DEF OpenCalls, InState
  <2>3. OpenTools = {turn} \X OpenCalls /\ OpenTools' = {turn} \X OpenCalls'
    BY <2>1 DEF OpenTools, InBatch
  <2>4. OpenTools' = OpenTools \ {<<turn, k>>} /\ <<turn, k>> \in OpenTools
    BY <2>2, <2>3
  <2>. QED
    BY <1>0, <2>1, <2>4 DEF RunPhase, MessageOpen, At, Protocol!Next, Protocol!ToolEnd
<1>6. CASE ToolPrepared \/ RunPrepared \/ (\E k \in Calls : ToolSettle(k))
  <2>1. /\ pc \in InBatch /\ pc' \in InBatch /\ turn' = turn
        /\ pc \in {"toolStart", "prepared", "toolEnd", "toolsRunning"}
        /\ pc' \in {"prepared", "toolsRunning"}
    BY <1>6 DEF ToolPrepared, RunPrepared, ToolSettle, At, Goto, SameLoop,
       InBatch
  <2>2. \A k \in Calls : /\ call'[k] \in {"started", "ready", "running"}
                              <=> call[k] \in {"started", "ready", "running"}
    <3>1. CASE ToolPrepared
      <4>1. call[cursor] = "started"
        BY <3>1 DEF ToolPrepared, At, IInv, BatchInv
      <4>. QED
        BY <1>1, <3>1, <4>1 DEF ToolPrepared
    <3>2. CASE RunPrepared
      BY <3>2 DEF RunPrepared
    <3>3. CASE \E k \in Calls : ToolSettle(k)
      BY <1>1, <3>3 DEF ToolSettle
    <3>. QED
      BY <1>6, <3>1, <3>2, <3>3
  <2>3. OpenCalls' = OpenCalls
    BY <2>2 DEF OpenCalls, InState
  <2>4. OpenTools' = OpenTools
    BY <2>1, <2>3 DEF OpenTools
  <2>. QED
    BY <1>0, <2>1, <2>4 DEF RunPhase, MessageOpen, At, Protocol!vars
<1>7. CASE ResultStart
  <2>1. /\ pc \in {"toolsRunning", "toolEnd", "resultEnd"}
        /\ pc' = "resultStart"
        /\ pc = "toolsRunning" => BatchSettled
        /\ pc = "toolEnd" => mode = "sequential"
    BY <1>7 DEF ResultStart, At, Goto
  <2>2. OpenTools = {} /\ OpenTools' = {}
    BY <2>1, NoToolsOpen, NoToolsOpenNext
  <2>. QED
    BY <1>0, <2>1, <2>2 DEF RunPhase, MessageOpen, At, Protocol!Next,
       Protocol!MessageStart
<1>8. CASE ResultEnd
  <2>1. pc = "resultStart" /\ pc' = "resultEnd"
    BY <1>8 DEF ResultEnd, At, Goto
  <2>2. OpenTools = {} /\ OpenTools' = {}
    BY <2>1, NoToolsOpen, NoToolsOpenNext
  <2>. QED
    BY <1>0, <2>1, <2>2 DEF RunPhase, MessageOpen, At, Protocol!Next,
       Protocol!MessageEnd
<1>9. CASE BatchTurn
  <2>1. pc = "resultEnd" /\ pc' = "turnEnd"
    BY <1>9 DEF BatchTurn, At, Goto
  <2>2. OpenTools = {} /\ OpenTools' = {}
    BY <2>1, NoToolsOpen, NoToolsOpenNext DEF InBatch
  <2>. QED
    BY <1>0, <2>1, <2>2 DEF RunPhase, MessageOpen, At, Protocol!Next,
       Protocol!TurnEnd, Protocol!Move
<1>. QED
  BY <1>3, <1>4, <1>5, <1>6, <1>7, <1>8, <1>9 DEF BatchSteps

\* Every step of an agent is a step of the protocol or leaves it where it is.
LEMMA ProtocolStep ==
  ASSUME IInv, IInv', StartedInv, BrokenInv, [Next]_vars
  PROVE  [Protocol!Next]_(Protocol!vars)
<1>1. CASE Throws
  <2>1. /\ pc # "idle" /\ threw' = TRUE
        /\ \/ ~threw /\ pc' = "failStart"
           \/ pc' = "idle"
    <3>1. CASE ListenerThrows \/ \E k \in Calls : ToolListenerThrows(k)
      <4>1. pc \notin Failing \union {"idle"}
        BY <3>1 DEF ListenerThrows, ToolListenerThrows, Listening, Failing, At
      <4>. QED
        BY <3>1, <4>1 DEF BrokenInv, ListenerThrows, ToolListenerThrows, Throw,
           Fail, Goto
    <3>2. CASE FailureListenerThrows
      BY <3>2 DEF FailureListenerThrows, Throw, FinishRun, Failing, Goto
    <3>. QED
      BY <1>1, <3>1, <3>2 DEF Throws
  <2>2. OpenTools' = {}
    BY <2>1, NoToolsOpenNext DEF InBatch
  <2>3. \E left \in SUBSET OpenTools : stray' = stray \union left
    <3>1. CASE ListenerThrows \/ FailureListenerThrows
      <4>1. stray' = stray \union {}
        BY <3>1 DEF ListenerThrows, FailureListenerThrows
      <4>. QED
        BY <4>1
    <3>2. CASE \E k \in Calls : ToolListenerThrows(k)
      <4>1. PICK k \in Calls : ToolListenerThrows(k)
        BY <3>2
      <4>2. /\ pc = "toolsRunning"
            /\ stray' = stray \union
                 {<<turn, j>> : j \in InState({"running"}) \ {k}}
        BY <4>1 DEF ToolListenerThrows, At
      <4>3. {<<turn, j>> : j \in InState({"running"}) \ {k}} \subseteq OpenTools
        BY <4>2 DEF OpenTools, OpenCalls, InBatch, InState
      <4>. QED
        BY <4>2, <4>3
    <3>. QED
      BY <1>1, <3>1, <3>2 DEF Throws
  <2>4. pc' = "failStart" \/ pc' = "idle" =>
          RunPhase' = (IF pc' = "idle" THEN "idle" ELSE "turn")
          /\ MessageOpen' = (pc' = "failStart")
    BY DEF RunPhase, MessageOpen, At
  <2>5. RunPhase # "idle"
    BY <2>1 DEF RunPhase, At
  <2>. QED
    BY <2>1, <2>2, <2>3, <2>4, <2>5 DEF Protocol!Next, Protocol!Break
<1>2. CASE StrayFinish \/ CallsFromOutside \/ UNCHANGED vars
  <2>1. UNCHANGED <<pc, call, turn, threw>>
    BY <1>2 DEF CallsFromOutside, StrayFinish, Steer, FollowUp, Abort,
       ClearSteeringQueue, ClearFollowUpQueue, Reset, TrimLast, turnVars,
       batchVars, envVars, vars
  <2>2. RunPhase' = RunPhase /\ MessageOpen' = MessageOpen
    BY <2>1 DEF RunPhase, MessageOpen, At
  <2>3. OpenTools' = OpenTools
    BY <2>1 DEF OpenTools, OpenCalls, InState
  <2>4. stray' = stray \/ \E t \in stray : stray' = stray \ {t}
    BY <1>2 DEF CallsFromOutside, StrayFinish, Steer, FollowUp, Abort,
       ClearSteeringQueue, ClearFollowUpQueue, Reset, TrimLast, vars
  <2>. QED
    BY <2>1, <2>2, <2>3, <2>4 DEF Protocol!vars, Protocol!Next,
       Protocol!LooseEnd
<1>. QED
  BY <1>1, <1>2, RunMove, BatchMove DEF Next, Progress, Environment, RunSteps,
     BatchSteps, ReportSteps, Throws, CallsFromOutside

\* What an agent shows its listeners follows the protocol (runLoop,
\* processEvents and handleRunFailure): agent_start, turns of messages and tool
\* executions that open and close in order, agent_end once and last while no
\* listener throws, and after that only the report of the failure.
THEOREM ProtocolIsFollowed == Spec => FollowsProtocol
<1>1. Init => Protocol!Init
  BY DEF Init, Protocol!Init, RunPhase, MessageOpen, OpenTools, InBatch, At
<1>2. Init => StartedInv /\ BrokenInv
  BY DEF Init, StartedInv, BrokenInv, InBatch
<1>3. Spec => [](StartedInv /\ BrokenInv)
  BY <1>2, StartedStep, BrokenStep, Invariance, PTL DEF Spec
<1>4. IInv /\ IInv' /\ StartedInv /\ BrokenInv /\ [Next]_vars
        => [Protocol!Next]_(Protocol!vars)
  BY ProtocolStep
<1>. QED
  BY <1>1, <1>3, <1>4, Invariance, PTL DEF Spec, FollowsProtocol, Protocol!Spec
=============================================================================
