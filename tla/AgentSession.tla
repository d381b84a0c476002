---------------------------- MODULE AgentSession ----------------------------
(***************************************************************************)
(* The session of the applications around the agent                        *)
(* (coding-agent/src/core/agent-session.ts).                               *)
(*                                                                         *)
(* prompt() runs the agent and then, until nothing is left to do, retries  *)
(* a request that failed, compacts the context, and continues with what    *)
(* was queued.  A listener writes each message of the agent to the session *)
(* file.  The session so keeps four things in step that it does not own:   *)
(* the agent's messages, the branch of the session, the agent's queues and *)
(* the texts it shows of them; and three of its own across several         *)
(* functions: the count of retries, the last answer, and whether an        *)
(* overflow was already compacted for.                                     *)
(*                                                                         *)
(* compact() disconnects the listener, aborts the run and compacts.  abort *)
(* and bash results come at any time.  The run itself is reduced to the    *)
(* messages it emits, in turns and batches of tool calls that an abort may *)
(* break off, and the polls of its queues (one message at a time); module  *)
(* Agent has its detail.  The session's handler rejects when a listener of *)
(* the session throws or an entry cannot be written; the agent then gives  *)
(* the run up and reports that as an answer.  Of an answer the model keeps *)
(* how it ended, how many calls it makes and whether it shows the context  *)
(* to be over the threshold; of a user message, its text; of a             *)
(* compaction's summary, the position from which the branch is kept.       *)
(* Messages of extensions, skills, checks of model and key, and moves in   *)
(* the tree are left out.                                                  *)
(*                                                                         *)
(* A definition that nothing uses, just before another of the same         *)
(* parameters, is a faulty variant of it: what the properties must reject. *)
(***************************************************************************)
EXTENDS Naturals, Sequences, FiniteSets

CONSTANTS
  Callers,      \* calls of prompt that may be in progress
  Texts,        \* of user messages
  Outcomes,     \* how a request may end
  MaxCalls,     \* bound: tool calls of one answer
  MaxRetries,   \* settings.retry.maxRetries
  MaxEvents,    \* bound: calls from outside, and answers that do not just
                \* end the request
  Interrupt     \* TRUE: compact may be called while prompt is in progress

ASSUME AgentSessionBounds ==
  /\ {MaxCalls, MaxRetries, MaxEvents} \subseteq Nat
  /\ Interrupt \in BOOLEAN

VARIABLES
  messages,     \* agent.state.messages
  steering, followUps,  \* the agent's queues
  phase,        \* of the run: "none" when the agent is idle
  owner,        \* the call of prompt the run belongs to
  outbox,       \* messages the run is about to emit
  after,        \* the phase that follows them
  aborted,      \* the run's signal
  batch,        \* the answer whose calls are executed
  results,      \* results of this batch so far
  held,         \* a message the session's listener is handling
  branch,       \* the entries from the root to the leaf
  connected,    \* the session listens to the agent
  shownSteering, shownFollowUps,  \* _steeringMessages, _followUpMessages
  lastAssistant,
  retryAttempt,
  overflowTried,  \* _overflowRecoveryAttempted
  pendingBash,
  pc,           \* where each call of prompt waits
  local,        \* its locals
  cpc, cwait, ckeep,  \* the same of compact
  drawn,        \* messages and summaries made
  events,       \* so far
  dropped,      \* failed answers removed from the agent's messages
  crossed,      \* compact() kept an event of the agent from the session, or
                \* compacted while prompt went on
  failures,     \* requests in a row, with the same context, whose error is
                \* retried, since a user message or the abort of a retry
  recoveries,   \* compactions for an overflow since a user message or an
                \* answer without error
  refused,      \* the answer at which continue() found nothing to go on from
  handlerFailed,  \* the session's handler rejected
  brokenOff,    \* answers whose batch was aborted, or failed, on the way
  early         \* something was queued while no call of prompt was in progress
                \* and none has begun since

agent   == <<messages, steering, followUps>>
calls   == <<batch, results>>
run     == <<phase, owner, outbox, after, aborted, calls>>
shown   == <<shownSteering, shownFollowUps>>
retry   == <<lastAssistant, retryAttempt, overflowTried>>
compact == <<cpc, cwait, ckeep>>
marks   == <<handlerFailed, brokenOff, early>>
history == <<dropped, crossed, failures, recoveries, refused, marks>>

vars == <<agent, run, held, branch, connected, shown, retry, pendingBash,
          pc, local, compact, drawn, events, history>>

-----------------------------------------------------------------------------
(* Messages *)

Message(id, role, kind) ==
  [id |-> id, role |-> role, kind |-> kind, keep |-> 0, calls |-> 0]
None == Message(0, "none", "none")
New(role, kind) == Message(drawn + 1, role, kind)

LastOf(s) == IF s = <<>> THEN None ELSE s[Len(s)]

\* stopReason "error", and the error that is retried.
IsError(m) == m.kind \in {"retryable", "fatal", "overflow"}
IsRetryable(m) == m.kind = "retryable"

\* stopReason "aborted", with or without a usage over the threshold.
IsAborted(m) == m.kind \in {"aborted", "abortedLarge"}

\* An error that says so, or an answer whose input exceeded the window.
IsOverflow(m) == m.kind \in {"overflow", "silent"}

LastSummary(s) ==
  LET at == {i \in DOMAIN s : s[i].role = "summary"}
  IN IF at = {} THEN 0 ELSE CHOOSE i \in at : \A j \in at : j <= i

NotSummary(m) == m.role # "summary"

\* What stands at some positions of a sequence, in its order.
Picked(s, at) ==
  [n \in 1..Cardinality(at) |->
     s[CHOOSE i \in at : Cardinality({j \in at : j <= i}) = n]]

\* The entries from one position to another that are no summaries.
KeptOf(b, first, last) == Picked(b, {i \in first..last : NotSummary(b[i])})

\* What buildSessionContext makes of the branch.
ContextOf(b) ==
  LET c == LastSummary(b)
  IN IF c = 0 THEN b
     ELSE <<b[c]>> \o KeptOf(b, b[c].keep, c - 1) \o SubSeq(b, c + 1, Len(b))

\* The positions prepareCompaction may keep from: nothing that an earlier
\* compaction left out, and no result without its call.
KeepFrom(b) ==
  LET c == LastSummary(b)
      start == IF c = 0 THEN 1 ELSE b[c].keep
  IN IF b = <<>> \/ c = Len(b) THEN {}
     ELSE {i \in start..Len(b) : b[i].role \notin {"summary", "toolResult"}}

\* The messages without the answer at their end.
WithoutAnswer(s) ==
  IF LastOf(s).role = "assistant" THEN SubSeq(s, 1, Len(s) - 1) ELSE s

\* The mirror without the first text that equals this one.
WithoutText(s, text) ==
  IF \E i \in DOMAIN s : s[i] = text
    THEN LET k == CHOOSE i \in DOMAIN s :
                    s[i] = text /\ \A j \in 1..(i - 1) : s[j] # text
         IN SubSeq(s, 1, k - 1) \o SubSeq(s, k + 1, Len(s))
    ELSE s

Contains(s, x) == \E i \in DOMAIN s : s[i] = x

NoLocals ==
  [prompt |-> None, msg |-> None, pre |-> "no", reason |-> "none", keep |-> 0]

Active == phase # "none"
HasQueued == steering # <<>> \/ followUps # <<>>

Init ==
  /\ messages = <<>> /\ steering = <<>> /\ followUps = <<>>
  /\ phase = "none" /\ owner = CHOOSE p \in Callers : TRUE
  /\ outbox = <<>> /\ after = "poll"
  /\ aborted = FALSE /\ batch = None /\ results = 0
  /\ held = None /\ branch = <<>> /\ connected = TRUE
  /\ shownSteering = <<>> /\ shownFollowUps = <<>>
  /\ lastAssistant = None /\ retryAttempt = 0 /\ overflowTried = FALSE
  /\ pendingBash = <<>>
  /\ pc = [p \in Callers |-> "idle"] /\ local = [p \in Callers |-> NoLocals]
  /\ cpc = "idle" /\ cwait = FALSE /\ ckeep = 0
  /\ drawn = 0
  /\ events = 0
  /\ dropped = {} /\ crossed = FALSE
  /\ failures = 0 /\ recoveries = 0 /\ refused = None
  /\ handlerFailed = FALSE /\ brokenOff = {} /\ early = FALSE

Goto(p, place) == pc' = [pc EXCEPT ![p] = place]

Quiet == \A p \in Callers : pc[p] = "idle"
AtRest == Quiet /\ ~Active /\ cpc = "idle"

\* Input, timers and the ends of commands wait until what has been decided
\* is done: nothing comes between a decision to continue and continue().
Settled == \A p \in Callers : pc[p] # "continue"

-----------------------------------------------------------------------------
(* The run, as far as the session sees it *)

StartRun(p, prompts, then) ==
  /\ owner' = p /\ aborted' = FALSE
  /\ outbox' = prompts /\ after' = then
  /\ phase' = IF prompts = <<>> THEN then ELSE "emit"
  /\ UNCHANGED calls

\* message_start and message_end reach the agent's state, and the session
\* if it listens: a user message is then no longer shown as queued.
ShownWithoutSteering(m) ==
  /\ shownFollowUps' = WithoutText(shownFollowUps, m.kind)
  /\ UNCHANGED shownSteering

Started(m) ==
  IF Contains(shownSteering, m.kind)
    THEN /\ shownSteering' = WithoutText(shownSteering, m.kind)
         /\ UNCHANGED shownFollowUps
    ELSE /\ shownFollowUps' = WithoutText(shownFollowUps, m.kind)
         /\ UNCHANGED shownSteering

Emitted(m) ==
  /\ held = None
  /\ messages' = Append(messages, m)
  /\ held' = IF connected THEN m ELSE None
  /\ crossed' = (crossed \/ ~connected)

Emit ==
  /\ phase = "emit"
  /\ LET m == Head(outbox)
     IN /\ Emitted(m)
        /\ IF connected THEN Started(m) ELSE UNCHANGED shown
        /\ overflowTried' = (overflowTried /\ ~connected)
        /\ failures' = 0 /\ recoveries' = 0
  /\ outbox' = Tail(outbox)
  /\ phase' = IF Len(outbox) = 1 THEN after ELSE "emit"
  /\ UNCHANGED <<steering, followUps, owner, after, aborted, calls, branch,
                 connected, lastAssistant, retryAttempt, pendingBash, pc, local,
                 compact, drawn, events, dropped, refused, marks>>

\* The listener's turn at message_end.
Handle ==
  /\ held # None /\ held' = None
  /\ branch' = Append(branch, held)
  /\ IF held.role = "assistant"
       THEN /\ lastAssistant' = held
            /\ overflowTried' = (overflowTried /\ IsError(held))
            /\ retryAttempt' = IF IsError(held) THEN retryAttempt ELSE 0
       ELSE UNCHANGED <<lastAssistant, overflowTried, retryAttempt>>
  /\ UNCHANGED <<agent, run, connected, shown, pendingBash, pc, local, compact,
                 drawn, events, history>>

Deliver(queued) ==
  outbox' = <<Head(queued)>> /\ after' = "request" /\ phase' = "emit"

\* The loop asks for steering messages, and for follow-ups when it has
\* nothing else to do.
Poll ==
  /\ held = None /\ phase \in {"poll", "pollEnd"}
  /\ \/ /\ steering # <<>>
        /\ Deliver(steering) /\ steering' = Tail(steering)
        /\ UNCHANGED followUps
     \/ /\ steering = <<>> /\ phase = "poll"
        /\ phase' = "request" /\ UNCHANGED <<outbox, after, steering, followUps>>
     \/ /\ steering = <<>> /\ phase = "pollEnd" /\ followUps # <<>>
        /\ Deliver(followUps) /\ followUps' = Tail(followUps)
        /\ UNCHANGED steering
     \/ /\ steering = <<>> /\ phase = "pollEnd" /\ followUps = <<>>
        /\ phase' = "ending" /\ UNCHANGED <<outbox, after, steering, followUps>>
  /\ UNCHANGED <<messages, owner, aborted, calls, held, branch, connected, shown,
                 retry, pendingBash, pc, local, compact, drawn, events, history>>

\* An answer without error may call tools; an error or an abort ends the run, and
\* what it holds of calls is neither executed nor sent again.
Answer ==
  /\ phase = "request"
  /\ \E kind \in IF aborted THEN {"aborted", "abortedLarge"} ELSE Outcomes :
     \E n \in IF kind \in {"ok", "large"} THEN 0..MaxCalls ELSE {0} :
       LET m == [New("assistant", kind) EXCEPT !.calls = n]
           free == kind \in {"ok", "aborted"} /\ n = 0
       IN /\ free \/ events < MaxEvents
          /\ events' = IF free THEN events ELSE events + 1
          /\ Emitted(m)
          /\ phase' = CASE n > 0 -> "tool"
                      [] IsError(m) \/ IsAborted(m) -> "ending"
                      [] OTHER -> "pollEnd"
          /\ batch' = IF n > 0 THEN m ELSE None
          /\ failures' = IF IsRetryable(m) THEN failures + 1 ELSE 0
          /\ recoveries' = IF IsError(m) THEN recoveries ELSE 0
  /\ drawn' = drawn + 1
  /\ UNCHANGED <<steering, followUps, owner, outbox, after, aborted, results,
                 branch, connected, shown, retry, pendingBash, pc, local, compact,
                 dropped, refused, marks>>

ToolResult ==
  /\ phase = "tool" /\ results < batch.calls
  /\ Emitted(New("toolResult", "none")) /\ drawn' = drawn + 1
  /\ results' = results + 1
  /\ UNCHANGED <<steering, followUps, phase, owner, outbox, after, aborted, batch,
                 branch, connected, shown, retry, pendingBash, pc, local, compact,
                 events, dropped, failures, recoveries, refused, marks>>

\* Every call has its result, or an abort breaks the batch off after one of
\* them.  A batch that asks to terminate is not followed by another request
\* unless something is queued.
BatchEnds ==
  /\ phase = "tool" /\ held = None /\ results > 0
  /\ results = batch.calls \/ aborted
  /\ brokenOff' = IF aborted THEN brokenOff \union {batch.id} ELSE brokenOff
  /\ phase' \in {"poll", "pollEnd"} /\ batch' = None /\ results' = 0
  /\ UNCHANGED <<agent, owner, outbox, after, aborted, held, branch, connected,
                 shown, retry, pendingBash, pc, local, compact, drawn, events,
                 dropped, crossed, failures, recoveries, refused, handlerFailed, early>>

Event == events < MaxEvents /\ events' = events + 1

\* What the handler has done of its work on a message when it rejects: nothing
\* (a listener of message_end threw), the entry (it is in memory and could not
\* be written), or all but the reset of the retries (a listener of
\* auto_retry_end threw).
Unfinished ==
  /\ held # None
  /\ branch' \in {branch, Append(branch, held)}
  /\ \/ UNCHANGED <<lastAssistant, overflowTried>>
     \/ /\ held.role = "assistant" /\ ~IsError(held) /\ retryAttempt > 0
        /\ branch' = Append(branch, held)
        /\ lastAssistant' = held /\ overflowTried' = FALSE

\* A listener throws at another event; at a message_start the text of the
\* message is no longer shown by then.
Unheard ==
  /\ held = None /\ connected
  /\ UNCHANGED <<branch, lastAssistant>>
  /\ \/ UNCHANGED <<shown, overflowTried, recoveries>>
     \/ /\ phase = "emit" /\ Started(Head(outbox))
        /\ overflowTried' = FALSE /\ recoveries' = 0

\* The handler rejects: the agent drops what it was about to deliver and
\* reports the failure in an answer of its own (handleRunFailure).
HandlerFails ==
  /\ Active /\ phase \notin {"failing", "reported"} /\ Event
  /\ (Unfinished /\ UNCHANGED <<shown, recoveries>>) \/ Unheard
  /\ held' = None /\ outbox' = <<>> /\ phase' = "failing"
  /\ brokenOff' = IF phase = "tool" THEN brokenOff \union {batch.id} ELSE brokenOff
  /\ batch' = None /\ results' = 0
  /\ handlerFailed' = TRUE
  /\ UNCHANGED <<agent, owner, after, aborted, connected, retryAttempt,
                 pendingBash, pc, local, compact, drawn, dropped, crossed,
                 failures, refused, early>>

Report ==
  /\ phase = "failing"
  /\ \E kind \in IF aborted THEN {"aborted"} ELSE {"retryable", "fatal"} :
       LET m == New("assistant", kind)
       IN /\ Emitted(m)
          /\ recoveries' = IF IsError(m) THEN recoveries ELSE 0
  /\ drawn' = drawn + 1 /\ phase' = "reported"
  /\ UNCHANGED <<steering, followUps, owner, outbox, after, aborted, calls, branch,
                 connected, shown, retry, pendingBash, pc, local, compact, events,
                 dropped, failures, refused, marks>>

-----------------------------------------------------------------------------
(* After the run *)

\* The rounds of retries and compactions are over: bash results that came
\* meanwhile are added, and the prompt they came before is sent.
RoundsDone(p, msgs) ==
  /\ messages' = msgs \o pendingBash
  /\ branch' = branch \o pendingBash
  /\ pendingBash' = <<>>
  /\ IF local[p].pre = "rounds"
       THEN Goto(p, "ready") /\ local' = [local EXCEPT ![p].pre = "no"]
       ELSE Goto(p, "idle") /\ local' = [local EXCEPT ![p] = NoLocals]

\* The call throws.
Throws(p, b) ==
  /\ messages' = messages \o pendingBash
  /\ branch' = b \o pendingBash
  /\ pendingBash' = <<>>
  /\ Goto(p, "idle") /\ local' = [local EXCEPT ![p] = NoLocals]

\* There is nothing to retry and nothing was compacted.
NotContinuedQueued(p, msgs) ==
  IF local[p].pre = "check"
    THEN /\ Goto(p, "ready") /\ local' = [local EXCEPT ![p].pre = "no"]
         /\ messages' = msgs /\ UNCHANGED <<branch, pendingBash>>
    ELSE RoundsDone(p, msgs)

NotContinued(p, msgs) ==
  IF local[p].pre = "check"
    THEN /\ Goto(p, "ready") /\ local' = [local EXCEPT ![p].pre = "no"]
         /\ messages' = msgs /\ UNCHANGED <<branch, pendingBash>>
  ELSE IF HasQueued
    THEN /\ Goto(p, "continue")
         /\ messages' = msgs /\ UNCHANGED <<branch, pendingBash, local>>
  ELSE RoundsDone(p, msgs)

\* The answer is older than the last compaction.
IsStale(m) ==
  LET c == LastSummary(branch) IN c # 0 /\ m.id < branch[c].id

\* The last answer that reported its usage showed a large context.
EstimateIsLarge ==
  LET at == {i \in DOMAIN messages :
               messages[i].role = "assistant" /\ ~IsError(messages[i])
                 /\ ~IsAborted(messages[i])}
  IN \E i \in at : /\ \A j \in at : j <= i
                  /\ messages[i].kind = "large" /\ ~IsStale(messages[i])

\* _checkCompaction: what to compact for.  Only the check before a prompt looks
\* at the usage of an aborted answer.
Verdict(p, m) ==
  CASE IsStale(m) \/ (IsAborted(m) /\ local[p].pre # "check") -> "none"
    [] IsOverflow(m) -> IF overflowTried THEN "none" ELSE "overflow"
    [] (IsError(m) /\ EstimateIsLarge) \/ m.kind \in {"large", "abortedLarge"}
         -> "threshold"
    [] OTHER -> "none"

Removed(msgs) == {messages[i].id : i \in (Len(msgs) + 1)..Len(messages)}

CheckCompaction(p, m) ==
  LET v == Verdict(p, m)
      keep == KeepFrom(branch)
      msgs == IF v = "overflow" THEN WithoutAnswer(messages) ELSE messages
  IN /\ overflowTried' = (overflowTried \/ v = "overflow")
     /\ dropped' = dropped \union Removed(msgs)
     /\ IF v = "none" \/ keep = {}
          THEN NotContinued(p, msgs) /\ UNCHANGED recoveries
          ELSE /\ Goto(p, "compact")
               /\ \E k \in keep :
                    local' = [local EXCEPT ![p].reason = v, ![p].keep = k]
               /\ messages' = msgs
               /\ recoveries' = IF v = "overflow" THEN recoveries + 1
                                ELSE recoveries
               /\ UNCHANGED <<branch, pendingBash>>

\* _prepareRetry: the failed answer stays in the session only.
PrepareRetryKeeping(p, m) ==
  /\ retryAttempt' = retryAttempt + 1
  /\ UNCHANGED <<messages, dropped>>
  /\ Goto(p, "sleep") /\ local' = [local EXCEPT ![p].msg = m]
  /\ UNCHANGED <<branch, pendingBash, overflowTried, recoveries>>

PrepareRetry(p, m) ==
  /\ retryAttempt' = retryAttempt + 1
  /\ messages' = WithoutAnswer(messages)
  /\ dropped' = dropped \union Removed(WithoutAnswer(messages))
  /\ Goto(p, "sleep") /\ local' = [local EXCEPT ![p].msg = m]
  /\ UNCHANGED <<branch, pendingBash, overflowTried, recoveries>>

RetriesLeftOneMore(m) == IsRetryable(m) /\ retryAttempt <= MaxRetries
RetriesLeft(m) == IsRetryable(m) /\ retryAttempt < MaxRetries

\* The run ends and _handlePostAgentRun decides, before anything else can
\* happen.
EndRun ==
  LET p == owner
      m == lastAssistant
  IN /\ phase \in {"ending", "reported"} /\ held = None
     /\ phase' = "none" /\ aborted' = FALSE
     /\ cwait' = FALSE
     /\ lastAssistant' = None
     /\ CASE m = None ->
               /\ RoundsDone(p, messages)
               /\ UNCHANGED <<retryAttempt, overflowTried, dropped, recoveries>>
          [] RetriesLeft(m) -> PrepareRetry(p, m)
          [] OTHER ->
               /\ retryAttempt' = IF IsError(m) THEN 0 ELSE retryAttempt
               /\ CheckCompaction(p, m)
     /\ UNCHANGED <<steering, followUps, owner, outbox, after, calls, held,
                    connected, shown, cpc, ckeep, drawn, events, crossed,
                    failures, refused, marks>>

\* The report of the failure fails as well: the run is over and prompt()
\* throws.  The last answer heard of stays for the next run.
ReportFails ==
  /\ phase \in {"failing", "reported"} /\ Event
  /\ held # None \/ connected
  /\ \E b \in {branch} \union {Append(branch, m) : m \in {held} \ {None}} :
       Throws(owner, b)
  /\ held' = None /\ phase' = "none" /\ aborted' = FALSE
  /\ cwait' = FALSE
  /\ handlerFailed' = TRUE
  /\ UNCHANGED <<steering, followUps, owner, outbox, after, calls, connected,
                 shown, retry, cpc, ckeep, drawn, dropped, crossed, failures,
                 recoveries, refused, brokenOff, early>>

Wake(p) ==
  /\ pc[p] = "sleep"
  /\ Goto(p, "continue")
  /\ UNCHANGED <<agent, run, held, branch, connected, shown, retry, pendingBash,
                 local, compact, drawn, events, history>>

\* abort ended the wait for the retry.  With a message queued the request
\* is repeated nevertheless, and retried anew.
RetryCancelled(p) ==
  /\ pc[p] = "cancelled"
  /\ retryAttempt' = 0 /\ failures' = 0
  /\ CheckCompaction(p, local[p].msg)
  /\ UNCHANGED <<steering, followUps, run, held, connected, shown, lastAssistant,
                 compact, drawn, events, crossed, refused, marks>>

\* After an overflow the failed answer goes once more, and the request is
\* repeated; after the threshold, what is queued is delivered.
AutoCompacted(p) ==
  LET e == [New("summary", local[p].reason) EXCEPT !.keep = local[p].keep]
      context == ContextOf(Append(branch, e))
      failed == LastOf(context).role = "assistant" /\ IsError(LastOf(context))
      retries == local[p].reason = "overflow"
      msgs == IF retries /\ failed THEN WithoutAnswer(context) ELSE context
  IN /\ pc[p] = "compact"
     /\ drawn' = drawn + 1 /\ failures' = 0
     /\ dropped' = {context[i].id : i \in (Len(msgs) + 1)..Len(context)}
     /\ LET goesOn == retries \/ HasQueued
            flush == ~goesOn /\ local[p].pre # "check"
        IN /\ branch' = Append(branch, e) \o (IF flush THEN pendingBash ELSE <<>>)
           /\ messages' = msgs \o (IF flush THEN pendingBash ELSE <<>>)
           /\ pendingBash' = IF flush THEN <<>> ELSE pendingBash
           /\ Goto(p, IF goesOn THEN "continue"
                      ELSE IF local[p].pre # "no" THEN "ready" ELSE "idle")
           /\ local' = [local EXCEPT
                          ![p] = IF goesOn \/ local[p].pre # "no" THEN @
                                 ELSE NoLocals,
                          ![p].pre = IF goesOn /\ local[p].pre = "check"
                                       THEN "rounds"
                                     ELSE IF goesOn THEN @ ELSE "no"]
     /\ UNCHANGED <<steering, followUps, run, held, connected, shown, retry,
                    compact, events, crossed, recoveries, refused, marks>>

\* No model, no key, nothing to compact, cancelled, or a failed request.
AutoCompactFails(p) ==
  /\ pc[p] = "compact"
  /\ NotContinued(p, messages)
  /\ UNCHANGED <<steering, followUps, run, held, connected, shown, retry, compact,
                 drawn, events, history>>

\* agent.continue()
Continue(p) ==
  /\ pc[p] = "continue"
  /\ LET answered == LastOf(messages).role = "assistant"
     IN CASE Active \/ messages = <<>> ->
               /\ Throws(p, branch)
               /\ UNCHANGED <<steering, followUps, run, refused>>
          [] answered /\ steering # <<>> /\ ~Active ->
               /\ StartRun(p, <<Head(steering)>>, "request")
               /\ steering' = Tail(steering) /\ Goto(p, "running")
               /\ UNCHANGED <<messages, branch, pendingBash, followUps, local,
                              refused>>
          [] answered /\ steering = <<>> /\ followUps # <<>> /\ ~Active ->
               /\ StartRun(p, <<Head(followUps)>>, "poll")
               /\ followUps' = Tail(followUps) /\ Goto(p, "running")
               /\ UNCHANGED <<messages, branch, pendingBash, steering, local,
                              refused>>
          [] answered /\ ~HasQueued /\ ~Active ->
               /\ Throws(p, branch) /\ refused' = LastOf(messages)
               /\ UNCHANGED <<steering, followUps, run>>
          [] OTHER ->
               /\ StartRun(p, <<>>, "poll") /\ Goto(p, "running")
               /\ UNCHANGED <<agent, branch, pendingBash, local, refused>>
  /\ UNCHANGED <<held, connected, shown, retry, compact, drawn, events, dropped,
                 crossed, failures, recoveries, marks>>

-----------------------------------------------------------------------------
(* Calls *)

\* prompt() while the agent is idle: bash results, then the check whether
\* to compact first.  The callers send one prompt at a time, and none while
\* compact() works.
Prompt(p) ==
  LET flushed == messages \o pendingBash
      answers == {i \in DOMAIN flushed : flushed[i].role = "assistant"}
      last == IF answers = {} THEN None
              ELSE flushed[CHOOSE i \in answers : \A j \in answers : j <= i]
  IN /\ AtRest /\ Event
     /\ drawn' = drawn + 1 /\ failures' = 0 /\ early' = FALSE
     /\ messages' = flushed /\ branch' = branch \o pendingBash
     /\ pendingBash' = <<>>
     /\ \E text \in Texts :
          local' = [local EXCEPT ![p] =
                      [NoLocals EXCEPT !.prompt = New("user", text),
                                       !.msg = last, !.pre = "check"]]
     /\ Goto(p, IF last = None THEN "ready" ELSE "check")
     /\ UNCHANGED <<steering, followUps, run, held, connected, shown, retry,
                    compact, dropped, crossed, recoveries, refused, handlerFailed,
                    brokenOff>>

PreCheck(p) ==
  /\ pc[p] = "check"
  /\ CheckCompaction(p, local[p].msg)
  /\ UNCHANGED <<steering, followUps, run, held, connected, shown, lastAssistant,
                 retryAttempt, compact, drawn, events, crossed, failures, refused,
                 marks>>

Send(p) ==
  /\ pc[p] = "ready"
  /\ IF Active
       THEN Throws(p, branch) /\ UNCHANGED run
       ELSE /\ StartRun(p, <<local[p].prompt>>, "poll") /\ Goto(p, "running")
            /\ local' = [local EXCEPT ![p] = NoLocals]
            /\ UNCHANGED <<messages, branch, pendingBash>>
  /\ UNCHANGED <<steering, followUps, held, connected, shown, retry, compact,
                 drawn, events, history>>

\* steer() and followUp(), whether the agent runs or not, and prompt() while it
\* does: the message is queued and its text shown.
Queue ==
  /\ Event
  /\ drawn' = drawn + 1
  /\ early' = (early \/ Quiet)
  /\ \E text \in Texts :
       \/ /\ steering' = Append(steering, New("user", text))
          /\ shownSteering' = Append(shownSteering, text)
          /\ UNCHANGED <<followUps, shownFollowUps>>
       \/ /\ followUps' = Append(followUps, New("user", text))
          /\ shownFollowUps' = Append(shownFollowUps, text)
          /\ UNCHANGED <<steering, shownSteering>>
  /\ UNCHANGED <<messages, run, held, branch, connected, retry, pendingBash, pc,
                 local, compact, dropped, crossed, failures, recoveries, refused,
                 handlerFailed, brokenOff>>

ClearQueue ==
  /\ HasQueued /\ Event
  /\ steering' = <<>> /\ followUps' = <<>>
  /\ shownSteering' = <<>> /\ shownFollowUps' = <<>>
  /\ UNCHANGED <<messages, run, held, branch, connected, retry, pendingBash, pc,
                 local, compact, drawn, history>>

\* recordBashResult waits for the end of the run.
BashAtOnce ==
  /\ Event
  /\ drawn' = drawn + 1
  /\ messages' = Append(messages, New("bash", "none"))
  /\ branch' = Append(branch, New("bash", "none"))
  /\ failures' = 0
  /\ UNCHANGED pendingBash
  /\ UNCHANGED <<steering, followUps, run, held, connected, shown, retry, pc, local,
                 compact, dropped, crossed, recoveries, refused, marks>>

Bash ==
  /\ Event
  /\ drawn' = drawn + 1
  /\ IF Active
       THEN /\ pendingBash' = Append(pendingBash, New("bash", "none"))
            /\ UNCHANGED <<messages, branch, failures>>
       ELSE /\ messages' = Append(messages, New("bash", "none"))
            /\ branch' = Append(branch, New("bash", "none"))
            /\ failures' = 0
            /\ UNCHANGED pendingBash
  /\ UNCHANGED <<steering, followUps, run, held, connected, shown, retry, pc, local,
                 compact, dropped, crossed, recoveries, refused, marks>>

\* abortRetry and agent.abort
Aborts ==
  /\ aborted' = Active
  /\ pc' = [p \in Callers |-> IF pc[p] = "sleep" THEN "cancelled" ELSE pc[p]]

Abort ==
  /\ Event
  /\ ~AtRest /\ Aborts
  /\ UNCHANGED <<agent, phase, owner, outbox, after, calls, held, branch, connected,
                 shown, retry, pendingBash, local, compact, drawn, history>>

CompactBegins ==
  /\ Event
  /\ cpc = "idle" /\ (Interrupt \/ AtRest)
  /\ connected' = FALSE /\ Aborts
  /\ cpc' = "waiting" /\ cwait' = Active
  /\ UNCHANGED <<agent, phase, owner, outbox, after, calls, held, branch, shown,
                 retry, pendingBash, local, ckeep, drawn, history>>

CompactPrepares ==
  /\ cpc = "waiting" /\ ~cwait
  /\ IF KeepFrom(branch) = {}
       THEN cpc' = "idle" /\ connected' = TRUE /\ UNCHANGED ckeep
       ELSE cpc' = "compacting" /\ ckeep' \in KeepFrom(branch)
            /\ UNCHANGED connected
  /\ crossed' = (crossed \/ ~Quiet)
  /\ UNCHANGED <<agent, run, held, branch, shown, retry, pendingBash, pc, local,
                 cwait, drawn, events, dropped, failures, recoveries, refused, marks>>

CompactEndsUnread ==
  /\ cpc = "compacting"
  /\ \/ /\ branch' = Append(branch, [New("summary", "manual") EXCEPT !.keep = ckeep])
        /\ drawn' = drawn + 1
        /\ failures' = 0
        /\ UNCHANGED <<messages, dropped>>
     \/ UNCHANGED <<messages, branch, drawn, dropped, failures>>
  /\ cpc' = "idle" /\ connected' = TRUE /\ ckeep' = 0
  /\ UNCHANGED <<steering, followUps, run, held, shown, retry, pendingBash, pc, local,
                 cwait, events, crossed, recoveries, refused, marks>>

CompactEnds ==
  /\ cpc = "compacting"
  /\ \/ /\ branch' = Append(branch, [New("summary", "manual") EXCEPT !.keep = ckeep])
        /\ messages' = ContextOf(branch')
        /\ drawn' = drawn + 1 /\ dropped' = {} /\ failures' = 0
     \/ UNCHANGED <<messages, branch, drawn, dropped, failures>>
  /\ cpc' = "idle" /\ connected' = TRUE /\ ckeep' = 0
  /\ UNCHANGED <<steering, followUps, run, held, shown, retry, pendingBash, pc, local,
                 cwait, events, crossed, recoveries, refused, marks>>

Loop ==
  \/ Emit \/ Handle \/ Poll \/ Answer \/ ToolResult \/ BatchEnds \/ EndRun
  \/ HandlerFails \/ Report \/ ReportFails

Step(p) ==
  \/ PreCheck(p) \/ Send(p) \/ Continue(p) \/ Wake(p) \/ RetryCancelled(p)
  \/ AutoCompacted(p) \/ AutoCompactFails(p)

Compact == CompactPrepares \/ CompactEnds

\* Nothing goes on and nobody asks for anything.
Rest == AtRest /\ UNCHANGED vars

Next ==
  \/ Loop \/ (\E p \in Callers : Step(p) \/ Prompt(p))
  \/ Settled /\ (Queue \/ ClearQueue \/ Bash \/ Abort \/ CompactBegins)
  \/ Compact \/ Rest

Spec == Init /\ [][Next]_vars

-----------------------------------------------------------------------------
(* Properties *)

Without(s, ids) == Picked(s, {i \in DOMAIN s : s[i].id \notin ids})
IsToolCall(m) == m.role = "assistant" /\ m.calls > 0
IsResult(m) == m.role = "toolResult"

\* When nothing goes on, the agent holds what reopening the session would
\* give it, except the failed answers it was relieved of: retries,
\* compactions, late bash results and aborts keep both in step, as long as
\* no event of the agent passed while compact() was not listening, and no
\* handling of one failed.
SessionAgrees ==
  AtRest /\ ~crossed /\ ~handlerFailed =>
    messages = Without(ContextOf(branch), dropped)

\* In every request the results of an answer's calls follow it at once, one for
\* each call, unless the batch was aborted or failed on the way; then there may
\* be fewer.  No result comes without its call: no bash result and no compaction
\* gets between them (recordBashResult, findCutPoint), also after a handler
\* failed in the middle of a batch.
ToolPairs ==
  phase = "request" /\ ~crossed =>
    /\ \A i \in DOMAIN messages :
         IsToolCall(messages[i]) /\ messages[i].id \notin brokenOff =>
           \A k \in 1..messages[i].calls :
             i + k <= Len(messages) /\ IsResult(messages[i + k])
    /\ \A i \in DOMAIN messages :
         IsResult(messages[i]) =>
           \E j \in 1..(i - 1) :
             /\ IsToolCall(messages[j]) /\ i - j <= messages[j].calls
             /\ \A k \in (j + 1)..i : IsResult(messages[k])

\* A request that keeps failing is made at most once more than the setting
\* says, however the failures are spread over runs, waits and compactions
\* (_prepareRetry and its callers), unless a retry is cancelled or the session's
\* handler failed.  With another context (after a compaction or with a bash
\* result) it is another request, which may be retried anew.
RetriesAreBounded == ~handlerFailed => failures <= MaxRetries + 1

\* When nothing goes on, no retry is under way: each auto_retry_start was
\* followed by its auto_retry_end, unless compact() or a failure kept the
\* session from seeing how the retry ended.
RetryEnds == AtRest /\ ~crossed /\ ~handlerFailed => retryAttempt = 0

\* Between two user messages or successful answers the context is compacted
\* for an overflow at most once.
RecoversOnce == recoveries <= 1

\* Retries and recoveries are bounded, and none is under way at the end.
RetriesAreOver == RetriesAreBounded /\ RetryEnds /\ RecoversOnce

CountOf(s, x) == Cardinality({i \in DOMAIN s : s[i] = x})
TextsOf(s) == [i \in DOMAIN s |-> s[i].kind]

\* No text is shown as queued more often than it is queued or about to be
\* delivered, also when texts are equal and found by comparison.
ShownIsQueued ==
  ~crossed /\ ~handlerFailed =>
    \A text \in Texts :
      CountOf(shownSteering \o shownFollowUps, text)
        <= CountOf(TextsOf(steering \o followUps \o outbox), text)

\* Nothing is left in the agent's queues when nothing goes on: what came
\* too late for the run, in the wait of a retry or during a compaction is
\* delivered by another run (_handlePostAgentRun).  Only what was queued while
\* no prompt was in progress waits for the next one.
NothingStranded == AtRest /\ ~crossed /\ ~handlerFailed /\ ~early => ~HasQueued

\* continue() after an overflow finds the failed answer gone.  It refuses only
\* an answer that showed the overflow without an error, and a failed answer of
\* an earlier retry that a compaction for an overflow brought back from the
\* branch (_checkCompaction, _runAutoCompaction).
ContinueAccepted ==
  ~crossed /\ ~handlerFailed =>
    \/ refused.kind \in {"none", "silent"}
    \/ /\ refused.kind = "retryable"
       /\ \E i \in DOMAIN branch :
            /\ branch[i].role = "summary" /\ branch[i].kind = "overflow"
            /\ branch[i].id > refused.id
=============================================================================
