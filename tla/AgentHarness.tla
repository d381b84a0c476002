---------------------------- MODULE AgentHarness ----------------------------
(***************************************************************************)
(* The harness: runs of the agent loop that are written to a session       *)
(* (agent/src/harness/agent-harness.ts).                                   *)
(*                                                                         *)
(* A caller is whoever has a call of the harness in progress: the          *)
(* application, a listener, a hook, a tool.  A listener, hook or tool may  *)
(* await its call, and the run that awaits it then waits too: "within"     *)
(* says which run that is.  prompt() takes the phase from                  *)
(* "idle" to "turn", reads the session, and runs the loop, whose messages  *)
(* are appended to the session one by one.  Writes that others ask for     *)
(* meanwhile wait in pendingSessionWrites and are flushed at the end of a  *)
(* turn, of the run and of prompt(); when the phase is "idle" they go to   *)
(* the session at once.  compact() and navigateTree() have a phase of      *)
(* their own.  Every await is a step, at which other callers may run.      *)
(*                                                                         *)
(* Appending to the session is one await here; SessionTree looks inside.   *)
(* A message, a model change, a summary and so on are items, each of them  *)
(* distinct.  A turn is a message of the model; the messages of its tools  *)
(* are like further messages and left out.  The loop is the one of Agent,  *)
(* without the parts that do not touch the harness; setResources and       *)
(* setStreamOptions, which only change the next snapshot, are left out.    *)
(*                                                                         *)
(* The code refuses a call for the phase alone, and so do the actions.     *)
(* What some properties need of the callers, or of the errors, is not      *)
(* required of anybody: "serial" and "failedLate" record whether it has    *)
(* been so, no guard reads them, and those properties name them.           *)
(*                                                                         *)
(* A definition that nothing uses, just before another of the same         *)
(* parameters, is a faulty variant of it: what the properties must reject. *)
(***************************************************************************)
EXTENDS Naturals, Sequences, FiniteSets

CONSTANTS
  Callers,
  OneAtATime,   \* the mode of both queues
  MaxCalls,     \* bound: calls of the harness, and answers with tool calls
  MaxErrors     \* bound: listeners that throw, answers and writes that fail

ASSUME HarnessBounds ==
  /\ OneAtATime \in BOOLEAN
  /\ {MaxCalls, MaxErrors} \subseteq Nat

NoOne == "no one"
ASSUME NoOneCalls == NoOne \notin Callers

VARIABLES
  phase,       \* "idle", "turn", "compaction", "branch_summary"
  runPromise,  \* whose run waitForIdle waits for
  controller,  \* whose run abort reaches (runAbortController)
  pending,     \* pendingSessionWrites
  queue,       \* steerQueue, followUpQueue, nextTurnQueue
  session,     \* the items in the session, in order
  pc,          \* the await each caller is suspended at
  next,        \* where a caller goes when its messages or writes are done
  mode,        \* how the caller's run stands: "loop", "failure", "throwing"
  outcome,     \* of the turn: "more" (tool calls), "done", "failed"
  todo,        \* items the caller is about to append
  context,     \* what the caller's next request sends
  aborted,     \* runs whose signal is aborted
  waitsFor,    \* the run a caller of waitForIdle waits for
  within,      \* the run that awaits the caller as its listener, hook or tool
  items,       \* number of items so far
  cleared,     \* items that abort() removed and returned
  dropped,     \* items given up when something threw
  tidy,        \* no call so far returned without the flush a run ends with
  serial,      \* so far callers began what needs the idle harness alone
  failedLate,  \* a run has failed after it declared the harness idle
  count        \* calls, answers and errors so far

shared   == <<phase, runPromise, controller>>
run      == <<mode, outcome, context, aborted>>
waits    == <<waitsFor, within>>
noted    == <<serial, failedLate>>
history  == <<cleared, dropped, tidy, noted>>
vars == <<shared, pending, queue, session, pc, next, run, todo, waits,
          items, history, count>>

Queues == {"steer", "followUp", "nextTurn"}
Counters == {"call", "error"}
Bound == [call |-> MaxCalls, error |-> MaxErrors]

Items(s) == {s[i] : i \in 1..Len(s)}

Count(what) ==
  count[what] < Bound[what] /\ count' = [count EXCEPT ![what] = @ + 1]

At(c, place) == pc' = [pc EXCEPT ![c] = place]
Goes(c, place, then) ==
  At(c, place) /\ next' = [next EXCEPT ![c] = then]
Holds(c, s) == todo' = [todo EXCEPT ![c] = s]

\* The caller goes on and nothing else happens.
rest == <<shared, pending, queue, session, run, todo, waits, items, history,
          count>>
Moves(c, place) == At(c, place) /\ UNCHANGED <<next, rest>>
MovesOn(c, place, then) == Goes(c, place, then) /\ UNCHANGED rest

\* Awaits of a session write.
Writing == {"emitting", "flushing", "appending", "reshaping"}

\* A run before it has declared the harness idle again.
InTurn(c) ==
  /\ mode[c] = "loop"
  /\ \/ pc[c] \in {"snapshot", "queued", "hook", "emit", "emitting", "poll",
                   "polled", "orphaned", "request", "turnEnd", "saved",
                   "rethrow", "refresh", "pollMore", "agentEnd"}
     \/ /\ pc[c] \in {"flush", "flushing"}
        /\ next[c] # "closing"

Running(c) ==
  pc[c] \notin {"idle", "appending", "reshape", "reshaping", "aborting",
                "waiting"}

Reshaping(c) == pc[c] \in {"reshape", "reshaping"}

-----------------------------------------------------------------------------
Init ==
  /\ phase = "idle" /\ runPromise = NoOne /\ controller = NoOne
  /\ pending = <<>> /\ queue = [q \in Queues |-> <<>>] /\ session = <<>>
  /\ pc = [c \in Callers |-> "idle"] /\ next = [c \in Callers |-> "idle"]
  /\ mode = [c \in Callers |-> "loop"]
  /\ outcome = [c \in Callers |-> "more"]
  /\ todo = [c \in Callers |-> <<>>]
  /\ context = [c \in Callers |-> <<>>]
  /\ aborted = {} /\ waitsFor = [c \in Callers |-> NoOne]
  /\ within = [c \in Callers |-> NoOne]
  /\ items = 0 /\ cleared = {} /\ dropped = {} /\ tidy = TRUE
  /\ serial = TRUE /\ failedLate = FALSE
  /\ count = [k \in Counters |-> 0]

-----------------------------------------------------------------------------
(* Who calls *)

\* A run or reshaping that awaits listeners, hooks, callbacks or tools.
Listening(c) ==
  pc[c] \in {"snapshot", "queued", "hook", "emit", "polled", "orphaned",
             "request", "turnEnd", "saved", "refresh", "ended", "reshape"}

\* The caller is one of them and awaits its call, or it is not.
FromAnywhere(c) ==
  \E r \in {NoOne} \union {d \in Callers \ {c} : Listening(d)} :
    within' = [within EXCEPT ![c] = r]
Freed(c) == within' = [within EXCEPT ![c] = NoOne]

Awaits(c) == \E d \in Callers : within[d] = c

\* Noted: whether the call begins while no other can touch the session.
Passive == {"idle", "aborting", "waiting"}
NotesAlone(c) ==
  serial' = (serial /\ \A d \in Callers \ {c} : pc[d] \in Passive)

\* A direct write may also begin in a listener of agent_end or settled.
NotesHeard(c) ==
  serial' = (serial /\ \A d \in Callers \ {c} :
               pc[d] \in Passive \/ (pc[d] = "ended" /\ within'[c] = d))

-----------------------------------------------------------------------------
(* Starting a run: prompt, skill and promptFromTemplate *)

Prompt(c) ==
  /\ pc[c] = "idle" /\ phase = "idle"
  /\ FromAnywhere(c) /\ NotesAlone(c)
  /\ Count("call")
  /\ phase' = "turn" /\ runPromise' = c
  /\ At(c, "snapshot")
  /\ items' = items + 1
  /\ Holds(c, <<items + 1>>)
  /\ UNCHANGED <<controller, pending, queue, session, next, run, waitsFor,
                 cleared, dropped, tidy, failedLate>>

\* createTurnState reads the session; then the messages for the next turn
\* are taken out of their queue.
Snapshot(c) ==
  /\ pc[c] = "snapshot"
  /\ context' = [context EXCEPT ![c] = session]
  /\ Holds(c, queue["nextTurn"] \o todo[c])
  /\ queue' = [queue EXCEPT !["nextTurn"] = <<>>]
  /\ At(c, IF queue["nextTurn"] = <<>> THEN "hook" ELSE "queued")
  /\ UNCHANGED <<shared, pending, session, next, mode, outcome, aborted,
                 waits, items, history, count>>

QueueTold(c) ==
  /\ pc[c] = "queued"
  /\ Moves(c, "hook")

\* Only now can abort() reach the run.
Launch(c) ==
  /\ pc[c] = "hook"
  /\ controller' = c
  /\ Goes(c, "emit", "poll")
  /\ UNCHANGED <<phase, runPromise, pending, queue, session, run, todo,
                 waits, items, history, count>>

\* An error before the run is launched: no flush; the queue gets its
\* messages back unless it is the hook that threw.
EarlyError(c) ==
  /\ pc[c] \in {"snapshot", "queued", "hook"}
  /\ Count("error")
  /\ mode' = [mode EXCEPT ![c] = "throwing"]
  /\ At(c, "returning")
  /\ LET prompt == {todo[c][Len(todo[c])]}
         back   == SubSeq(todo[c], 1, Len(todo[c]) - 1)
     IN  IF pc[c] = "queued"
           THEN /\ queue' = [queue EXCEPT !["nextTurn"] = back \o @]
                /\ dropped' = dropped \union prompt
           ELSE /\ dropped' = dropped \union Items(todo[c])
                /\ UNCHANGED queue
  /\ Holds(c, <<>>)
  /\ tidy' = FALSE
  /\ UNCHANGED <<shared, pending, session, next, outcome, context, aborted,
                 waits, items, cleared, noted>>

-----------------------------------------------------------------------------
(* Messages of a run, and its turns *)

\* message_end: the message is appended, then the listeners hear of it.
Emit(c) ==
  /\ pc[c] = "emit" /\ todo[c] # <<>>
  /\ Moves(c, "emitting")

Emitted(c) ==
  /\ pc[c] = "emit" /\ todo[c] = <<>>
  /\ Moves(c, next[c])

Taken(q) ==
  IF OneAtATime THEN SubSeq(queue[q], 1, 1) ELSE queue[q]
Left(q) ==
  IF OneAtATime THEN Tail(queue[q]) ELSE <<>>

\* drainQueuedMessages: what is taken waits for the listeners of
\* queue_update.
Drain(c, q) ==
  /\ queue[q] # <<>>
  /\ Holds(c, Taken(q))
  /\ queue' = [queue EXCEPT ![q] = Left(q)]
  /\ Goes(c, "polled", q)
  /\ UNCHANGED <<shared, pending, session, run, waits, items, history,
                 count>>

\* getSteeringMessages; the loop goes on when there are messages or tool
\* calls.
Poll(c) ==
  /\ pc[c] = "poll"
  /\ \/ Drain(c, "steer")
     \/ /\ queue["steer"] = <<>>
        /\ Moves(c, IF outcome[c] = "more" THEN "request" ELSE "pollMore")

\* getFollowUpMessages; the run ends when there are none.
PollMore(c) ==
  /\ pc[c] = "pollMore"
  /\ \/ Drain(c, "followUp")
     \/ /\ queue["followUp"] = <<>>
        /\ MovesOn(c, "flush", "agentEnd")

Polled(c) ==
  /\ pc[c] \in {"polled", "orphaned"}
  /\ MovesOn(c, "emit", "request")

\* The provider answers, with tool calls or without; an aborted run gets a
\* failed answer.
Answer(c) ==
  /\ pc[c] = "request"
  /\ \E o \in {"more", "done", "failed"} :
       /\ c \in aborted => o = "failed"
       /\ outcome' = [outcome EXCEPT ![c] = o]
       /\ CASE o = "more" -> Count("call")
            [] o = "failed" /\ c \notin aborted -> Count("error")
            [] OTHER -> UNCHANGED count
  /\ items' = items + 1
  /\ Holds(c, <<items + 1>>)
  /\ Goes(c, "emit", "turnEnd")
  /\ UNCHANGED <<shared, pending, queue, session, mode, context, aborted,
                 waits, history>>

-----------------------------------------------------------------------------
(* The end of a turn *)

\* A listener of turn_end that throws is remembered until after the flush.
TurnEnd(c) ==
  /\ pc[c] = "turnEnd"
  /\ \/ Goes(c, "flush", "saved") /\ UNCHANGED count
     \/ Goes(c, "flush", "rethrow") /\ Count("error")
  /\ UNCHANGED <<shared, pending, queue, session, run, todo, waits, items,
                 history>>

FlushWrite(c) ==
  /\ pc[c] = "flush" /\ pending # <<>>
  /\ Holds(c, <<Head(pending)>>)
  /\ At(c, "flushing")
  /\ UNCHANGED <<shared, pending, queue, session, next, run, waits, items,
                 history, count>>

Flushed(c) ==
  /\ pc[c] = "flush" /\ pending = <<>>
  /\ Moves(c, next[c])

EndsRun(c) == mode[c] = "failure" \/ outcome[c] = "failed"

\* save_point; then prepareNextTurn, or agent_end, which both flush again.
AfterSave(c) ==
  /\ pc[c] = "saved"
  /\ MovesOn(c, "flush", IF EndsRun(c) THEN "agentEnd" ELSE "refresh")

RefreshNot(c) ==
  /\ pc[c] = "refresh"
  /\ Moves(c, "poll")

\* prepareNextTurn takes a new snapshot of the session.
Refresh(c) ==
  /\ pc[c] = "refresh"
  /\ context' = [context EXCEPT ![c] = session]
  /\ At(c, "poll")
  /\ UNCHANGED <<shared, pending, queue, session, next, mode, outcome,
                 aborted, todo, waits, items, history, count>>

-----------------------------------------------------------------------------
(* The end of a run *)

AgentEnd(c) ==
  /\ pc[c] = "agentEnd"
  /\ phase' = "idle"
  /\ At(c, "ended")
  /\ UNCHANGED <<runPromise, controller, pending, queue, session, next, run,
                 todo, waits, items, history, count>>

EndedUnflushed(c) ==
  /\ pc[c] = "ended"
  /\ Moves(c, "closing")

\* agent_end and settled have been heard; prompt() flushes once more.
Ended(c) ==
  /\ pc[c] = "ended"
  /\ MovesOn(c, "flush", "closing")

Closing(c) ==
  /\ pc[c] = "closing"
  /\ controller' = NoOne
  /\ At(c, "returning")
  /\ UNCHANGED <<phase, runPromise, pending, queue, session, next, run, todo,
                 waits, items, history, count>>

ReturnIdles(c) ==
  /\ pc[c] = "returning"
  /\ phase' = "idle"
  /\ runPromise' = NoOne
  /\ waitsFor' =
       [d \in Callers |-> IF waitsFor[d] = c THEN NoOne ELSE waitsFor[d]]
  /\ mode' = [mode EXCEPT ![c] = "loop"]
  /\ outcome' = [outcome EXCEPT ![c] = "more"]
  /\ aborted' = aborted \ {c}
  /\ context' = [context EXCEPT ![c] = <<>>]
  /\ tidy' = (tidy /\ (mode[c] = "throwing" => pending = <<>>))
  /\ Goes(c, "idle", "idle") /\ Freed(c)
  /\ UNCHANGED <<controller, pending, queue, session, todo, items, cleared,
                 dropped, noted, count>>

ReturnUntold(c) ==
  /\ pc[c] = "returning"
  /\ phase' = IF mode[c] = "throwing" THEN "idle" ELSE phase
  /\ runPromise' = NoOne
  /\ waitsFor' = IF mode[c] = "throwing" THEN waitsFor ELSE
       [d \in Callers |-> IF waitsFor[d] = c THEN NoOne ELSE waitsFor[d]]
  /\ mode' = [mode EXCEPT ![c] = "loop"]
  /\ outcome' = [outcome EXCEPT ![c] = "more"]
  /\ aborted' = aborted \ {c}
  /\ context' = [context EXCEPT ![c] = <<>>]
  /\ tidy' = (tidy /\ (mode[c] = "throwing" => pending = <<>>))
  /\ Goes(c, "idle", "idle") /\ Freed(c)
  /\ UNCHANGED <<controller, pending, queue, session, todo, items, cleared,
                 dropped, noted, count>>

\* The catch and the finally of prompt().
Return(c) ==
  /\ pc[c] = "returning"
  /\ phase' = IF mode[c] = "throwing" THEN "idle" ELSE phase
  /\ runPromise' = NoOne
  /\ waitsFor' =
       [d \in Callers |-> IF waitsFor[d] = c THEN NoOne ELSE waitsFor[d]]
  /\ mode' = [mode EXCEPT ![c] = "loop"]
  /\ outcome' = [outcome EXCEPT ![c] = "more"]
  /\ aborted' = aborted \ {c}
  /\ context' = [context EXCEPT ![c] = <<>>]
  /\ tidy' = (tidy /\ (mode[c] = "throwing" => pending = <<>>))
  /\ Goes(c, "idle", "idle") /\ Freed(c)
  /\ UNCHANGED <<controller, pending, queue, session, todo, items, cleared,
                 dropped, noted, count>>

-----------------------------------------------------------------------------
(* Errors in a run: the loop rejects and emitRunFailure reports it; when    *)
(* that fails too, prompt() throws.                                         *)

Fails(c, lost) ==
  /\ dropped' = dropped \union lost
  /\ IF mode[c] = "loop"
       THEN /\ mode' = [mode EXCEPT ![c] = "failure"]
            /\ items' = items + 1
            /\ Holds(c, <<items + 1>>)
            /\ Goes(c, "emit", "turnEnd")
       ELSE /\ mode' = [mode EXCEPT ![c] = "throwing"]
            /\ UNCHANGED items
            /\ Holds(c, <<>>)
            /\ Goes(c, "flush", "closing")

\* A listener, a hook, the system prompt or the key lookup throws.
Throws(c) ==
  /\ pc[c] \in {"emit", "request", "saved", "refresh", "ended"}
  /\ Count("error")
  /\ Fails(c, Items(todo[c]))
  /\ failedLate' = (failedLate \/ pc[c] = "ended")
  /\ UNCHANGED <<shared, pending, queue, session, outcome, context, aborted,
                 waits, cleared, tidy, serial>>

\* turn_end's listener threw before the flush.
Rethrows(c) ==
  /\ pc[c] = "rethrow"
  /\ Fails(c, {})
  /\ UNCHANGED <<shared, pending, queue, session, outcome, context, aborted,
                 waits, cleared, tidy, noted, count>>

\* A listener of queue_update throws: the messages go back to their array,
\* which abort() has replaced if they are orphaned.
PollThrows(c) ==
  /\ pc[c] \in {"polled", "orphaned"}
  /\ Count("error")
  /\ queue' = [queue EXCEPT ![next[c]] =
                  IF pc[c] = "polled" THEN todo[c] \o @ ELSE @]
  /\ Fails(c, IF pc[c] = "polled" THEN {} ELSE Items(todo[c]))
  /\ UNCHANGED <<shared, pending, session, outcome, context, aborted,
                 waits, cleared, tidy, noted>>

-----------------------------------------------------------------------------
(* Session writes *)

Shifted(s) == IF s = <<>> THEN s ELSE Tail(s)

Write(c) ==
  /\ pc[c] \in Writing
  /\ session' = Append(session, Head(todo[c]))
  /\ Holds(c, Tail(todo[c]))
  /\ \/ /\ pc[c] = "emitting" /\ At(c, "emit")
        /\ context' = [context EXCEPT ![c] = Append(@, Head(todo[c]))]
        /\ UNCHANGED pending
     \/ /\ pc[c] = "flushing" /\ At(c, "flush")
        /\ pending' = Shifted(pending)
        /\ UNCHANGED context
     \/ /\ pc[c] = "appending" /\ At(c, "idle")
        /\ UNCHANGED <<pending, context>>
     \/ /\ pc[c] = "reshaping" /\ At(c, "reshape")
        /\ UNCHANGED <<pending, context>>
  /\ within' = [within EXCEPT ![c] = IF pc[c] = "appending" THEN NoOne ELSE @]
  /\ UNCHANGED <<shared, queue, next, mode, outcome, aborted, waitsFor, items,
                 history, count>>

EmitFails(c) ==
  /\ pc[c] = "emitting"
  /\ Count("error")
  /\ Fails(c, Items(todo[c]))
  /\ UNCHANGED <<shared, pending, queue, session, outcome, context, aborted,
                 waits, cleared, tidy, noted>>

FailsLate(c) ==
  failedLate' = (failedLate \/ (next[c] = "closing" /\ mode[c] # "throwing"))

FlushFailsShifted(c) ==
  /\ pc[c] = "flushing"
  /\ Count("error")
  /\ pending' = Shifted(pending)
  /\ tidy' = FALSE
  /\ IF next[c] = "closing"
       THEN /\ mode' = [mode EXCEPT ![c] = "throwing"]
            /\ Holds(c, <<>>)
            /\ At(c, "closing")
            /\ UNCHANGED <<next, dropped, items>>
       ELSE Fails(c, {})
  /\ FailsLate(c)
  /\ UNCHANGED <<shared, queue, session, outcome, context, aborted,
                 waits, cleared, serial>>

\* The write stays first in pendingSessionWrites.
FlushFails(c) ==
  /\ pc[c] = "flushing"
  /\ Count("error")
  /\ tidy' = FALSE
  /\ IF next[c] = "closing"
       THEN /\ mode' = [mode EXCEPT ![c] = "throwing"]
            /\ Holds(c, <<>>)
            /\ At(c, "closing")
            /\ UNCHANGED <<next, dropped, items>>
       ELSE Fails(c, {})
  /\ FailsLate(c)
  /\ UNCHANGED <<shared, pending, queue, session, outcome, context, aborted,
                 waits, cleared, serial>>

AppendFails(c) ==
  /\ pc[c] = "appending"
  /\ Count("error")
  /\ dropped' = dropped \union Items(todo[c])
  /\ Holds(c, <<>>) /\ At(c, "idle") /\ Freed(c)
  /\ UNCHANGED <<shared, pending, queue, session, next, run, waitsFor, items,
                 cleared, tidy, noted>>

-----------------------------------------------------------------------------
(* Calls of others *)

\* appendMessage, setModel, setThinkingLevel, setTools, setActiveTools
AppendItem(c) ==
  /\ pc[c] = "idle" /\ Count("call")
  /\ items' = items + 1
  /\ \/ /\ phase = "idle"
        /\ FromAnywhere(c) /\ NotesHeard(c)
        /\ At(c, "appending") /\ Holds(c, <<items + 1>>)
        /\ UNCHANGED pending
     \/ /\ phase # "idle"
        /\ pending' = Append(pending, items + 1)
        /\ UNCHANGED <<pc, todo, within, serial>>
  /\ UNCHANGED <<shared, queue, session, next, run, waitsFor, cleared,
                 dropped, tidy, failedLate>>

\* steer and followUp are refused when idle, nextTurn never is.
Enqueue(c) ==
  /\ pc[c] = "idle" /\ Count("call")
  /\ items' = items + 1
  /\ \E q \in Queues :
       /\ phase = "idle" => q = "nextTurn"
       /\ queue' = [queue EXCEPT ![q] = Append(@, items + 1)]
  /\ UNCHANGED <<shared, pending, session, pc, next, run, todo, waits,
                 history>>

\* abort() replaces both queues, whatever was taken out of them before.
Abort(c) ==
  /\ pc[c] = "idle" /\ Count("call") /\ FromAnywhere(c)
  /\ cleared' = cleared \union Items(queue["steer"]) \union
                Items(queue["followUp"])
  /\ queue' = [queue EXCEPT !["steer"] = <<>>, !["followUp"] = <<>>]
  /\ aborted' = aborted \union ({controller} \ {NoOne})
  /\ pc' = [d \in Callers |-> IF d = c THEN "aborting"
                              ELSE IF pc[d] = "polled" THEN "orphaned"
                              ELSE pc[d]]
  /\ UNCHANGED <<shared, pending, session, next, mode, outcome, context, todo,
                 waitsFor, items, dropped, tidy, noted>>

\* The promise is the one of the run there is by now.
Joins(c) ==
  /\ waitsFor' = [waitsFor EXCEPT ![c] = runPromise]
  /\ At(c, "waiting")
  /\ UNCHANGED <<shared, pending, queue, session, next, run, todo, items,
                 history>>

\* abort() waits when queue_update has been heard; others may just wait.
AbortWaits(c) ==
  /\ pc[c] = "aborting" /\ Joins(c)
  /\ UNCHANGED <<within, count>>

WaitForIdle(c) ==
  /\ pc[c] = "idle" /\ FromAnywhere(c) /\ Count("call")
  /\ Joins(c)

AbortReturns(c) ==
  /\ pc[c] = "waiting" /\ waitsFor[c] = NoOne
  /\ At(c, "idle") /\ Freed(c)
  /\ UNCHANGED <<shared, pending, queue, session, next, run, todo, waitsFor,
                 items, history, count>>

\* compact appends a compaction; navigateTree a leaf and perhaps a summary.
Reshape(c) ==
  /\ pc[c] = "idle" /\ phase = "idle"
  /\ FromAnywhere(c) /\ NotesAlone(c)
  /\ Count("call")
  /\ \/ phase' = "compaction" /\ items' = items + 1
     \/ phase' = "branch_summary" /\ items' \in {items + 1, items + 2}
  /\ Holds(c, [i \in 1..(items' - items) |-> items + i])
  /\ At(c, "reshape")
  /\ UNCHANGED <<runPromise, controller, pending, queue, session, next, run,
                 waitsFor, cleared, dropped, tidy, failedLate>>

ReshapeWrite(c) ==
  /\ pc[c] = "reshape" /\ todo[c] # <<>>
  /\ Moves(c, "reshaping")

\* The end, by success, a cancelling hook or an error: the phase is reset
\* and nothing is flushed.
ReshapeEnd(c) ==
  /\ Reshaping(c)
  /\ \/ pc[c] = "reshape" /\ UNCHANGED count
     \/ pc[c] = "reshaping" /\ Count("error")
  /\ phase' = "idle"
  /\ dropped' = dropped \union Items(todo[c])
  /\ Holds(c, <<>>) /\ At(c, "idle") /\ Freed(c)
  /\ tidy' = (tidy /\ pending = <<>>)
  /\ UNCHANGED <<runPromise, controller, pending, queue, session, next, run,
                 waitsFor, items, cleared, noted>>

-----------------------------------------------------------------------------
\* What a run does by itself.
Progress(c) ==
  \/ Snapshot(c) \/ QueueTold(c) \/ Launch(c)
  \/ Emit(c) \/ Emitted(c) \/ Poll(c) \/ PollMore(c) \/ Polled(c)
  \/ Answer(c)
  \/ TurnEnd(c) \/ FlushWrite(c) \/ Flushed(c) \/ AfterSave(c) \/ Refresh(c)
  \/ AgentEnd(c) \/ Ended(c) \/ Closing(c) \/ Return(c)
  \/ Rethrows(c) \/ Write(c)
  \/ AbortWaits(c) \/ AbortReturns(c)
  \/ ReshapeWrite(c) \/ ReshapeEnd(c)

Error(c) ==
  \/ EarlyError(c) \/ PollThrows(c) \/ Throws(c)
  \/ EmitFails(c) \/ FlushFails(c) \/ AppendFails(c)

Call(c) ==
  \/ Prompt(c) \/ AppendItem(c) \/ Enqueue(c) \/ Abort(c) \/ Reshape(c)
  \/ WaitForIdle(c)

\* Who awaits listeners goes on when their calls have returned.
Next ==
  \E c \in Callers :
    \/ ~Awaits(c) /\ (Progress(c) \/ Error(c))
    \/ Call(c)

Spec == Init /\ [][Next]_vars

\* Awaits end: the provider, the listeners and the file system answer.
FairSpec == Spec /\ \A c \in Callers : WF_vars(~Awaits(c) /\ Progress(c))

-----------------------------------------------------------------------------
(* Properties *)

\* No session write starts before the one before it has ended, as with the
\* write lock that agent/docs/agent-harness.md names.  The harness has no such
\* lock: it writes at once whenever the phase is "idle" (appendMessage and the
\* setters against flushPendingSessionWrites and message_end).
OneWriteAtATime ==
  \A c, d \in Callers : pc[c] \in Writing /\ pc[d] \in Writing => c = d

\* What the model is sent is what the session holds: nothing is sent that
\* was not persisted, nothing persisted is missing (createTurnState,
\* prepareNextTurn).  Of callers who begin nothing while others are at work: a
\* direct write that a run overtakes is missing in its context.
ContextIsPersisted ==
  serial => \A c \in Callers : pc[c] = "request" => context[c] = session

\* Where an item is.
InHand(c) == IF pc[c] = "flushing" THEN <<>> ELSE todo[c]

PlacesOf(i) ==
  {p \in {<<"pending", k>> : k \in 1..Len(pending)} : pending[p[2]] = i}
    \union (UNION {{<<q, k>> : k \in {j \in 1..Len(queue[q]) :
                                        queue[q][j] = i}} : q \in Queues})
    \union (UNION {{<<c, k>> : k \in {j \in 1..Len(InHand(c)) :
                                        InHand(c)[j] = i}} : c \in Callers})
    \union {<<"session", k>> : k \in {j \in 1..Len(session) :
                                        session[j] = i}}
    \union {<<"cleared", 0>> : x \in {i} \intersect cleared}
    \union {<<"dropped", 0>> : x \in {i} \intersect dropped}

\* Every item is in one place: once in the session, or waiting to be written or
\* taken, on its way there, returned by abort(), or given up with an error
\* (flushPendingSessionWrites, drainQueuedMessages, abort).  Of such callers
\* too: two runs that flush together write the first pending item twice.
WrittenOnce == serial => \A i \in 1..items : Cardinality(PlacesOf(i)) = 1

\* While a run is under way the harness is busy, and nothing else that needs
\* it idle is: compact(), navigateTree() and other runs are refused, whoever
\* calls and whenever, from listeners of agent_end and settled too (prompt,
\* handleAgentEvent).  A run that fails after it declared the harness idle is
\* excepted: it takes the phase from the run that has begun meanwhile.
BusyWhileRunning ==
  ~failedLate =>
    \A c \in Callers :
      /\ InTurn(c) => phase = "turn"
      /\ Reshaping(c) => phase \in {"compaction", "branch_summary"}
      /\ InTurn(c) \/ Reshaping(c) =>
           \A d \in Callers \ {c} : ~InTurn(d) /\ ~Reshaping(d)

\* When no call is in progress no write waits, although writes may be queued
\* between the last flush of a run and the moment it declares itself idle
\* (executeTurn's last flush).
QuietMeansFlushed ==
  tidy /\ (\A c \in Callers : ~Running(c)) /\ phase = "idle" => pending = <<>>

\* Callers each of whom awaits another: a run its listener, a caller of
\* waitForIdle a run.
InACircle ==
  \E S \in SUBSET Callers \ {{}} :
    \A c \in S : \E d \in S : within[d] = c \/ waitsFor[c] = d

\* waitForIdle, and so abort, comes back, although runs wait for listeners
\* and listeners for runs; but not when a listener waits for the run that
\* awaits it, which agent/docs/agent-harness.md warns of (abort, waitForIdle).
WaitsEnd ==
  \A c \in Callers : pc[c] = "waiting" ~> pc[c] = "idle" \/ InACircle
=============================================================================
