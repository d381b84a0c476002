------------------------- MODULE AgentHarnessProofs -------------------------
(***************************************************************************)
(* What holds of the harness for any number of callers, calls, errors and  *)
(* failed writes.                                                          *)
(*                                                                         *)
(* The argument: Control says where a caller may go from where it is.      *)
(* PhaseInv says that one caller at most holds the phase: a run until it   *)
(* declares the harness idle, a reshaping until its end.  Exclusive says   *)
(* that as long as callers begin alone, of the calls that touch the        *)
(* session only a run that awaits its listeners and one of these, writing, *)
(* can be in progress together; the contexts follow.  ItemInv says that    *)
(* every item has one home: two flushes at a time would write what is      *)
(* pending twice, so it needs Exclusive.                                   *)
(***************************************************************************)
EXTENDS AgentHarness, FiniteSetTheorems, SequenceTheorems, TLAPS

Places ==
  {"idle", "snapshot", "queued", "hook", "emit", "emitting", "poll",
   "polled", "orphaned", "request", "turnEnd", "flush", "flushing",
   "saved", "rethrow", "refresh", "pollMore", "agentEnd", "ended",
   "closing", "returning", "appending", "reshape", "reshaping",
   "aborting", "waiting"}
Targets ==
  {"idle", "poll", "request", "turnEnd", "saved", "rethrow", "refresh",
   "agentEnd", "closing", "steer", "followUp", "nextTurn"}
Modes == {"loop", "failure", "throwing"}

\* Where a caller can be and what comes after its messages and flushes.
Control ==
  /\ pc \in [Callers -> Places]
  /\ mode \in [Callers -> Modes]
  /\ next \in [Callers -> Targets]
  /\ within \in [Callers -> Callers \union {NoOne}]
  /\ \A c \in Callers :
       /\ pc[c] \in {"emit", "emitting"} =>
            next[c] \in {"poll", "request", "turnEnd"}
       /\ pc[c] \in {"flush", "flushing"} =>
            next[c] \in {"saved", "rethrow", "refresh", "agentEnd", "closing"}
       /\ mode[c] # "loop" =>
            /\ pc[c] \in {"emit", "emitting", "turnEnd", "flush", "flushing",
                          "saved", "rethrow", "agentEnd", "ended", "closing",
                          "returning"}
            /\ pc[c] \in {"emit", "emitting"} => next[c] = "turnEnd"
            /\ pc[c] \in {"flush", "flushing"} => next[c] # "refresh"
       /\ mode[c] = "throwing" =>
            /\ pc[c] \in {"flush", "flushing", "closing", "returning"}
            /\ pc[c] \in {"flush", "flushing"} => next[c] = "closing"

\* Every step keeps Control.
LEMMA ControlStep ==
  ASSUME Control, [Next]_vars
  PROVE  Control'
<1>1. CASE UNCHANGED vars
  BY <1>1 DEF Control, Places, Modes, Targets, vars, shared, run, history,
     waits, noted, rest, Moves, MovesOn
<1>2. ASSUME NEW c \in Callers, Progress(c) \/ Error(c) \/ Call(c)
      PROVE  Control'
  <2>1. CASE Prompt(c)
    BY <2>1 DEF Control, Places, Modes, Targets, Prompt, FromAnywhere, At,
       Holds, Count, shared, run, history, waits, noted, rest, Moves, MovesOn
  <2>2. CASE Snapshot(c)
    BY <2>2 DEF Control, Places, Modes, Targets, Snapshot, At, Holds, shared,
       run, history, waits, noted, rest, Moves, MovesOn
  <2>3. CASE QueueTold(c)
    BY <2>3 DEF Control, Places, Modes, Targets, QueueTold, At, Holds, shared,
       run, history, waits, noted, rest, Moves, MovesOn
  <2>4. CASE Launch(c)
    BY <2>4 DEF Control, Places, Modes, Targets, Launch, At, Holds, Goes,
       shared, run, history, waits, noted, rest, Moves, MovesOn
  <2>5. CASE EarlyError(c)
    BY <2>5 DEF Control, Places, Modes, Targets, EarlyError, At, Holds, Count,
       shared, run, history, waits, noted, rest, Moves, MovesOn
  <2>6. CASE Emit(c)
    BY <2>6 DEF Control, Places, Modes, Targets, Emit, At, Holds, shared, run,
       history, waits, noted, rest, Moves, MovesOn
  <2>7. CASE Emitted(c)
    BY <2>7 DEF Control, Places, Modes, Targets, Emitted, At, Holds, shared,
       run, history, waits, noted, rest, Moves, MovesOn
  <2>8. CASE Poll(c)
    BY <2>8 DEF Control, Places, Modes, Targets, Poll, At, Holds, Drain, Goes,
       Queues, shared, run, history, waits, noted, rest, Moves, MovesOn
  <2>9. CASE PollMore(c)
    BY <2>9 DEF Control, Places, Modes, Targets, PollMore, At, Holds, Drain,
       Goes, Queues, shared, run, history, waits, noted, rest, Moves, MovesOn
  <2>10. CASE Polled(c)
    BY <2>10 DEF Control, Places, Modes, Targets, Polled, At, Holds, Goes,
       shared, run, history, waits, noted, rest, Moves, MovesOn
  <2>11. CASE PollThrows(c)
    BY <2>11 DEF Control, Places, Modes, Targets, PollThrows, At, Holds, Count,
       Fails, Goes, shared, run, history, waits, noted, rest, Moves, MovesOn
  <2>12. CASE Answer(c)
    BY <2>12 DEF Control, Places, Modes, Targets, Answer, At, Holds, Count,
       Goes, shared, run, history, waits, noted, rest, Moves, MovesOn
  <2>13. CASE TurnEnd(c)
    BY <2>13 DEF Control, Places, Modes, Targets, TurnEnd, At, Holds, Count,
       Goes, shared, run, history, waits, noted, rest, Moves, MovesOn
  <2>14. CASE FlushWrite(c)
    BY <2>14 DEF Control, Places, Modes, Targets, FlushWrite, At, Holds,
       shared, run, history, waits, noted, rest, Moves, MovesOn
  <2>15. CASE Flushed(c)
    BY <2>15 DEF Control, Places, Modes, Targets, Flushed, At, Holds, shared,
       run, history, waits, noted, rest, Moves, MovesOn
  <2>16. CASE AfterSave(c)
    <3>1. /\ pc' = [pc EXCEPT ![c] = "flush"] /\ mode' = mode
          /\ pc[c] = "saved" /\ within' = within
      BY <2>16 DEF AfterSave, Goes, MovesOn, rest, At, run, waits
    <3>2. \E t \in {"agentEnd", "refresh"} :
            /\ next' = [next EXCEPT ![c] = t]
            /\ mode[c] # "loop" => t = "agentEnd"
      <4>1. CASE EndsRun(c)
        BY <2>16, <4>1 DEF AfterSave, Goes, Moves, MovesOn, rest
      <4>2. CASE ~EndsRun(c)
        BY <2>16, <4>2 DEF AfterSave, Goes, Moves, MovesOn, rest, EndsRun,
           Control, Modes
      <4>. QED  BY <4>1, <4>2
    <3>. QED  BY <3>1, <3>2 DEF Control, Places, Modes, Targets
  <2>17. CASE Refresh(c)
    BY <2>17 DEF Control, Places, Modes, Targets, Refresh, At, Holds, shared,
       run, history, waits, noted, rest, Moves, MovesOn
  <2>18. CASE AgentEnd(c)
    BY <2>18 DEF Control, Places, Modes, Targets, AgentEnd, At, Holds, shared,
       run, history, waits, noted, rest, Moves, MovesOn
  <2>19. CASE Ended(c)
    BY <2>19 DEF Control, Places, Modes, Targets, Ended, At, Holds, Goes,
       shared, run, history, waits, noted, rest, Moves, MovesOn
  <2>20. CASE Closing(c)
    BY <2>20 DEF Control, Places, Modes, Targets, Closing, At, Holds, shared,
       run, history, waits, noted, rest, Moves, MovesOn
  <2>21. CASE Return(c)
    BY <2>21 DEF Control, Places, Modes, Targets, Return, Freed, Goes, At,
       Holds, shared, run, history, waits, noted, rest, Moves, MovesOn
  <2>22. CASE Throws(c)
    BY <2>22 DEF Control, Places, Modes, Targets, Throws, At, Holds, Count,
       Fails, Goes, shared, run, history, waits, noted, rest, Moves, MovesOn
  <2>23. CASE Rethrows(c)
    BY <2>23 DEF Control, Places, Modes, Targets, Rethrows, At, Holds, Fails,
       Goes, shared, run, history, waits, noted, rest, Moves, MovesOn
  <2>24. CASE Write(c)
    BY <2>24 DEF Control, Places, Modes, Targets, Write, At, Holds, Writing,
       shared, run, history, waits, noted, rest, Moves, MovesOn
  <2>25. CASE EmitFails(c)
    BY <2>25 DEF Control, Places, Modes, Targets, EmitFails, At, Holds, Count,
       Fails, Goes, shared, run, history, waits, noted, rest, Moves, MovesOn
  <2>26. CASE FlushFails(c)
    BY <2>26 DEF Control, Places, Modes, Targets, FlushFails, FailsLate, At,
       Holds, Count, Fails, Goes, shared, run, history, waits, noted, rest,
       Moves, MovesOn
  <2>27. CASE AppendFails(c)
    BY <2>27 DEF Control, Places, Modes, Targets, AppendFails, Freed, At,
       Holds, Count, shared, run, history, waits, noted, rest, Moves, MovesOn
  <2>28. CASE AppendItem(c)
    BY <2>28 DEF Control, Places, Modes, Targets, AppendItem, FromAnywhere, At,
       Holds, Count, shared, run, history, waits, noted, rest, Moves, MovesOn
  <2>29. CASE Enqueue(c)
    BY <2>29 DEF Control, Places, Modes, Targets, Enqueue, At, Holds, Count,
       shared, run, history, waits, noted, rest, Moves, MovesOn
  <2>30. CASE Abort(c)
    BY <2>30 DEF Control, Places, Modes, Targets, Abort, FromAnywhere, At,
       Holds, Count, shared, run, history, waits, noted, rest, Moves, MovesOn
  <2>31. CASE WaitForIdle(c)
    BY <2>31 DEF Control, Places, Modes, Targets, WaitForIdle, Joins,
       FromAnywhere, Count, At, Holds, shared, run, history, waits, noted,
       rest, Moves, MovesOn
  <2>36. CASE AbortWaits(c)
    BY <2>36 DEF Control, Places, Modes, Targets, AbortWaits, Joins, At, Holds,
       shared, run, history, waits, noted, rest, Moves, MovesOn
  <2>32. CASE AbortReturns(c)
    BY <2>32 DEF Control, Places, Modes, Targets, AbortReturns, Freed, At,
       Holds, shared, run, history, waits, noted, rest, Moves, MovesOn
  <2>33. CASE Reshape(c)
    BY <2>33 DEF Control, Places, Modes, Targets, Reshape, FromAnywhere, At,
       Holds, Count, shared, run, history, waits, noted, rest, Moves, MovesOn
  <2>34. CASE ReshapeWrite(c)
    BY <2>34 DEF Control, Places, Modes, Targets, ReshapeWrite, At, Holds,
       shared, run, history, waits, noted, rest, Moves, MovesOn
  <2>35. CASE ReshapeEnd(c)
    BY <2>35 DEF Control, Places, Modes, Targets, ReshapeEnd, Freed, At, Holds,
       Count, Reshaping, shared, run, history, waits, noted, rest, Moves,
       MovesOn
  <2>. QED
    BY <1>2, <2>1, <2>2, <2>3, <2>4, <2>5, <2>6, <2>7, <2>8, <2>9, <2>10,
       <2>11, <2>12, <2>13, <2>14, <2>15, <2>16, <2>17, <2>18, <2>19, <2>20,
       <2>21, <2>22, <2>23, <2>24, <2>25, <2>26, <2>27, <2>28, <2>29, <2>30,
       <2>31, <2>32, <2>33, <2>34, <2>35, <2>36 DEF Progress, Error, Call
<1>. QED  BY <1>1, <1>2 DEF Next

\* Control holds at the start.
LEMMA ControlInit == ASSUME Init PROVE Control
BY DEF Init, Control, Places, Modes, Targets

\* Whatever the callers do, a caller is where its call, its mode and what it
\* has to do next allow (prompt, executeTurn, handleAgentEvent).
THEOREM ControlHolds == Spec => []Control
<1>1. Init => Control
  BY ControlInit
<1>2. Control /\ [Next]_vars => Control'
  BY ControlStep
<1>. QED  BY <1>1, <1>2, PTL DEF Spec

-----------------------------------------------------------------------------
(* Callers who begin alone *)

\* The call may touch the session or the phase.
Active(c) == pc[c] \notin {"idle", "aborting", "waiting"}

Exclusive ==
  \A c, d \in Callers :
    c # d /\ Active(c) /\ Active(d) =>
      \/ pc[c] = "ended" /\ pc[d] = "appending" /\ within[d] = c
      \/ pc[d] = "ended" /\ pc[c] = "appending" /\ within[c] = d

\* A caller that is in the harness alone goes on.
LEMMA AloneGoesOn ==
  ASSUME Control, Exclusive, NEW c \in Callers,
         \A d \in Callers \ {c} : ~Active(d),
         \A d \in Callers \ {c} : pc'[d] = pc[d]
  PROVE  Exclusive'
BY DEF Exclusive, Active

\* As long as callers begin alone every step keeps Exclusive.
LEMMA ExclusiveStep ==
  ASSUME serial', Control, Control', Exclusive, [Next]_vars
  PROVE  Exclusive'
<1>1. CASE UNCHANGED vars
  BY <1>1 DEF Control, Places, Targets, Exclusive, Active, vars, shared, run,
     history, waits, noted, rest, Moves, MovesOn
<1>2. ASSUME NEW c \in Callers,
             \/ ~Awaits(c) /\ (Progress(c) \/ Error(c))
             \/ Call(c)
      PROVE  Exclusive'
  <2>0. Ended(c) \/ Throws(c) => \A d \in Callers : within[d] # c
    BY <1>2 DEF Ended, Throws, Call, Prompt, AppendItem, Enqueue, Abort,
       Reshape, WaitForIdle, Awaits
  <2>1. CASE Prompt(c)
    <3>1. \A d \in Callers \ {c} : ~Active(d)
      BY <2>1 DEF Prompt, NotesAlone, Passive, Active
    <3>2. \A d \in Callers \ {c} : pc'[d] = pc[d]
      BY <2>1 DEF Prompt, At, Control
    <3>. QED  BY <3>1, <3>2, AloneGoesOn
  <2>2. CASE Snapshot(c)
    BY <2>2 DEF Control, Places, Targets, Exclusive, Active, Snapshot, At,
       Holds, shared, run, history, waits, noted, rest, Moves, MovesOn
  <2>3. CASE QueueTold(c)
    BY <2>3 DEF Control, Places, Targets, Exclusive, Active, QueueTold, At,
       Holds, shared, run, history, waits, noted, rest, Moves, MovesOn
  <2>4. CASE Launch(c)
    BY <2>4 DEF Control, Places, Targets, Exclusive, Active, Launch, At, Holds,
       Goes, shared, run, history, waits, noted, rest, Moves, MovesOn
  <2>5. CASE EarlyError(c)
    BY <2>5 DEF Control, Places, Targets, Exclusive, Active, EarlyError, At,
       Holds, Count, shared, run, history, waits, noted, rest, Moves, MovesOn
  <2>6. CASE Emit(c)
    BY <2>6 DEF Control, Places, Targets, Exclusive, Active, Emit, At, Holds,
       shared, run, history, waits, noted, rest, Moves, MovesOn
  <2>7. CASE Emitted(c)
    BY <2>7 DEF Control, Places, Targets, Exclusive, Active, Emitted, At,
       Holds, shared, run, history, waits, noted, rest, Moves, MovesOn
  <2>8. CASE Poll(c)
    <3>1. \A d \in Callers \ {c} : ~Active(d)
      BY <2>8 DEF Poll, Exclusive, Active
    <3>2. \A d \in Callers \ {c} : pc'[d] = pc[d]
      BY <2>8 DEF Poll, Drain, Goes, Moves, At, Control
    <3>. QED  BY <3>1, <3>2, AloneGoesOn
  <2>9. CASE PollMore(c)
    <3>1. \A d \in Callers \ {c} : ~Active(d)
      BY <2>9 DEF PollMore, Exclusive, Active
    <3>2. \A d \in Callers \ {c} : pc'[d] = pc[d]
      BY <2>9 DEF PollMore, Drain, Goes, MovesOn, At, Control
    <3>. QED  BY <3>1, <3>2, AloneGoesOn
  <2>10. CASE Polled(c)
    BY <2>10 DEF Control, Places, Targets, Exclusive, Active, Polled, At,
       Holds, Goes, shared, run, history, waits, noted, rest, Moves, MovesOn
  <2>11. CASE PollThrows(c)
    BY <2>11 DEF Control, Places, Targets, Exclusive, Active, PollThrows, At,
       Holds, Count, Fails, Goes, shared, run, history, waits, noted, rest,
       Moves, MovesOn
  <2>12. CASE Answer(c)
    BY <2>12 DEF Control, Places, Targets, Exclusive, Active, Answer, At,
       Holds, Count, Goes, shared, run, history, waits, noted, rest, Moves,
       MovesOn
  <2>13. CASE TurnEnd(c)
    BY <2>13 DEF Control, Places, Targets, Exclusive, Active, TurnEnd, At,
       Holds, Count, Goes, shared, run, history, waits, noted, rest, Moves,
       MovesOn
  <2>14. CASE FlushWrite(c)
    BY <2>14 DEF Control, Places, Targets, Exclusive, Active, FlushWrite, At,
       Holds, shared, run, history, waits, noted, rest, Moves, MovesOn
  <2>15. CASE Flushed(c)
    BY <2>15 DEF Control, Places, Targets, Exclusive, Active, Flushed, At,
       Holds, shared, run, history, waits, noted, rest, Moves, MovesOn
  <2>16. CASE AfterSave(c)
    BY <2>16 DEF Control, Places, Targets, Exclusive, Active, AfterSave, At,
       Holds, Goes, EndsRun, shared, run, history, waits, noted, rest, Moves,
       MovesOn
  <2>17. CASE Refresh(c)
    BY <2>17 DEF Control, Places, Targets, Exclusive, Active, Refresh, At,
       Holds, shared, run, history, waits, noted, rest, Moves, MovesOn
  <2>18. CASE AgentEnd(c)
    BY <2>18 DEF Control, Places, Targets, Exclusive, Active, AgentEnd, At,
       Holds, shared, run, history, waits, noted, rest, Moves, MovesOn
  <2>19. CASE Ended(c)
    <3>1. \A d \in Callers \ {c} : ~Active(d)
      BY <2>0, <2>19 DEF Ended, Exclusive, Active
    <3>2. \A d \in Callers \ {c} : pc'[d] = pc[d]
      BY <2>19 DEF Ended, MovesOn, Goes, At, Control
    <3>. QED  BY <3>1, <3>2, AloneGoesOn
  <2>20. CASE Closing(c)
    BY <2>20 DEF Control, Places, Targets, Exclusive, Active, Closing, At,
       Holds, shared, run, history, waits, noted, rest, Moves, MovesOn
  <2>21. CASE Return(c)
    BY <2>21 DEF Control, Places, Targets, Exclusive, Active, Return, Freed,
       Goes, At, Holds, shared, run, history, waits, noted, rest, Moves,
       MovesOn
  <2>22. CASE Throws(c)
    <3>1. \A d \in Callers \ {c} : ~Active(d)
      BY <2>0, <2>22 DEF Throws, Exclusive, Active
    <3>2. \A d \in Callers \ {c} : pc'[d] = pc[d]
      BY <2>22 DEF Throws, Fails, Goes, At, Control
    <3>. QED  BY <3>1, <3>2, AloneGoesOn
  <2>23. CASE Rethrows(c)
    BY <2>23 DEF Control, Places, Targets, Exclusive, Active, Rethrows, At,
       Holds, Fails, Goes, shared, run, history, waits, noted, rest, Moves,
       MovesOn
  <2>24. CASE Write(c)
    BY <2>24 DEF Control, Places, Targets, Exclusive, Active, Write, At, Holds,
       Writing, shared, run, history, waits, noted, rest, Moves, MovesOn
  <2>25. CASE EmitFails(c)
    BY <2>25 DEF Control, Places, Targets, Exclusive, Active, EmitFails, At,
       Holds, Count, Fails, Goes, shared, run, history, waits, noted, rest,
       Moves, MovesOn
  <2>26. CASE FlushFails(c)
    BY <2>26 DEF Control, Places, Targets, Exclusive, Active, FlushFails, At,
       Holds, Count, Fails, Goes, shared, run, history, waits, noted, rest,
       Moves, MovesOn
  <2>27. CASE AppendFails(c)
    BY <2>27 DEF Control, Places, Targets, Exclusive, Active, AppendFails,
       Freed, At, Holds, Count, shared, run, history, waits, noted, rest,
       Moves, MovesOn
  <2>28. CASE AppendItem(c)
    <3>1. CASE phase = "idle"
      <4>1. \A d \in Callers \ {c} :
              Active(d) => pc[d] = "ended" /\ within'[c] = d
        BY <2>28, <3>1 DEF AppendItem, NotesHeard, Passive, Active
      <4>2. /\ pc' = [pc EXCEPT ![c] = "appending"]
            /\ \A d \in Callers \ {c} : within'[d] = within[d]
        BY <2>28, <3>1 DEF AppendItem, At, FromAnywhere, Control
      <4>3. \A d, e \in Callers \ {c} : Active(d) /\ Active(e) => d = e
        BY <4>1
      <4>. QED  BY <4>1, <4>2, <4>3 DEF Exclusive, Active, Control
    <3>2. CASE phase # "idle"
      BY <2>28, <3>2 DEF AppendItem, Exclusive, Active
    <3>. QED  BY <3>1, <3>2
  <2>29. CASE Enqueue(c)
    BY <2>29 DEF Control, Places, Targets, Exclusive, Active, Enqueue, At,
       Holds, Count, shared, run, history, waits, noted, rest, Moves, MovesOn
  <2>30. CASE Abort(c)
    BY <2>30 DEF Control, Places, Targets, Exclusive, Active, Abort,
       FromAnywhere, At, Holds, Count, shared, run, history, waits, noted,
       rest, Moves, MovesOn
  <2>31. CASE WaitForIdle(c)
    BY <2>31 DEF Control, Places, Targets, Exclusive, Active, WaitForIdle,
       Joins, FromAnywhere, Count, At, Holds, shared, run, history, waits,
       noted, rest, Moves, MovesOn
  <2>36. CASE AbortWaits(c)
    BY <2>36 DEF Control, Places, Targets, Exclusive, Active, AbortWaits,
       Joins, At, Holds, shared, run, history, waits, noted, rest, Moves,
       MovesOn
  <2>32. CASE AbortReturns(c)
    BY <2>32 DEF Control, Places, Targets, Exclusive, Active, AbortReturns,
       Freed, At, Holds, shared, run, history, waits, noted, rest, Moves,
       MovesOn
  <2>33. CASE Reshape(c)
    <3>1. \A d \in Callers \ {c} : ~Active(d)
      BY <2>33 DEF Reshape, NotesAlone, Passive, Active
    <3>2. \A d \in Callers \ {c} : pc'[d] = pc[d]
      BY <2>33 DEF Reshape, At, Control
    <3>. QED  BY <3>1, <3>2, AloneGoesOn
  <2>34. CASE ReshapeWrite(c)
    BY <2>34 DEF Control, Places, Targets, Exclusive, Active, ReshapeWrite, At,
       Holds, shared, run, history, waits, noted, rest, Moves, MovesOn
  <2>35. CASE ReshapeEnd(c)
    BY <2>35 DEF Control, Places, Targets, Exclusive, Active, ReshapeEnd,
       Freed, At, Holds, Count, Reshaping, shared, run, history, waits, noted,
       rest, Moves, MovesOn
  <2>. QED
    BY <1>2, <2>1, <2>2, <2>3, <2>4, <2>5, <2>6, <2>7, <2>8, <2>9, <2>10,
       <2>11, <2>12, <2>13, <2>14, <2>15, <2>16, <2>17, <2>18, <2>19, <2>20,
       <2>21, <2>22, <2>23, <2>24, <2>25, <2>26, <2>27, <2>28, <2>29, <2>30,
       <2>31, <2>32, <2>33, <2>34, <2>35, <2>36 DEF Progress, Error, Call
<1>. QED  BY <1>1, <1>2 DEF Next

\* Exclusive holds at the start.
LEMMA ExclusiveInit == ASSUME Init PROVE Exclusive
BY DEF Init, Exclusive, Active

\* No step makes up for callers who did not begin alone.
LEMMA SerialStays == ASSUME [Next]_vars, serial' PROVE serial
<1>1. CASE UNCHANGED vars
  BY <1>1 DEF vars, history, noted
<1>2. ASSUME NEW c \in Callers, Call(c)
      PROVE  serial
  BY <1>2 DEF Call, Prompt, AppendItem, Enqueue, Abort, Reshape, WaitForIdle,
     Joins, NotesAlone, NotesHeard, history, noted
<1>3. ASSUME NEW c \in Callers, Error(c)
      PROVE  serial
  BY <1>3 DEF Error, EarlyError, PollThrows, Throws, EmitFails, FlushFails,
     FailsLate, AppendFails, history, noted
<1>4. ASSUME NEW c \in Callers, Progress(c)
      PROVE  serial
  <2>1. ASSUME \/ Snapshot(c) \/ QueueTold(c) \/ Launch(c) \/ Emit(c)
               \/ Emitted(c) \/ Poll(c) \/ PollMore(c) \/ Polled(c)
               \/ Answer(c) \/ TurnEnd(c) \/ FlushWrite(c) \/ Flushed(c)
        PROVE  UNCHANGED noted
    BY <2>1 DEF Snapshot, QueueTold, Launch, Emit, Emitted, Poll, PollMore,
       Drain, Polled, Answer, TurnEnd, FlushWrite, Flushed, Moves, MovesOn,
       rest, history
  <2>2. ASSUME \/ AfterSave(c) \/ Refresh(c) \/ AgentEnd(c) \/ Ended(c)
               \/ Closing(c) \/ Return(c) \/ Rethrows(c) \/ Write(c)
               \/ AbortWaits(c) \/ AbortReturns(c) \/ ReshapeWrite(c)
               \/ ReshapeEnd(c)
        PROVE  UNCHANGED noted
    BY <2>2 DEF AfterSave, Refresh, AgentEnd, Ended, Closing, Return, Rethrows,
       Write, AbortWaits, Joins, AbortReturns, ReshapeWrite, ReshapeEnd, Moves,
       MovesOn, rest, history
  <2>. QED  BY <1>4, <2>1, <2>2 DEF Progress, noted
<1>. QED  BY <1>1, <1>2, <1>3, <1>4 DEF Next

\* Callers who begin alone are never in the harness together, but for a
\* listener that writes while the run awaits it (handleAgentEvent).
THEOREM ExclusiveHolds == Spec => [](serial => Exclusive)
<1>1. Init => (serial => Exclusive)
  BY ExclusiveInit
<1>2. Control /\ Control' /\ (serial => Exclusive) /\ [Next]_vars
        => (serial => Exclusive)'
  BY ExclusiveStep, SerialStays
<1>. QED  BY <1>1, <1>2, ControlHolds, PTL DEF Spec

-----------------------------------------------------------------------------
(* The phase *)

\* A run that has declared the harness idle and not failed since.
Done(c) ==
  \/ pc[c] = "ended"
  \/ /\ pc[c] \in {"flush", "flushing"}
     /\ next[c] = "closing" /\ mode[c] # "throwing"
  \/ pc[c] \in {"closing", "returning"} /\ mode[c] # "throwing"

\* The caller holds the phase.
Holding(c) == Running(c) /\ ~Done(c)

PhaseInv ==
  \A c \in Callers :
    /\ Holding(c) => phase = "turn"
    /\ Reshaping(c) => phase \in {"compaction", "branch_summary"}
    /\ \A d \in Callers :
         (Holding(c) \/ Reshaping(c)) /\ (Holding(d) \/ Reshaping(d)) => c = d

\* Every step keeps PhaseInv, unless a run fails that is done.
LEMMA PhaseStep ==
  ASSUME ~failedLate', Control, Control', PhaseInv, [Next]_vars
  PROVE  PhaseInv'
<1>1. CASE UNCHANGED vars
  BY <1>1 DEF Control, Places, Targets, Modes, PhaseInv, Holding, Done,
     Running, Reshaping, vars, shared, run, history, waits, noted, rest, Moves,
     MovesOn
<1>2. ASSUME NEW c \in Callers, Progress(c) \/ Error(c) \/ Call(c)
      PROVE  PhaseInv'
  <2>1. CASE Prompt(c)
    BY <2>1 DEF Control, Places, Targets, Modes, PhaseInv, Holding, Done,
       Running, Reshaping, Prompt, FromAnywhere, At, Holds, Count, shared, run,
       history, waits, noted, rest, Moves, MovesOn
  <2>2. CASE Snapshot(c)
    BY <2>2 DEF Control, Places, Targets, Modes, PhaseInv, Holding, Done,
       Running, Reshaping, Snapshot, At, Holds, shared, run, history, waits,
       noted, rest, Moves, MovesOn
  <2>3. CASE QueueTold(c)
    BY <2>3 DEF Control, Places, Targets, Modes, PhaseInv, Holding, Done,
       Running, Reshaping, QueueTold, At, Holds, shared, run, history, waits,
       noted, rest, Moves, MovesOn
  <2>4. CASE Launch(c)
    BY <2>4 DEF Control, Places, Targets, Modes, PhaseInv, Holding, Done,
       Running, Reshaping, Launch, At, Holds, Goes, shared, run, history,
       waits, noted, rest, Moves, MovesOn
  <2>5. CASE EarlyError(c)
    BY <2>5 DEF Control, Places, Targets, Modes, PhaseInv, Holding, Done,
       Running, Reshaping, EarlyError, At, Holds, Count, shared, run, history,
       waits, noted, rest, Moves, MovesOn
  <2>6. CASE Emit(c)
    BY <2>6 DEF Control, Places, Targets, Modes, PhaseInv, Holding, Done,
       Running, Reshaping, Emit, At, Holds, shared, run, history, waits, noted,
       rest, Moves, MovesOn
  <2>7. CASE Emitted(c)
    BY <2>7 DEF Control, Places, Targets, Modes, PhaseInv, Holding, Done,
       Running, Reshaping, Emitted, At, Holds, shared, run, history, waits,
       noted, rest, Moves, MovesOn
  <2>8. CASE Poll(c)
    BY <2>8 DEF Control, Places, Targets, Modes, PhaseInv, Holding, Done,
       Running, Reshaping, Poll, At, Holds, Drain, Goes, Queues, shared, run,
       history, waits, noted, rest, Moves, MovesOn
  <2>9. CASE PollMore(c)
    BY <2>9 DEF Control, Places, Targets, Modes, PhaseInv, Holding, Done,
       Running, Reshaping, PollMore, At, Holds, Drain, Goes, Queues, shared,
       run, history, waits, noted, rest, Moves, MovesOn
  <2>10. CASE Polled(c)
    BY <2>10 DEF Control, Places, Targets, Modes, PhaseInv, Holding, Done,
       Running, Reshaping, Polled, At, Holds, Goes, shared, run, history,
       waits, noted, rest, Moves, MovesOn
  <2>11. CASE PollThrows(c)
    BY <2>11 DEF Control, Places, Targets, Modes, PhaseInv, Holding, Done,
       Running, Reshaping, PollThrows, At, Holds, Count, Fails, Goes, shared,
       run, history, waits, noted, rest, Moves, MovesOn
  <2>12. CASE Answer(c)
    BY <2>12 DEF Control, Places, Targets, Modes, PhaseInv, Holding, Done,
       Running, Reshaping, Answer, At, Holds, Count, Goes, shared, run,
       history, waits, noted, rest, Moves, MovesOn
  <2>13. CASE TurnEnd(c)
    BY <2>13 DEF Control, Places, Targets, Modes, PhaseInv, Holding, Done,
       Running, Reshaping, TurnEnd, At, Holds, Count, Goes, shared, run,
       history, waits, noted, rest, Moves, MovesOn
  <2>14. CASE FlushWrite(c)
    BY <2>14 DEF Control, Places, Targets, Modes, PhaseInv, Holding, Done,
       Running, Reshaping, FlushWrite, At, Holds, shared, run, history, waits,
       noted, rest, Moves, MovesOn
  <2>15. CASE Flushed(c)
    BY <2>15 DEF Control, Places, Targets, Modes, PhaseInv, Holding, Done,
       Running, Reshaping, Flushed, At, Holds, shared, run, history, waits,
       noted, rest, Moves, MovesOn
  <2>16. CASE AfterSave(c)
    BY <2>16 DEF Control, Places, Targets, Modes, PhaseInv, Holding, Done,
       Running, Reshaping, AfterSave, At, Holds, Goes, EndsRun, shared, run,
       history, waits, noted, rest, Moves, MovesOn
  <2>17. CASE Refresh(c)
    BY <2>17 DEF Control, Places, Targets, Modes, PhaseInv, Holding, Done,
       Running, Reshaping, Refresh, At, Holds, shared, run, history, waits,
       noted, rest, Moves, MovesOn
  <2>18. CASE AgentEnd(c)
    BY <2>18 DEF Control, Places, Targets, Modes, PhaseInv, Holding, Done,
       Running, Reshaping, AgentEnd, At, Holds, shared, run, history, waits,
       noted, rest, Moves, MovesOn
  <2>19. CASE Ended(c)
    BY <2>19 DEF Control, Places, Targets, Modes, PhaseInv, Holding, Done,
       Running, Reshaping, Ended, At, Holds, Goes, shared, run, history, waits,
       noted, rest, Moves, MovesOn
  <2>20. CASE Closing(c)
    BY <2>20 DEF Control, Places, Targets, Modes, PhaseInv, Holding, Done,
       Running, Reshaping, Closing, At, Holds, shared, run, history, waits,
       noted, rest, Moves, MovesOn
  <2>21. CASE Return(c)
    BY <2>21 DEF Control, Places, Targets, Modes, PhaseInv, Holding, Done,
       Running, Reshaping, Return, Freed, Goes, At, Holds, shared, run,
       history, waits, noted, rest, Moves, MovesOn
  <2>22. CASE Throws(c)
    <3>1. pc[c] # "ended" /\ phase' = phase
      BY <2>22 DEF Throws, shared
    <3>2. /\ \A d \in Callers \ {c} : pc'[d] = pc[d] /\ mode'[d] = mode[d]
          /\ \A d \in Callers \ {c} : next'[d] = next[d]
      BY <2>22 DEF Throws, Fails, Goes, At, Control
    <3>3. pc[c] \in {"emit", "request", "saved", "refresh"}
      BY <2>22, <3>1 DEF Throws
    <3>4. Holding(c) /\ ~Reshaping(c) /\ ~Reshaping(c)'
      BY <2>22, <3>3 DEF Throws, Fails, Goes, At, Control, Holding, Running,
         Done, Reshaping
    <3>5. \A d \in Callers \ {c} : ~Holding(d) /\ ~Reshaping(d)
      BY <3>4 DEF PhaseInv
    <3>6. \A d \in Callers \ {c} : ~Holding(d)' /\ ~Reshaping(d)'
      BY <3>2, <3>5 DEF Holding, Running, Done, Reshaping
    <3>7. phase' = "turn"
      BY <3>1, <3>4 DEF PhaseInv
    <3>. QED  BY <3>4, <3>6, <3>7 DEF PhaseInv
  <2>23. CASE Rethrows(c)
    BY <2>23 DEF Control, Places, Targets, Modes, PhaseInv, Holding, Done,
       Running, Reshaping, Rethrows, At, Holds, Fails, Goes, shared, run,
       history, waits, noted, rest, Moves, MovesOn
  <2>24. CASE Write(c)
    BY <2>24 DEF Control, Places, Targets, Modes, PhaseInv, Holding, Done,
       Running, Reshaping, Write, At, Holds, Writing, shared, run, history,
       waits, noted, rest, Moves, MovesOn
  <2>25. CASE EmitFails(c)
    BY <2>25 DEF Control, Places, Targets, Modes, PhaseInv, Holding, Done,
       Running, Reshaping, EmitFails, At, Holds, Count, Fails, Goes, shared,
       run, history, waits, noted, rest, Moves, MovesOn
  <2>26. CASE FlushFails(c)
    <3>1. phase' = phase /\ pc[c] = "flushing"
          /\ ~(next[c] = "closing" /\ mode[c] # "throwing")
      BY <2>26 DEF FlushFails, FailsLate, shared
    <3>2. /\ \A d \in Callers \ {c} : pc'[d] = pc[d] /\ mode'[d] = mode[d]
          /\ \A d \in Callers \ {c} : next'[d] = next[d]
          /\ pc'[c] \in {"closing", "emit", "flush"}
      BY <2>26 DEF FlushFails, Fails, Goes, At, Control
    <3>4. Holding(c) /\ ~Reshaping(c) /\ ~Reshaping(c)'
      BY <3>1, <3>2 DEF Holding, Running, Done, Reshaping
    <3>5. \A d \in Callers \ {c} : ~Holding(d) /\ ~Reshaping(d)
      BY <3>4 DEF PhaseInv
    <3>6. \A d \in Callers \ {c} : ~Holding(d)' /\ ~Reshaping(d)'
      BY <3>2, <3>5 DEF Holding, Running, Done, Reshaping
    <3>7. phase' = "turn"
      BY <3>1, <3>4 DEF PhaseInv
    <3>. QED  BY <3>4, <3>6, <3>7 DEF PhaseInv
  <2>27. CASE AppendFails(c)
    BY <2>27 DEF Control, Places, Targets, Modes, PhaseInv, Holding, Done,
       Running, Reshaping, AppendFails, Freed, At, Holds, Count, shared, run,
       history, waits, noted, rest, Moves, MovesOn
  <2>28. CASE AppendItem(c)
    BY <2>28 DEF Control, Places, Targets, Modes, PhaseInv, Holding, Done,
       Running, Reshaping, AppendItem, FromAnywhere, At, Holds, Count, shared,
       run, history, waits, noted, rest, Moves, MovesOn
  <2>29. CASE Enqueue(c)
    BY <2>29 DEF Control, Places, Targets, Modes, PhaseInv, Holding, Done,
       Running, Reshaping, Enqueue, At, Holds, Count, shared, run, history,
       waits, noted, rest, Moves, MovesOn
  <2>30. CASE Abort(c)
    BY <2>30 DEF Control, Places, Targets, Modes, PhaseInv, Holding, Done,
       Running, Reshaping, Abort, FromAnywhere, At, Holds, Count, shared, run,
       history, waits, noted, rest, Moves, MovesOn
  <2>31. CASE WaitForIdle(c)
    BY <2>31 DEF Control, Places, Targets, Modes, PhaseInv, Holding, Done,
       Running, Reshaping, WaitForIdle, Joins, FromAnywhere, Count, At, Holds,
       shared, run, history, waits, noted, rest, Moves, MovesOn
  <2>36. CASE AbortWaits(c)
    BY <2>36 DEF Control, Places, Targets, Modes, PhaseInv, Holding, Done,
       Running, Reshaping, AbortWaits, Joins, At, Holds, shared, run, history,
       waits, noted, rest, Moves, MovesOn
  <2>32. CASE AbortReturns(c)
    BY <2>32 DEF Control, Places, Targets, Modes, PhaseInv, Holding, Done,
       Running, Reshaping, AbortReturns, Freed, At, Holds, shared, run,
       history, waits, noted, rest, Moves, MovesOn
  <2>33. CASE Reshape(c)
    BY <2>33 DEF Control, Places, Targets, Modes, PhaseInv, Holding, Done,
       Running, Reshaping, Reshape, FromAnywhere, At, Holds, Count, shared,
       run, history, waits, noted, rest, Moves, MovesOn
  <2>34. CASE ReshapeWrite(c)
    BY <2>34 DEF Control, Places, Targets, Modes, PhaseInv, Holding, Done,
       Running, Reshaping, ReshapeWrite, At, Holds, shared, run, history,
       waits, noted, rest, Moves, MovesOn
  <2>35. CASE ReshapeEnd(c)
    BY <2>35 DEF Control, Places, Targets, Modes, PhaseInv, Holding, Done,
       Running, Reshaping, ReshapeEnd, Freed, At, Holds, Count, Reshaping,
       shared, run, history, waits, noted, rest, Moves, MovesOn
  <2>. QED
    BY <1>2, <2>1, <2>2, <2>3, <2>4, <2>5, <2>6, <2>7, <2>8, <2>9, <2>10,
       <2>11, <2>12, <2>13, <2>14, <2>15, <2>16, <2>17, <2>18, <2>19, <2>20,
       <2>21, <2>22, <2>23, <2>24, <2>25, <2>26, <2>27, <2>28, <2>29, <2>30,
       <2>31, <2>32, <2>33, <2>34, <2>35, <2>36 DEF Progress, Error, Call
<1>. QED  BY <1>1, <1>2 DEF Next

\* Once a run that was done has failed, that stays so.
LEMMA LateStays == ASSUME [Next]_vars, failedLate PROVE failedLate'
<1>1. CASE UNCHANGED vars
  BY <1>1 DEF vars, history, noted
<1>2. ASSUME NEW c \in Callers, Call(c)
      PROVE  failedLate'
  BY <1>2 DEF Call, Prompt, AppendItem, Enqueue, Abort, Reshape, WaitForIdle,
     Joins, NotesAlone, NotesHeard, history, noted
<1>3. ASSUME NEW c \in Callers, Error(c)
      PROVE  failedLate'
  BY <1>3 DEF Error, EarlyError, PollThrows, Throws, EmitFails, FlushFails,
     FailsLate, AppendFails, history, noted
<1>4. ASSUME NEW c \in Callers, Progress(c)
      PROVE  failedLate'
  <2>1. ASSUME \/ Snapshot(c) \/ QueueTold(c) \/ Launch(c) \/ Emit(c)
               \/ Emitted(c) \/ Poll(c) \/ PollMore(c) \/ Polled(c)
               \/ Answer(c) \/ TurnEnd(c) \/ FlushWrite(c) \/ Flushed(c)
        PROVE  UNCHANGED noted
    BY <2>1 DEF Snapshot, QueueTold, Launch, Emit, Emitted, Poll, PollMore,
       Drain, Polled, Answer, TurnEnd, FlushWrite, Flushed, Moves, MovesOn,
       rest, history
  <2>2. ASSUME \/ AfterSave(c) \/ Refresh(c) \/ AgentEnd(c) \/ Ended(c)
               \/ Closing(c) \/ Return(c) \/ Rethrows(c) \/ Write(c)
               \/ AbortWaits(c) \/ AbortReturns(c) \/ ReshapeWrite(c)
               \/ ReshapeEnd(c)
        PROVE  UNCHANGED noted
    BY <2>2 DEF AfterSave, Refresh, AgentEnd, Ended, Closing, Return, Rethrows,
       Write, AbortWaits, Joins, AbortReturns, ReshapeWrite, ReshapeEnd, Moves,
       MovesOn, rest, history
  <2>. QED  BY <1>4, <2>1, <2>2 DEF Progress, noted
<1>. QED  BY <1>1, <1>2, <1>3, <1>4 DEF Next

\* While a run or a reshaping is under way the phase says so, and there is no
\* other, whoever calls and whenever, as long as no run fails after it declared
\* the harness idle (prompt, compact, navigateTree, handleAgentEvent).
THEOREM BusyIsBusy == Spec => []BusyWhileRunning
<1>1. Init => (~failedLate => PhaseInv)
  BY DEF Init, PhaseInv, Holding, Running, Reshaping
<1>2. Control /\ Control' /\ (~failedLate => PhaseInv) /\ [Next]_vars
        => (~failedLate => PhaseInv)'
  BY PhaseStep, LateStays
<1>3. Control /\ (~failedLate => PhaseInv) => BusyWhileRunning
  <2>1. ASSUME Control, NEW c \in Callers, InTurn(c)
        PROVE  Holding(c)
    BY <2>1 DEF Control, InTurn, Holding, Running, Done
  <2>. QED  BY <2>1 DEF PhaseInv, BusyWhileRunning
<1>. QED  BY <1>1, <1>2, <1>3, ControlHolds, PTL DEF Spec

-----------------------------------------------------------------------------
(* The context of a run *)

\* Where a run has read the session and nothing but the run has written since.
Synced(c) ==
  /\ mode[c] = "loop"
  /\ pc[c] \in {"queued", "hook", "emit", "emitting", "poll", "polled",
                "orphaned", "request", "pollMore", "turnEnd"}

ContextInv ==
  /\ context = [c \in Callers |-> context[c]]
  /\ \A c \in Callers : Synced(c) => context[c] = session

\* As long as callers begin alone every step keeps ContextInv.
LEMMA ContextStep ==
  ASSUME serial', Control, Control', Exclusive, ContextInv, [Next]_vars
  PROVE  ContextInv'
<1>1. CASE UNCHANGED vars
  BY <1>1 DEF Control, Places, Targets, Modes, Exclusive, Active, ContextInv,
     Synced, vars, shared, run, history, waits, noted, rest, Moves, MovesOn
<1>2. ASSUME NEW c \in Callers, Progress(c) \/ Error(c) \/ Call(c)
      PROVE  ContextInv'
  <2>1. CASE Prompt(c)
    BY <2>1 DEF Control, Places, Targets, Modes, Exclusive, Active, ContextInv,
       Synced, Prompt, FromAnywhere, At, Holds, Count, shared, run, history,
       waits, noted, rest, Moves, MovesOn
  <2>2. CASE Snapshot(c)
    <3>1. /\ context' = [context EXCEPT ![c] = session]
          /\ session' = session /\ mode' = mode
      BY <2>2 DEF Snapshot
    <3>2. \A d \in Callers : d # c => pc'[d] = pc[d]
      BY <2>2 DEF Snapshot, At, Control, Places
    <3>. QED  BY <3>1, <3>2 DEF ContextInv, Synced
  <2>3. CASE QueueTold(c)
    BY <2>3 DEF Control, Places, Targets, Modes, Exclusive, Active, ContextInv,
       Synced, QueueTold, At, Holds, shared, run, history, waits, noted, rest,
       Moves, MovesOn
  <2>4. CASE Launch(c)
    BY <2>4 DEF Control, Places, Targets, Modes, Exclusive, Active, ContextInv,
       Synced, Launch, At, Holds, Goes, shared, run, history, waits, noted,
       rest, Moves, MovesOn
  <2>5. CASE EarlyError(c)
    BY <2>5 DEF Control, Places, Targets, Modes, Exclusive, Active, ContextInv,
       Synced, EarlyError, At, Holds, Count, shared, run, history, waits,
       noted, rest, Moves, MovesOn
  <2>6. CASE Emit(c)
    BY <2>6 DEF Control, Places, Targets, Modes, Exclusive, Active, ContextInv,
       Synced, Emit, At, Holds, shared, run, history, waits, noted, rest,
       Moves, MovesOn
  <2>7. CASE Emitted(c)
    BY <2>7 DEF Control, Places, Targets, Modes, Exclusive, Active, ContextInv,
       Synced, Emitted, At, Holds, shared, run, history, waits, noted, rest,
       Moves, MovesOn
  <2>8. CASE Poll(c)
    <3>1. /\ pc[c] \in {"poll", "pollMore"} /\ mode' = mode
          /\ context' = context /\ session' = session
          /\ \A d \in Callers \ {c} : pc'[d] = pc[d]
      BY <2>8 DEF Poll, Drain, Moves, MovesOn, Goes, At, rest, run, Control
    <3>2. mode[c] = "loop" => Synced(c)
      BY <3>1 DEF Synced
    <3>. QED  BY <3>1, <3>2 DEF ContextInv, Synced
  <2>9. CASE PollMore(c)
    <3>1. /\ pc[c] \in {"poll", "pollMore"} /\ mode' = mode
          /\ context' = context /\ session' = session
          /\ \A d \in Callers \ {c} : pc'[d] = pc[d]
      BY <2>9 DEF PollMore, Drain, Moves, MovesOn, Goes, At, rest, run, Control
    <3>2. mode[c] = "loop" => Synced(c)
      BY <3>1 DEF Synced
    <3>. QED  BY <3>1, <3>2 DEF ContextInv, Synced
  <2>10. CASE Polled(c)
    BY <2>10 DEF Control, Places, Targets, Modes, Exclusive, Active,
       ContextInv, Synced, Polled, At, Holds, Goes, shared, run, history,
       waits, noted, rest, Moves, MovesOn
  <2>11. CASE PollThrows(c)
    BY <2>11 DEF Control, Places, Targets, Modes, Exclusive, Active,
       ContextInv, Synced, PollThrows, At, Holds, Count, Fails, Goes, shared,
       run, history, waits, noted, rest, Moves, MovesOn
  <2>12. CASE Answer(c)
    BY <2>12 DEF Control, Places, Targets, Modes, Exclusive, Active,
       ContextInv, Synced, Answer, At, Holds, Count, Goes, shared, run,
       history, waits, noted, rest, Moves, MovesOn
  <2>13. CASE TurnEnd(c)
    BY <2>13 DEF Control, Places, Targets, Modes, Exclusive, Active,
       ContextInv, Synced, TurnEnd, At, Holds, Count, Goes, shared, run,
       history, waits, noted, rest, Moves, MovesOn
  <2>14. CASE FlushWrite(c)
    BY <2>14 DEF Control, Places, Targets, Modes, Exclusive, Active,
       ContextInv, Synced, FlushWrite, At, Holds, shared, run, history, waits,
       noted, rest, Moves, MovesOn
  <2>15. CASE Flushed(c)
    BY <2>15 DEF Control, Places, Targets, Modes, Exclusive, Active,
       ContextInv, Synced, Flushed, At, Holds, shared, run, history, waits,
       noted, rest, Moves, MovesOn
  <2>16. CASE AfterSave(c)
    BY <2>16 DEF Control, Places, Targets, Modes, Exclusive, Active,
       ContextInv, Synced, AfterSave, At, Holds, Goes, EndsRun, shared, run,
       history, waits, noted, rest, Moves, MovesOn
  <2>17. CASE Refresh(c)
    <3>1. /\ context' = [context EXCEPT ![c] = session]
          /\ session' = session /\ mode' = mode
      BY <2>17 DEF Refresh, shared
    <3>2. \A d \in Callers : d # c => pc'[d] = pc[d]
      BY <2>17 DEF Refresh, At, Control, Places
    <3>. QED  BY <3>1, <3>2 DEF ContextInv, Synced
  <2>18. CASE AgentEnd(c)
    BY <2>18 DEF Control, Places, Targets, Modes, Exclusive, Active,
       ContextInv, Synced, AgentEnd, At, Holds, shared, run, history, waits,
       noted, rest, Moves, MovesOn
  <2>19. CASE Ended(c)
    BY <2>19 DEF Control, Places, Targets, Modes, Exclusive, Active,
       ContextInv, Synced, Ended, At, Holds, Goes, shared, run, history, waits,
       noted, rest, Moves, MovesOn
  <2>20. CASE Closing(c)
    BY <2>20 DEF Control, Places, Targets, Modes, Exclusive, Active,
       ContextInv, Synced, Closing, At, Holds, shared, run, history, waits,
       noted, rest, Moves, MovesOn
  <2>21. CASE Return(c)
    <3>1. /\ context' = [context EXCEPT ![c] = <<>>]
          /\ mode' = [mode EXCEPT ![c] = "loop"] /\ session' = session
      BY <2>21 DEF Return
    <3>2. pc'[c] = "idle" /\ \A d \in Callers : d # c => pc'[d] = pc[d]
      BY <2>21 DEF Return, Freed, Goes, At, Control, Places
    <3>3. ~Synced(c)'
      BY <3>2 DEF Synced
    <3>. QED  BY <3>1, <3>2, <3>3 DEF ContextInv, Synced, Control
  <2>22. CASE Throws(c)
    BY <2>22 DEF Control, Places, Targets, Modes, Exclusive, Active,
       ContextInv, Synced, Throws, At, Holds, Count, Fails, Goes, shared, run,
       history, waits, noted, rest, Moves, MovesOn
  <2>23. CASE Rethrows(c)
    BY <2>23 DEF Control, Places, Targets, Modes, Exclusive, Active,
       ContextInv, Synced, Rethrows, At, Holds, Fails, Goes, shared, run,
       history, waits, noted, rest, Moves, MovesOn
  <2>24. CASE Write(c)
    <3>1. pc[c] \in Writing /\ session' = Append(session, Head(todo[c]))
      BY <2>24 DEF Write
    <3>2. \A d \in Callers : d # c => ~Synced(d) /\ pc'[d] = pc[d]
      BY <2>24, <3>1
         DEF Write, At, Writing, Exclusive, Active, Synced, Control, Places
    <3>3. pc[c] = "emitting" => ContextInv'
      BY <3>1, <3>2, <2>24
         DEF Write, At, ContextInv, Synced, Control, Places, run
    <3>4. pc[c] # "emitting" => ContextInv'
      <4>1. pc[c] # "emitting" => ~Synced(c)' /\ context' = context
        BY <3>1, <2>24 DEF Write, At, Synced, Control, Places, Writing
      <4>2. mode' = mode
        BY <2>24 DEF Write
      <4>. QED  BY <3>2, <4>1, <4>2 DEF ContextInv, Synced
    <3>. QED  BY <3>3, <3>4
  <2>25. CASE EmitFails(c)
    BY <2>25 DEF Control, Places, Targets, Modes, Exclusive, Active,
       ContextInv, Synced, EmitFails, At, Holds, Count, Fails, Goes, shared,
       run, history, waits, noted, rest, Moves, MovesOn
  <2>26. CASE FlushFails(c)
    BY <2>26 DEF Control, Places, Targets, Modes, Exclusive, Active,
       ContextInv, Synced, FlushFails, FailsLate, At, Holds, Count, Fails,
       Goes, shared, run, history, waits, noted, rest, Moves, MovesOn
  <2>27. CASE AppendFails(c)
    BY <2>27 DEF Control, Places, Targets, Modes, Exclusive, Active,
       ContextInv, Synced, AppendFails, Freed, At, Holds, Count, shared, run,
       history, waits, noted, rest, Moves, MovesOn
  <2>28. CASE AppendItem(c)
    <3>1. /\ session' = session /\ context' = context /\ mode' = mode
          /\ \A d \in Callers \ {c} : pc'[d] = pc[d]
          /\ pc'[c] \in {"idle", "appending"}
      BY <2>28 DEF AppendItem, At, run, Control
    <3>. QED  BY <3>1 DEF ContextInv, Synced
  <2>29. CASE Enqueue(c)
    BY <2>29 DEF Control, Places, Targets, Modes, Exclusive, Active,
       ContextInv, Synced, Enqueue, At, Holds, Count, shared, run, history,
       waits, noted, rest, Moves, MovesOn
  <2>30. CASE Abort(c)
    BY <2>30 DEF Control, Places, Targets, Modes, Exclusive, Active,
       ContextInv, Synced, Abort, FromAnywhere, At, Holds, Count, shared, run,
       history, waits, noted, rest, Moves, MovesOn
  <2>31. CASE WaitForIdle(c)
    BY <2>31 DEF Control, Places, Targets, Modes, Exclusive, Active,
       ContextInv, Synced, WaitForIdle, Joins, FromAnywhere, Count, At, Holds,
       shared, run, history, waits, noted, rest, Moves, MovesOn
  <2>36. CASE AbortWaits(c)
    BY <2>36 DEF Control, Places, Targets, Modes, Exclusive, Active,
       ContextInv, Synced, AbortWaits, Joins, At, Holds, shared, run, history,
       waits, noted, rest, Moves, MovesOn
  <2>32. CASE AbortReturns(c)
    BY <2>32 DEF Control, Places, Targets, Modes, Exclusive, Active,
       ContextInv, Synced, AbortReturns, Freed, At, Holds, shared, run,
       history, waits, noted, rest, Moves, MovesOn
  <2>33. CASE Reshape(c)
    BY <2>33 DEF Control, Places, Targets, Modes, Exclusive, Active,
       ContextInv, Synced, Reshape, FromAnywhere, At, Holds, Count, shared,
       run, history, waits, noted, rest, Moves, MovesOn
  <2>34. CASE ReshapeWrite(c)
    BY <2>34 DEF Control, Places, Targets, Modes, Exclusive, Active,
       ContextInv, Synced, ReshapeWrite, At, Holds, shared, run, history,
       waits, noted, rest, Moves, MovesOn
  <2>35. CASE ReshapeEnd(c)
    BY <2>35 DEF Control, Places, Targets, Modes, Exclusive, Active,
       ContextInv, Synced, ReshapeEnd, Freed, At, Holds, Count, Reshaping,
       shared, run, history, waits, noted, rest, Moves, MovesOn
  <2>. QED
    BY <1>2, <2>1, <2>2, <2>3, <2>4, <2>5, <2>6, <2>7, <2>8, <2>9, <2>10,
       <2>11, <2>12, <2>13, <2>14, <2>15, <2>16, <2>17, <2>18, <2>19, <2>20,
       <2>21, <2>22, <2>23, <2>24, <2>25, <2>26, <2>27, <2>28, <2>29, <2>30,
       <2>31, <2>32, <2>33, <2>34, <2>35, <2>36 DEF Progress, Error, Call
<1>. QED  BY <1>1, <1>2 DEF Next

\* What a run sends to the model is what the session holds, as long as callers
\* begin alone (createTurnState, prepareNextTurn).
THEOREM SendsWhatIsPersisted == Spec => []ContextIsPersisted
<1>1. Init => (serial => ContextInv)
  BY DEF Init, ContextInv, Synced
<1>2. Control /\ Control' /\ (serial => Exclusive)
        /\ (serial => ContextInv) /\ [Next]_vars
        => (serial => ContextInv)'
  <2>1. ASSUME Control, Control', serial => Exclusive, serial => ContextInv,
               [Next]_vars, serial'
        PROVE  ContextInv'
    BY <2>1, ContextStep, SerialStays
  <2>. QED  BY <2>1
<1>3. Control /\ (serial => ContextInv) => ContextIsPersisted
  BY DEF Control, ContextInv, Synced, ContextIsPersisted
<1>. QED  BY <1>1, <1>2, <1>3, ControlHolds, ExclusiveHolds, PTL DEF Spec

-----------------------------------------------------------------------------
(* The pending writes *)

\* The run has a flush before it.
Owes(c) ==
  pc[c] \notin {"idle", "aborting", "waiting", "appending", "reshape",
                "reshaping", "snapshot", "queued", "hook", "closing",
                "returning"}

FlushInv ==
  tidy /\ phase = "idle" /\ pending # <<>> => \E c \in Callers : Owes(c)

\* Every step keeps FlushInv.
LEMMA FlushStep ==
  ASSUME Control, Control', FlushInv, [Next]_vars
  PROVE  FlushInv'
<1>1. CASE UNCHANGED vars
  BY <1>1 DEF Control, Places, Targets, FlushInv, Owes, vars, shared, run,
     history, waits, noted, rest, Moves, MovesOn
<1>2. ASSUME NEW c \in Callers, Progress(c) \/ Error(c) \/ Call(c)
      PROVE  FlushInv'
  <2>1. CASE Prompt(c)
    BY <2>1 DEF Control, Places, Targets, FlushInv, Owes, Prompt, FromAnywhere,
       At, Holds, Count, shared, run, history, waits, noted, rest, Moves,
       MovesOn
  <2>2. CASE Snapshot(c)
    BY <2>2 DEF Control, Places, Targets, FlushInv, Owes, Snapshot, At, Holds,
       shared, run, history, waits, noted, rest, Moves, MovesOn
  <2>3. CASE QueueTold(c)
    BY <2>3 DEF Control, Places, Targets, FlushInv, Owes, QueueTold, At, Holds,
       shared, run, history, waits, noted, rest, Moves, MovesOn
  <2>4. CASE Launch(c)
    BY <2>4 DEF Control, Places, Targets, FlushInv, Owes, Launch, At, Holds,
       Goes, shared, run, history, waits, noted, rest, Moves, MovesOn
  <2>5. CASE EarlyError(c)
    BY <2>5 DEF Control, Places, Targets, FlushInv, Owes, EarlyError, At,
       Holds, Count, shared, run, history, waits, noted, rest, Moves, MovesOn
  <2>6. CASE Emit(c)
    BY <2>6 DEF Control, Places, Targets, FlushInv, Owes, Emit, At, Holds,
       shared, run, history, waits, noted, rest, Moves, MovesOn
  <2>7. CASE Emitted(c)
    BY <2>7 DEF Control, Places, Targets, FlushInv, Owes, Emitted, At, Holds,
       shared, run, history, waits, noted, rest, Moves, MovesOn
  <2>8. CASE Poll(c)
    <3>1. pc[c] = "poll" /\ pc'[c] \in {"polled", "request", "pollMore"}
      BY <2>8 DEF Poll, Drain, Goes, Moves, MovesOn, rest, At, Control, Places
    <3>2. UNCHANGED <<phase, pending, tidy>>
      BY <2>8 DEF Poll, Drain, Moves, rest, MovesOn, shared, history, waits,
         noted
    <3>3. \A d \in Callers : d # c => pc'[d] = pc[d]
      BY <2>8 DEF Poll, Drain, Goes, Moves, MovesOn, rest, At, Control, Places
    <3>. QED  BY <3>1, <3>2, <3>3 DEF FlushInv, Owes
  <2>9. CASE PollMore(c)
    <3>1. pc[c] = "pollMore" /\ pc'[c] \in {"polled", "flush"}
      BY <2>9 DEF PollMore, Drain, Goes, Moves, MovesOn, rest, At, Control,
         Places
    <3>2. UNCHANGED <<phase, pending, tidy>>
      BY <2>9 DEF PollMore, Drain, Moves, rest, MovesOn, shared, history,
         waits, noted
    <3>3. \A d \in Callers : d # c => pc'[d] = pc[d]
      BY <2>9 DEF PollMore, Drain, Goes, Moves, MovesOn, rest, At, Control,
         Places
    <3>. QED  BY <3>1, <3>2, <3>3 DEF FlushInv, Owes
  <2>10. CASE Polled(c)
    BY <2>10 DEF Control, Places, Targets, FlushInv, Owes, Polled, At, Holds,
       Goes, shared, run, history, waits, noted, rest, Moves, MovesOn
  <2>11. CASE PollThrows(c)
    BY <2>11 DEF Control, Places, Targets, FlushInv, Owes, PollThrows, At,
       Holds, Count, Fails, Goes, shared, run, history, waits, noted, rest,
       Moves, MovesOn
  <2>12. CASE Answer(c)
    BY <2>12 DEF Control, Places, Targets, FlushInv, Owes, Answer, At, Holds,
       Count, Goes, shared, run, history, waits, noted, rest, Moves, MovesOn
  <2>13. CASE TurnEnd(c)
    BY <2>13 DEF Control, Places, Targets, FlushInv, Owes, TurnEnd, At, Holds,
       Count, Goes, shared, run, history, waits, noted, rest, Moves, MovesOn
  <2>14. CASE FlushWrite(c)
    BY <2>14 DEF Control, Places, Targets, FlushInv, Owes, FlushWrite, At,
       Holds, shared, run, history, waits, noted, rest, Moves, MovesOn
  <2>15. CASE Flushed(c)
    BY <2>15 DEF Control, Places, Targets, FlushInv, Owes, Flushed, At, Holds,
       shared, run, history, waits, noted, rest, Moves, MovesOn
  <2>16. CASE AfterSave(c)
    BY <2>16 DEF Control, Places, Targets, FlushInv, Owes, AfterSave, At,
       Holds, Goes, EndsRun, shared, run, history, waits, noted, rest, Moves,
       MovesOn
  <2>17. CASE Refresh(c)
    BY <2>17 DEF Control, Places, Targets, FlushInv, Owes, Refresh, At, Holds,
       shared, run, history, waits, noted, rest, Moves, MovesOn
  <2>18. CASE AgentEnd(c)
    BY <2>18 DEF Control, Places, Targets, FlushInv, Owes, AgentEnd, At, Holds,
       shared, run, history, waits, noted, rest, Moves, MovesOn
  <2>19. CASE Ended(c)
    BY <2>19 DEF Control, Places, Targets, FlushInv, Owes, Ended, At, Holds,
       Goes, shared, run, history, waits, noted, rest, Moves, MovesOn
  <2>20. CASE Closing(c)
    BY <2>20 DEF Control, Places, Targets, FlushInv, Owes, Closing, At, Holds,
       shared, run, history, waits, noted, rest, Moves, MovesOn
  <2>21. CASE Return(c)
    <3>1. /\ pc[c] = "returning" /\ pending' = pending
          /\ tidy' => tidy /\ (mode[c] = "throwing" => pending = <<>>)
          /\ phase' = "idle" => phase = "idle" \/ mode[c] = "throwing"
          /\ \A d \in Callers \ {c} : pc'[d] = pc[d]
      BY <2>21 DEF Return, Goes, At, Control
    <3>. QED  BY <3>1 DEF FlushInv, Owes
  <2>22. CASE Throws(c)
    BY <2>22 DEF Control, Places, Targets, FlushInv, Owes, Throws, At, Holds,
       Count, Fails, Goes, shared, run, history, waits, noted, rest, Moves,
       MovesOn
  <2>23. CASE Rethrows(c)
    BY <2>23 DEF Control, Places, Targets, FlushInv, Owes, Rethrows, At, Holds,
       Fails, Goes, shared, run, history, waits, noted, rest, Moves, MovesOn
  <2>24. CASE Write(c)
    <3>1. /\ pc[c] \in Writing
          /\ pc'[c] = CASE pc[c] = "emitting"  -> "emit"
                       [] pc[c] = "flushing"  -> "flush"
                       [] pc[c] = "appending" -> "idle"
                       [] pc[c] = "reshaping" -> "reshape"
      BY <2>24 DEF Write, At, Writing, Control, Places
    <3>2. UNCHANGED <<phase, tidy>> /\ (pending # <<>> \/ pending' = <<>>)
      BY <2>24 DEF Write, shared, history, waits, noted, Shifted
    <3>3. \A d \in Callers : d # c => pc'[d] = pc[d]
      BY <2>24 DEF Write, At, Control, Places
    <3>4. Owes(c) => Owes(c)'
      BY <3>1 DEF Owes, Writing
    <3>5. \A d \in Callers : Owes(d) => Owes(d)'
      BY <3>3, <3>4 DEF Owes
    <3>. QED  BY <3>2, <3>5 DEF FlushInv
  <2>25. CASE EmitFails(c)
    BY <2>25 DEF Control, Places, Targets, FlushInv, Owes, EmitFails, At,
       Holds, Count, Fails, Goes, shared, run, history, waits, noted, rest,
       Moves, MovesOn
  <2>26. CASE FlushFails(c)
    BY <2>26 DEF Control, Places, Targets, FlushInv, Owes, FlushFails, At,
       Holds, Count, Fails, Goes, shared, run, history, waits, noted, rest,
       Moves, MovesOn
  <2>27. CASE AppendFails(c)
    BY <2>27 DEF Control, Places, Targets, FlushInv, Owes, AppendFails, Freed,
       At, Holds, Count, shared, run, history, waits, noted, rest, Moves,
       MovesOn
  <2>28. CASE AppendItem(c)
    BY <2>28 DEF Control, Places, Targets, FlushInv, Owes, AppendItem,
       FromAnywhere, At, Holds, Count, shared, run, history, waits, noted,
       rest, Moves, MovesOn
  <2>29. CASE Enqueue(c)
    BY <2>29 DEF Control, Places, Targets, FlushInv, Owes, Enqueue, At, Holds,
       Count, shared, run, history, waits, noted, rest, Moves, MovesOn
  <2>30. CASE Abort(c)
    BY <2>30 DEF Control, Places, Targets, FlushInv, Owes, Abort, FromAnywhere,
       At, Holds, Count, shared, run, history, waits, noted, rest, Moves,
       MovesOn
  <2>31. CASE WaitForIdle(c)
    BY <2>31 DEF Control, Places, Targets, FlushInv, Owes, WaitForIdle, Joins,
       FromAnywhere, Count, At, Holds, shared, run, history, waits, noted,
       rest, Moves, MovesOn
  <2>36. CASE AbortWaits(c)
    BY <2>36 DEF Control, Places, Targets, FlushInv, Owes, AbortWaits, Joins,
       At, Holds, shared, run, history, waits, noted, rest, Moves, MovesOn
  <2>32. CASE AbortReturns(c)
    BY <2>32 DEF Control, Places, Targets, FlushInv, Owes, AbortReturns, Freed,
       At, Holds, shared, run, history, waits, noted, rest, Moves, MovesOn
  <2>33. CASE Reshape(c)
    BY <2>33 DEF Control, Places, Targets, FlushInv, Owes, Reshape,
       FromAnywhere, At, Holds, Count, shared, run, history, waits, noted,
       rest, Moves, MovesOn
  <2>34. CASE ReshapeWrite(c)
    BY <2>34 DEF Control, Places, Targets, FlushInv, Owes, ReshapeWrite, At,
       Holds, shared, run, history, waits, noted, rest, Moves, MovesOn
  <2>35. CASE ReshapeEnd(c)
    BY <2>35 DEF Control, Places, Targets, FlushInv, Owes, ReshapeEnd, Freed,
       At, Holds, Count, Reshaping, shared, run, history, waits, noted, rest,
       Moves, MovesOn
  <2>. QED
    BY <1>2, <2>1, <2>2, <2>3, <2>4, <2>5, <2>6, <2>7, <2>8, <2>9, <2>10,
       <2>11, <2>12, <2>13, <2>14, <2>15, <2>16, <2>17, <2>18, <2>19, <2>20,
       <2>21, <2>22, <2>23, <2>24, <2>25, <2>26, <2>27, <2>28, <2>29, <2>30,
       <2>31, <2>32, <2>33, <2>34, <2>35, <2>36 DEF Progress, Error, Call
<1>. QED  BY <1>1, <1>2 DEF Next

\* Whatever the callers do, the pending writes are flushed when no call is in
\* progress, unless a reshaping, an early error or a failed write left some.
THEOREM QuietIsFlushed == Spec => []QuietMeansFlushed
<1>1. Init => FlushInv
  BY DEF Init, FlushInv
<1>2. Control /\ Control' /\ FlushInv /\ [Next]_vars => FlushInv'
  BY FlushStep
<1>3. FlushInv => QuietMeansFlushed
  BY DEF FlushInv, Owes, QuietMeansFlushed, Running
<1>. QED  BY <1>1, <1>2, <1>3, ControlHolds, PTL DEF Spec

-----------------------------------------------------------------------------
(* Where the items are                                                     *)
(*                                                                         *)
(* An item has one home: the queue or array it is in, the hand of a caller *)
(* that is about to write it, the session, or what abort() and errors took *)
(* away.  Each step moves items from one home to another or puts new ones  *)
(* into one.  The item a caller is flushing is still at home in pending.   *)

Pending == <<"pending", "">>
Session == <<"session", "">>
Cleared == <<"cleared", "">>
Dropped == <<"dropped", "">>
QueueOf(q) == <<"queue", q>>
HandOf(c) == <<"hand", c>>

Homes ==
  {Pending, Session, Cleared, Dropped}
    \union {QueueOf(q) : q \in Queues} \union {HandOf(c) : c \in Callers}

Held ==
  [h \in Homes |-> CASE h[1] = "pending" -> Items(pending)
                     [] h[1] = "session" -> Items(session)
                     [] h[1] = "cleared" -> cleared
                     [] h[1] = "dropped" -> dropped
                     [] h[1] = "queue" -> Items(queue[h[2]])
                     [] h[1] = "hand" -> Items(InHand(h[2]))]

Partition(P, n) ==
  /\ \A h \in Homes : P[h] \subseteq 1..n
  /\ \A i \in 1..n : \E h \in Homes : i \in P[h]
  /\ \A g, h \in Homes, i \in 1..n : i \in P[g] /\ i \in P[h] => g = h

\* Sequences that hold each of their items once.
Once(s) == \A i, j \in 1..Len(s) : s[i] = s[j] => i = j
Arrays == {s \in Seq(Nat) : Once(s)}

ArrayTypes ==
  /\ items \in Nat
  /\ pending \in Arrays /\ session \in Arrays
  /\ queue \in [Queues -> Arrays]
  /\ todo \in [Callers -> Arrays]

Handless ==
  {"idle", "poll", "request", "turnEnd", "flush", "saved", "rethrow",
   "refresh", "pollMore", "agentEnd", "ended", "closing", "returning",
   "aborting", "waiting"}

\* What a caller has in hand where it is.
HandAt(c) ==
  /\ pc[c] \in Handless => todo[c] = <<>>
  /\ pc[c] \in {"snapshot", "queued", "hook", "emitting", "appending",
                "reshaping"} => todo[c] # <<>>
  /\ pc[c] = "appending" => Tail(todo[c]) = <<>>
  /\ pc[c] = "polled" => next[c] \in Queues
  /\ pc[c] = "flushing" => pending # <<>> /\ todo[c] = <<Head(pending)>>

ItemInv ==
  /\ ArrayTypes
  /\ \A c \in Callers : HandAt(c)
  /\ Partition(Held, items)

-----------------------------------------------------------------------------
(* Arrays *)

LEMMA EmptyArray == <<>> \in Arrays /\ Items(<<>>) = {}
BY DEF Arrays, Once, Items

LEMMA OneItem ==
  ASSUME NEW x \in Nat
  PROVE  <<x>> \in Arrays /\ Items(<<x>>) = {x} /\ Tail(<<x>>) = <<>>
BY DEF Arrays, Once, Items

LEMMA AppendArray ==
  ASSUME NEW s \in Arrays, NEW x \in Nat, x \notin Items(s)
  PROVE  /\ Append(s, x) \in Arrays /\ Items(Append(s, x)) = Items(s) \union {x}
         /\ s # <<>> => Head(Append(s, x)) = Head(s)
<1> DEFINE t == Append(s, x)
<1>1. s \in Seq(Nat) /\ Once(s)
  BY DEF Arrays
<1>2. /\ t \in Seq(Nat) /\ Len(t) = Len(s) + 1 /\ Len(s) \in Nat
      /\ t[Len(s) + 1] = x /\ \A i \in 1..Len(s) : t[i] = s[i]
      /\ s # <<>> => Head(t) = Head(s)
  BY <1>1
<1> HIDE DEF t
<1>3. Once(t)
  <2>1. \A i \in 1..Len(t) : i \in 1..Len(s) \/ i = Len(s) + 1
    BY <1>2
  <2>2. \A i \in 1..Len(s) : t[i] # x
    BY <1>2 DEF Items
  <2> QED
    BY <1>1, <1>2, <2>1, <2>2 DEF Once
<1>4. Items(t) = Items(s) \union {x}
  <2>1. Items(t) \subseteq Items(s) \union {x}
    BY <1>2 DEF Items
  <2>2. Items(s) \union {x} \subseteq Items(t)
    BY <1>2 DEF Items
  <2> QED
    BY <2>1, <2>2
<1> QED
  BY <1>2, <1>3, <1>4 DEF t, Arrays

LEMMA TailArray ==
  ASSUME NEW s \in Arrays, s # <<>>
  PROVE  /\ Tail(s) \in Arrays /\ Items(Tail(s)) = Items(s) \ {Head(s)}
         /\ Head(s) \in Items(s) /\ Head(s) \in Nat
<1> DEFINE t == Tail(s)
<1>1. s \in Seq(Nat) /\ Once(s)
  BY DEF Arrays
<1>2. /\ t \in Seq(Nat) /\ Len(t) = Len(s) - 1 /\ Len(s) \in Nat \ {0}
      /\ Head(s) = s[1] /\ Head(s) \in Nat /\ \A i \in 1..Len(t) : t[i] = s[i + 1]
  BY <1>1
<1> HIDE DEF t
<1>3. Once(t)
  <2>1. ASSUME NEW i \in 1..Len(t), NEW j \in 1..Len(t), t[i] = t[j]
        PROVE  i = j
    <3>1. i + 1 \in 1..Len(s) /\ j + 1 \in 1..Len(s) /\ s[i + 1] = s[j + 1]
      BY <1>2, <2>1
    <3> QED
      BY <1>1, <3>1 DEF Once
  <2> QED
    BY <2>1 DEF Once
<1>4. Head(s) \in Items(s)
  BY <1>2 DEF Items
<1>5. Items(t) \subseteq Items(s) \ {Head(s)}
  <2>1. ASSUME NEW i \in 1..Len(t)
        PROVE  t[i] \in Items(s) /\ t[i] # Head(s)
    <3>1. i + 1 \in 1..Len(s) /\ 1 \in 1..Len(s) /\ i + 1 # 1 /\ t[i] = s[i + 1]
      BY <1>2, <2>1
    <3> QED
      BY <1>1, <1>2, <3>1 DEF Once, Items
  <2> QED
    BY <2>1 DEF Items
<1>6. Items(s) \ {Head(s)} \subseteq Items(t)
  <2>1. ASSUME NEW i \in 1..Len(s), s[i] # Head(s)
        PROVE  s[i] \in Items(t)
    <3>1. i - 1 \in 1..Len(t) /\ t[i - 1] = s[i]
      BY <1>2, <2>1
    <3> QED
      BY <3>1 DEF Items
  <2> QED
    BY <2>1 DEF Items
<1> QED
  BY <1>2, <1>3, <1>4, <1>5, <1>6 DEF t, Arrays

LEMMA JoinArrays ==
  ASSUME NEW s \in Arrays, NEW t \in Arrays, Items(s) \intersect Items(t) = {}
  PROVE  /\ s \o t \in Arrays /\ Items(s \o t) = Items(s) \union Items(t)
         /\ t # <<>> => s \o t # <<>>
<1> DEFINE u == s \o t
<1>1. s \in Seq(Nat) /\ t \in Seq(Nat) /\ Once(s) /\ Once(t)
  BY DEF Arrays
<1>2. /\ u \in Seq(Nat) /\ Len(u) = Len(s) + Len(t)
      /\ Len(s) \in Nat /\ Len(t) \in Nat /\ (t # <<>> => Len(t) # 0)
      /\ \A i \in 1..Len(s) : u[i] = s[i]
      /\ \A i \in 1..Len(t) : u[Len(s) + i] = t[i]
  BY <1>1
<1> HIDE DEF u
<1>3. \A i \in 1..Len(u) :
        \/ i \in 1..Len(s) /\ u[i] = s[i]
        \/ i - Len(s) \in 1..Len(t) /\ u[i] = t[i - Len(s)]
  <2>1. ASSUME NEW i \in 1..Len(u), ~(i <= Len(s))
        PROVE  i - Len(s) \in 1..Len(t) /\ u[i] = t[i - Len(s)]
    <3>1. i - Len(s) \in 1..Len(t) /\ Len(s) + (i - Len(s)) = i
      BY <1>2, <2>1
    <3> QED
      BY <1>2, <3>1
  <2> QED
    BY <1>2, <2>1
<1>4. Once(u)
  <2>1. ASSUME NEW i \in 1..Len(u), NEW j \in 1..Len(u), u[i] = u[j]
        PROVE  i = j
    <3>1. CASE i \in 1..Len(s) /\ u[i] = s[i] /\ j \in 1..Len(s) /\ u[j] = s[j]
      BY <1>1, <2>1, <3>1 DEF Once
    <3>2. CASE /\ i - Len(s) \in 1..Len(t) /\ u[i] = t[i - Len(s)]
               /\ j - Len(s) \in 1..Len(t) /\ u[j] = t[j - Len(s)]
      <4>1. i - Len(s) = j - Len(s)
        BY <1>1, <2>1, <3>2 DEF Once
      <4> QED
        BY <1>2, <2>1, <4>1
    <3>3. u[i] \in Items(s) => u[i] \notin Items(t)
      OBVIOUS
    <3>4. CASE ~(i \in 1..Len(s) /\ u[i] = s[i]) /\ j \in 1..Len(s) /\ u[j] = s[j]
      BY <1>3, <2>1, <3>3, <3>4 DEF Items
    <3>5. CASE ~(j \in 1..Len(s) /\ u[j] = s[j]) /\ i \in 1..Len(s) /\ u[i] = s[i]
      BY <1>3, <2>1, <3>3, <3>5 DEF Items
    <3> QED
      BY <1>3, <3>1, <3>2, <3>4, <3>5
  <2> QED
    BY <2>1 DEF Once
<1>5. Items(u) \subseteq Items(s) \union Items(t)
  BY <1>3 DEF Items
<1>6. Items(s) \subseteq Items(u)
  BY <1>2 DEF Items
<1>7. Items(t) \subseteq Items(u)
  <2>1. \A i \in 1..Len(t) : Len(s) + i \in 1..Len(u)
    BY <1>2
  <2> QED
    BY <1>2, <2>1 DEF Items
<1>8. t # <<>> => u # <<>>
  BY <1>2
<1> QED
  BY <1>2, <1>4, <1>5, <1>6, <1>7, <1>8 DEF u, Arrays

\* All but the last, and the last.
LEMMA FrontArray ==
  ASSUME NEW s \in Arrays, s # <<>>
  PROVE  /\ SubSeq(s, 1, Len(s) - 1) \in Arrays
         /\ Items(SubSeq(s, 1, Len(s) - 1)) = Items(s) \ {s[Len(s)]}
         /\ s[Len(s)] \in Items(s)
<1> DEFINE n == Len(s) - 1
           front == SubSeq(s, 1, n)
<1>1. s \in Seq(Nat) /\ Once(s)
  BY DEF Arrays
<1>2. /\ Len(s) \in Nat \ {0} /\ front \in Seq(Nat) /\ Len(front) = n
      /\ \A i \in 1..n : front[i] = s[i]
  <2>1. Len(s) \in Nat \ {0} /\ \A i \in 1..n : s[i] \in Nat
    BY <1>1
  <2>2. /\ front \in Seq(Nat) /\ Len(front) = (IF 1 <= n THEN n - 1 + 1 ELSE 0)
        /\ \A i \in 1..n - 1 + 1 : front[i] = s[1 + i - 1]
    BY <2>1, SubSeqProperties
  <2>3. \A k \in Nat : 1..k - 1 + 1 = 1..k /\ (IF 1 <= k THEN k - 1 + 1 ELSE 0) = k
    OBVIOUS
  <2>4. n \in Nat /\ 1..n - 1 + 1 = 1..n /\ (IF 1 <= n THEN n - 1 + 1 ELSE 0) = n
    <3>1. n \in Nat
      BY <2>1
    <3> QED
      BY <2>3, <3>1
  <2> HIDE DEF front, n
  <2>5. \A i \in 1..n : front[i] = s[i]
    BY <2>2, <2>4
  <2> QED
    BY <2>1, <2>2, <2>4, <2>5
<1> HIDE DEF front
<1>3. Once(front)
  <2>1. \A i \in 1..Len(front) : i \in 1..Len(s) /\ front[i] = s[i]
    BY <1>2
  <2> QED
    BY <1>1, <2>1 DEF Once
<1>4. s[Len(s)] \in Items(s)
  BY <1>2 DEF Items
<1>5. Items(front) \subseteq Items(s) \ {s[Len(s)]}
  BY <1>1, <1>2 DEF Items, Once
<1>6. Items(s) \ {s[Len(s)]} \subseteq Items(front)
  BY <1>2 DEF Items
<1> QED
  BY <1>2, <1>3, <1>4, <1>5, <1>6 DEF front, Arrays

\* What is drained from a queue, and what stays.
LEMMA DrainArray ==
  ASSUME NEW q \in Queues, queue[q] \in Arrays, queue[q] # <<>>
  PROVE  /\ Taken(q) \in Arrays /\ Left(q) \in Arrays
         /\ Items(Taken(q)) \subseteq Items(queue[q])
         /\ Items(Left(q)) = Items(queue[q]) \ Items(Taken(q))
<1>1. CASE OneAtATime
  <2> DEFINE t == SubSeq(queue[q], 1, 1)
  <2>1. queue[q] \in Seq(Nat)
    BY DEF Arrays
  <2>2. /\ queue[q][1] = Head(queue[q]) /\ Head(queue[q]) \in Nat
        /\ \A i \in 1..1 : queue[q][i] \in Nat
    BY <2>1
  <2>3. t \in Seq(Nat) /\ Len(t) = 1 /\ t[1] = Head(queue[q])
    <3>1. /\ t \in Seq(Nat) /\ Len(t) = (IF 1 <= 1 THEN 1 - 1 + 1 ELSE 0)
          /\ \A i \in 1..1 - 1 + 1 : t[i] = queue[q][1 + i - 1]
      BY <2>2, SubSeqProperties
    <3> QED
      BY <2>2, <3>1
  <2> HIDE DEF t
  <2>4. t \in Arrays /\ Items(t) = {Head(queue[q])}
    <3>1. 1..Len(t) = {1}
      BY <2>3
    <3> QED
      BY <2>3, <3>1 DEF Arrays, Once, Items
  <2>5. Taken(q) = t /\ Left(q) = Tail(queue[q])
    BY <1>1 DEF Taken, Left, t
  <2> QED
    BY <2>4, <2>5, TailArray
<1>2. CASE ~OneAtATime
  BY <1>2, EmptyArray DEF Taken, Left
<1> QED
  BY <1>1, <1>2

\* The items of a reshaping.
LEMMA FreshArray ==
  ASSUME NEW n \in Nat, NEW m \in {n + 1, n + 2}
  PROVE  /\ [i \in 1..(m - n) |-> n + i] \in Arrays
         /\ [i \in 1..(m - n) |-> n + i] # <<>>
         /\ Items([i \in 1..(m - n) |-> n + i]) = (n + 1)..m
<1> DEFINE s == [i \in 1..(m - n) |-> n + i]
<1>1. s \in Seq(Nat) /\ Len(s) = m - n /\ m - n \in {1, 2} /\ m \in Nat
  OBVIOUS
<1>2. \A i \in 1..Len(s) : s[i] = n + i /\ s[i] \in (n + 1)..m
  BY <1>1
<1>3. \A x \in (n + 1)..m : x - n \in 1..Len(s) /\ s[x - n] = x
  BY <1>1
<1> HIDE DEF s
<1>4. Once(s)
  BY <1>1, <1>2 DEF Once
<1>5. Items(s) \subseteq (n + 1)..m
  BY <1>2 DEF Items
<1>6. (n + 1)..m \subseteq Items(s)
  BY <1>3 DEF Items
<1>7. s # <<>>
  BY <1>1
<1> QED
  BY <1>1, <1>4, <1>5, <1>6, <1>7 DEF s, Arrays

-----------------------------------------------------------------------------
(* Homes *)

LEMMA HomesDiffer ==
  /\ Pending # Session /\ Pending # Cleared /\ Pending # Dropped
  /\ Session # Cleared /\ Session # Dropped /\ Cleared # Dropped
  /\ \A q \in Queues : QueueOf(q) \notin {Pending, Session, Cleared, Dropped}
  /\ \A c \in Callers : HandOf(c) \notin {Pending, Session, Cleared, Dropped}
  /\ \A q \in Queues, c \in Callers : QueueOf(q) # HandOf(c)
  /\ \A q, r \in Queues : QueueOf(q) = QueueOf(r) => q = r
  /\ \A c, d \in Callers : HandOf(c) = HandOf(d) => c = d
BY DEF Pending, Session, Cleared, Dropped, QueueOf, HandOf

LEMMA HomesAre ==
  /\ {Pending, Session, Cleared, Dropped} \subseteq Homes
  /\ \A q \in Queues : QueueOf(q) \in Homes
  /\ \A c \in Callers : HandOf(c) \in Homes
  /\ \A h \in Homes :
       \/ h \in {Pending, Session, Cleared, Dropped}
       \/ \E q \in Queues : h = QueueOf(q)
       \/ \E c \in Callers : h = HandOf(c)
BY DEF Homes

LEMMA HeldIs ==
  /\ Held[Pending] = Items(pending) /\ Held[Session] = Items(session)
  /\ Held[Cleared] = cleared /\ Held[Dropped] = dropped
  /\ \A q \in Queues : Held[QueueOf(q)] = Items(queue[q])
  /\ \A c \in Callers : Held[HandOf(c)] = Items(InHand(c))
<1>1. /\ Pending \in Homes /\ Pending[1] = "pending"
      /\ Session \in Homes /\ Session[1] = "session"
      /\ Cleared \in Homes /\ Cleared[1] = "cleared"
      /\ Dropped \in Homes /\ Dropped[1] = "dropped"
  BY HomesAre DEF Pending, Session, Cleared, Dropped
<1>2. \A q \in Queues : QueueOf(q) \in Homes /\ QueueOf(q)[1] = "queue" /\ QueueOf(q)[2] = q
  BY HomesAre DEF QueueOf
<1>3. \A c \in Callers : HandOf(c) \in Homes /\ HandOf(c)[1] = "hand" /\ HandOf(c)[2] = c
  BY HomesAre DEF HandOf
<1>4. Held[Pending] = Items(pending) /\ Held[Session] = Items(session)
  BY <1>1 DEF Held
<1>5. Held[Cleared] = cleared /\ Held[Dropped] = dropped
  BY <1>1 DEF Held
<1>6. \A q \in Queues : Held[QueueOf(q)] = Items(queue[q])
  BY <1>2 DEF Held
<1>7. \A c \in Callers : Held[HandOf(c)] = Items(InHand(c))
  BY <1>3 DEF Held
<1> QED
  BY <1>4, <1>5, <1>6, <1>7

LEMMA HeldWillBe ==
  /\ Held'[Pending] = Items(pending') /\ Held'[Session] = Items(session')
  /\ Held'[Cleared] = cleared' /\ Held'[Dropped] = dropped'
  /\ \A q \in Queues : Held'[QueueOf(q)] = Items(queue'[q])
  /\ \A c \in Callers : Held'[HandOf(c)] = Items(InHand(c)')
<1>1. /\ Pending \in Homes /\ Pending[1] = "pending"
      /\ Session \in Homes /\ Session[1] = "session"
      /\ Cleared \in Homes /\ Cleared[1] = "cleared"
      /\ Dropped \in Homes /\ Dropped[1] = "dropped"
  BY HomesAre DEF Pending, Session, Cleared, Dropped
<1>2. \A q \in Queues : QueueOf(q) \in Homes /\ QueueOf(q)[1] = "queue" /\ QueueOf(q)[2] = q
  BY HomesAre DEF QueueOf
<1>3. \A c \in Callers : HandOf(c) \in Homes /\ HandOf(c)[1] = "hand" /\ HandOf(c)[2] = c
  BY HomesAre DEF HandOf
<1>4. Held'[Pending] = Items(pending') /\ Held'[Session] = Items(session')
  BY <1>1 DEF Held, Items
<1>5. Held'[Cleared] = cleared' /\ Held'[Dropped] = dropped'
  BY <1>1 DEF Held
<1>6. \A q \in Queues : Held'[QueueOf(q)] = Items(queue'[q])
  BY <1>2 DEF Held, Items
<1>7. \A c \in Callers : Held'[HandOf(c)] = Items(InHand(c)')
  BY <1>3 DEF Held, Items, InHand
<1> QED
  BY <1>4, <1>5, <1>6, <1>7

\* Some of what is at one home goes to another.
Moved(P, Q, g, h, X) ==
  /\ g \in Homes /\ h \in Homes /\ g # h /\ X \subseteq P[g]
  /\ Q[g] = P[g] \ X /\ Q[h] = P[h] \union X
  /\ \A k \in Homes : k # g /\ k # h => Q[k] = P[k]

LEMMA MovesHome ==
  ASSUME NEW n \in Nat, NEW P, NEW Q, NEW g, NEW h, NEW X,
         Moved(P, Q, g, h, X), Partition(P, n)
  PROVE  Partition(Q, n)
<1> USE DEF Moved
<1>1. \A k \in Homes : Q[k] \subseteq 1..n
  BY DEF Partition
<1>2. ASSUME NEW i \in 1..n
      PROVE  \E k \in Homes : i \in Q[k]
  <2>1. PICK k \in Homes : i \in P[k]
    BY DEF Partition
  <2> QED
    BY <2>1
<1>3. ASSUME NEW k \in Homes, NEW l \in Homes, NEW i \in 1..n, i \in Q[k], i \in Q[l]
      PROVE  k = l
  <2>1. CASE i \in X
    <3>1. \A m \in Homes : i \in P[m] => m = g
      BY <2>1 DEF Partition
    <3>2. \A m \in Homes : i \in Q[m] => m = h
      BY <2>1, <3>1
    <3> QED
      BY <1>3, <3>2
  <2>2. CASE i \notin X
    <3>1. \A m \in Homes : i \in Q[m] => i \in P[m]
      BY <2>2
    <3> QED
      BY <1>3, <3>1 DEF Partition
  <2> QED
    BY <2>1, <2>2
<1> QED
  BY <1>1, <1>2, <1>3 DEF Partition

\* New items come to one home.
Came(P, Q, h, X) ==
  /\ h \in Homes /\ Q[h] = P[h] \union X
  /\ \A k \in Homes : k # h => Q[k] = P[k]

LEMMA ComeHome ==
  ASSUME NEW n \in Nat, NEW m \in Nat, n <= m, NEW P, NEW Q, NEW h,
         Came(P, Q, h, (n + 1)..m), Partition(P, n)
  PROVE  Partition(Q, m)
<1> USE DEF Came
<1>1. \A i \in 1..m : (i \in 1..n /\ i \notin (n + 1)..m) \/ (i \in (n + 1)..m /\ i \notin 1..n)
  OBVIOUS
<1>2. 1..n \subseteq 1..m /\ (n + 1)..m \subseteq 1..m
  OBVIOUS
<1>3. \A k \in Homes : Q[k] \subseteq 1..m
  BY <1>2 DEF Partition
<1>4. ASSUME NEW i \in 1..m
      PROVE  \E k \in Homes : i \in Q[k]
  BY <1>1 DEF Partition
<1>5. ASSUME NEW k \in Homes, NEW l \in Homes, NEW i \in 1..m, i \in Q[k], i \in Q[l]
      PROVE  k = l
  <2>1. CASE i \in 1..n /\ i \notin (n + 1)..m
    <3>1. i \in P[k] /\ i \in P[l]
      BY <1>5, <2>1
    <3> QED
      BY <2>1, <3>1 DEF Partition
  <2>2. CASE i \in (n + 1)..m /\ i \notin 1..n
    <3>1. \A j \in Homes : i \notin P[j]
      BY <2>2 DEF Partition
    <3> QED
      BY <1>5, <3>1
  <2> QED
    BY <1>1, <2>1, <2>2
<1> QED
  BY <1>3, <1>4, <1>5 DEF Partition

\* Nothing moves.
LEMMA StayHome ==
  ASSUME NEW n, NEW P, NEW Q, Partition(P, n), \A k \in Homes : Q[k] = P[k]
  PROVE  Partition(Q, n)
BY DEF Partition

-----------------------------------------------------------------------------
(* How items move *)

Others(c) ==
  \A d \in Callers \ {c} :
    pc'[d] = pc[d] /\ todo'[d] = todo[d] /\ next'[d] = next[d]

LEMMA OthersKeep ==
  ASSUME ItemInv, NEW c \in Callers, Others(c), pending' = pending
  PROVE  \A d \in Callers \ {c} : HandAt(d)' /\ InHand(d)' = InHand(d)
BY DEF Others, ItemInv, HandAt, InHand

\* Two homes share nothing, and a new item is at none.
LEMMA Apart ==
  ASSUME ItemInv
  PROVE  /\ items \in Nat
         /\ \A g, h \in Homes : g # h => Held[g] \intersect Held[h] = {}
         /\ \A h \in Homes : Held[h] \subseteq 1..items /\ items + 1 \notin Held[h]
<1>1. items \in Nat /\ Partition(Held, items)
  BY DEF ItemInv, ArrayTypes
<1>2. \A h \in Homes : Held[h] \subseteq 1..items
  BY <1>1 DEF Partition
<1>3. items + 1 \notin 1..items
  BY <1>1
<1>4. \A g, h \in Homes : g # h => Held[g] \intersect Held[h] = {}
  BY <1>1, <1>2 DEF Partition
<1> QED
  BY <1>1, <1>2, <1>3, <1>4

LEMMA HandArray ==
  ASSUME ItemInv, NEW c \in Callers
  PROVE  /\ InHand(c) \in Arrays /\ todo[c] \in Arrays
         /\ pc[c] # "flushing" => InHand(c) = todo[c]
         /\ pc[c] = "flushing" => InHand(c) = <<>>
BY EmptyArray DEF InHand, ItemInv, ArrayTypes

\* What a caller has in hand goes back to a queue or is dropped, and it may
\* get new items.
Gives(c, q, X, s, t) ==
  /\ X \subseteq Items(InHand(c))
  /\ items' \in Nat /\ items <= items' /\ Items(s) = (items + 1)..items'
  /\ todo' = [todo EXCEPT ![c] = s] /\ pc'[c] # "flushing"
  /\ queue' = [queue EXCEPT ![q] = t] /\ Items(t) = Items(queue[q]) \union X
  /\ dropped' = dropped \union (Items(InHand(c)) \ X)
  /\ UNCHANGED <<pending, session, cleared>>
  /\ \A d \in Callers \ {c} : InHand(d)' = InHand(d)

LEMMA Given ==
  ASSUME ItemInv, NEW c \in Callers, NEW q \in Queues, NEW X, NEW s \in Arrays,
         NEW t \in Arrays, Gives(c, q, X, s, t)
  PROVE  ArrayTypes' /\ Partition(Held', items')
<1> USE DEF Gives
<1> DEFINE Y == Items(InHand(c)) \ X
           P == [Held EXCEPT ![HandOf(c)] = @ \ X, ![QueueOf(q)] = @ \union X]
           Q == [P EXCEPT ![HandOf(c)] = @ \ Y, ![Dropped] = @ \union Y]
<1>1. ArrayTypes'
  BY DEF ItemInv, ArrayTypes
<1>2. /\ HandOf(c) \in Homes /\ QueueOf(q) \in Homes /\ Dropped \in Homes
      /\ HandOf(c) # QueueOf(q) /\ HandOf(c) # Dropped /\ QueueOf(q) # Dropped
  BY HomesAre, HomesDiffer
<1>3. /\ P[HandOf(c)] = Held[HandOf(c)] \ X /\ P[QueueOf(q)] = Held[QueueOf(q)] \union X
      /\ \A k \in Homes : k # HandOf(c) /\ k # QueueOf(q) => P[k] = Held[k]
  BY <1>2 DEF Held
<1>4. /\ Q[HandOf(c)] = P[HandOf(c)] \ Y /\ Q[Dropped] = P[Dropped] \union Y
      /\ \A k \in Homes : k # HandOf(c) /\ k # Dropped => Q[k] = P[k]
  BY <1>2 DEF Held
<1> HIDE DEF P, Q
<1>5. Partition(P, items)
  <2>1. Moved(Held, P, HandOf(c), QueueOf(q), X)
    BY <1>2, <1>3, HeldIs DEF Moved
  <2> QED
    BY <2>1, Apart, MovesHome DEF ItemInv
<1>6. Partition(Q, items)
  <2>1. Moved(P, Q, HandOf(c), Dropped, Y)
    BY <1>2, <1>3, <1>4, HeldIs DEF Moved
  <2> QED
    BY <1>5, <2>1, Apart, MovesHome
<1>7. Held'[HandOf(c)] = Q[HandOf(c)] \union ((items + 1)..items')
  <2>1. Q[HandOf(c)] = {}
    BY <1>2, <1>3, <1>4, HeldIs
  <2>2. InHand(c)' = s
    BY DEF InHand, ItemInv, ArrayTypes
  <2> QED
    BY <2>1, <2>2, HeldWillBe
<1>8. ASSUME NEW k \in Homes, k # HandOf(c)
      PROVE  Held'[k] = Q[k]
  <2>1. CASE k \in {Pending, Session, Cleared}
    BY <1>2, <1>3, <1>4, <2>1, HeldIs, HeldWillBe, HomesDiffer
  <2>2. CASE k = Dropped
    BY <1>2, <1>3, <1>4, <2>2, HeldIs, HeldWillBe, HomesDiffer
  <2>3. ASSUME NEW r \in Queues, k = QueueOf(r)
        PROVE  Held'[k] = Q[k]
    <3>1. queue'[r] = IF r = q THEN t ELSE queue[r]
      BY DEF ItemInv, ArrayTypes
    <3>2. k # Dropped /\ (k = QueueOf(q) => r = q)
      BY <2>3, HomesDiffer
    <3>3. Held'[k] = Items(queue'[r]) /\ Held[k] = Items(queue[r])
      BY <2>3, HeldIs, HeldWillBe
    <3>4. CASE r = q
      BY <1>2, <1>3, <1>4, <2>3, <3>1, <3>3, <3>4
    <3>5. CASE r # q
      BY <1>3, <1>4, <1>8, <2>3, <3>1, <3>2, <3>3, <3>5
    <3> QED
      BY <3>4, <3>5
  <2>4. ASSUME NEW d \in Callers, k = HandOf(d)
        PROVE  Held'[k] = Q[k]
    BY <1>2, <1>3, <1>4, <1>8, <2>4, HeldIs, HeldWillBe, HomesDiffer
  <2> QED
    BY <2>1, <2>2, <2>3, <2>4, HomesAre
<1>9. Partition(Held', items')
  <2>1. Came(Q, Held', HandOf(c), (items + 1)..items')
    BY <1>2, <1>7, <1>8 DEF Came
  <2> QED
    BY <1>6, <2>1, Apart, ComeHome
<1> QED
  BY <1>1, <1>9

\* Only the hand changes: what was in it is dropped or there was nothing,
\* and it may get new items.
LEMMA Renewed ==
  ASSUME ItemInv, NEW c \in Callers, NEW s \in Arrays,
         items' \in Nat, items <= items', Items(s) = (items + 1)..items',
         todo' = [todo EXCEPT ![c] = s], pc'[c] # "flushing",
         dropped' = dropped \union Items(InHand(c)),
         UNCHANGED <<pending, queue, session, cleared>>,
         \A d \in Callers \ {c} : InHand(d)' = InHand(d)
  PROVE  ArrayTypes' /\ Partition(Held', items')
<1>1. "steer" \in Queues
  BY DEF Queues
<1>2. queue' = [queue EXCEPT !["steer"] = queue["steer"]] /\ queue["steer"] \in Arrays
  BY <1>1 DEF ItemInv, ArrayTypes
<1>3. /\ {} \subseteq Items(InHand(c)) /\ Items(InHand(c)) \ {} = Items(InHand(c))
      /\ Items(queue["steer"]) = Items(queue["steer"]) \union {}
  OBVIOUS
<1>4. dropped' = dropped \union (Items(InHand(c)) \ {})
  BY <1>3
<1>5. Gives(c, "steer", {}, s, queue["steer"])
  BY <1>2, <1>3, <1>4 DEF Gives
<1> QED
  BY <1>1, <1>2, <1>5, Given

\* Some of a queue is taken in hand.
Takes(c, q, X, s, t) ==
  /\ X \subseteq Items(queue[q]) /\ Items(s) = Items(InHand(c)) \union X
  /\ todo' = [todo EXCEPT ![c] = s] /\ pc'[c] # "flushing"
  /\ queue' = [queue EXCEPT ![q] = t] /\ Items(t) = Items(queue[q]) \ X
  /\ UNCHANGED <<pending, session, cleared, dropped, items>>
  /\ \A d \in Callers \ {c} : InHand(d)' = InHand(d)

LEMMA TakenUp ==
  ASSUME ItemInv, NEW c \in Callers, NEW q \in Queues, NEW X, NEW s \in Arrays,
         NEW t \in Arrays, Takes(c, q, X, s, t)
  PROVE  ArrayTypes' /\ Partition(Held', items')
<1> USE DEF Takes
<1>1. ArrayTypes'
  BY DEF ItemInv, ArrayTypes
<1>2. HandOf(c) \in Homes /\ QueueOf(q) \in Homes /\ HandOf(c) # QueueOf(q)
  BY HomesAre, HomesDiffer
<1>3. Held'[HandOf(c)] = Held[HandOf(c)] \union X
  <2>1. InHand(c)' = s
    BY DEF InHand, ItemInv, ArrayTypes
  <2> QED
    BY <2>1, HeldIs, HeldWillBe
<1>4. \A r \in Queues : queue'[r] = IF r = q THEN t ELSE queue[r]
  BY DEF ItemInv, ArrayTypes
<1>5. Held'[QueueOf(q)] = Held[QueueOf(q)] \ X
  BY <1>4, HeldIs, HeldWillBe
<1>6. ASSUME NEW k \in Homes, k # HandOf(c), k # QueueOf(q)
      PROVE  Held'[k] = Held[k]
  <2>1. CASE k \in {Pending, Session, Cleared, Dropped}
    BY <2>1, HeldIs, HeldWillBe
  <2>2. ASSUME NEW r \in Queues, k = QueueOf(r)
        PROVE  Held'[k] = Held[k]
    BY <1>4, <1>6, <2>2, HeldIs, HeldWillBe
  <2>3. ASSUME NEW d \in Callers, k = HandOf(d)
        PROVE  Held'[k] = Held[k]
    BY <1>6, <2>3, HeldIs, HeldWillBe
  <2> QED
    BY <2>1, <2>2, <2>3, HomesAre
<1>7. X \subseteq Held[QueueOf(q)]
  BY HeldIs
<1>8. Moved(Held, Held', QueueOf(q), HandOf(c), X)
  BY <1>2, <1>3, <1>5, <1>6, <1>7 DEF Moved
<1>9. Partition(Held', items)
  BY <1>8, Apart, MovesHome DEF ItemInv
<1> QED
  BY <1>1, <1>9

\* The first item in hand is appended to the session.
LEMMA Appended ==
  ASSUME ItemInv, NEW c \in Callers, pc[c] # "flushing", pc'[c] # "flushing",
         todo[c] # <<>>, todo' = [todo EXCEPT ![c] = Tail(todo[c])],
         session' = Append(session, Head(todo[c])),
         UNCHANGED <<pending, queue, cleared, dropped, items>>,
         \A d \in Callers \ {c} : InHand(d)' = InHand(d)
  PROVE  ArrayTypes' /\ Partition(Held', items')
<1> DEFINE x == Head(todo[c])
<1>1. HandOf(c) \in Homes /\ Session \in Homes /\ HandOf(c) # Session
  BY HomesAre, HomesDiffer
<1>2. /\ InHand(c) = todo[c] /\ todo[c] \in Arrays
      /\ Tail(todo[c]) \in Arrays /\ Items(Tail(todo[c])) = Items(todo[c]) \ {x}
      /\ x \in Items(todo[c]) /\ x \in Nat
  BY HandArray, TailArray
<1>3. x \notin Items(session) /\ session \in Arrays
  BY <1>1, <1>2, Apart, HeldIs DEF ItemInv, ArrayTypes
<1>4. session' \in Arrays /\ Items(session') = Items(session) \union {x}
  BY <1>2, <1>3, AppendArray
<1>5. ArrayTypes'
  BY <1>2, <1>4 DEF ItemInv, ArrayTypes
<1>6. Held'[HandOf(c)] = Held[HandOf(c)] \ {x}
  <2>1. InHand(c)' = Tail(todo[c])
    BY DEF InHand, ItemInv, ArrayTypes
  <2> QED
    BY <1>2, <2>1, HeldIs, HeldWillBe
<1>7. Held'[Session] = Held[Session] \union {x}
  BY <1>4, HeldIs, HeldWillBe
<1>8. \A k \in Homes : k # HandOf(c) /\ k # Session => Held'[k] = Held[k]
  <2>1. ASSUME NEW k \in {Pending, Cleared, Dropped} \union {QueueOf(q) : q \in Queues}
        PROVE  Held'[k] = Held[k]
    BY <2>1, HeldIs, HeldWillBe
  <2>2. ASSUME NEW d \in Callers, d # c
        PROVE  Held'[HandOf(d)] = Held[HandOf(d)]
    BY <2>2, HeldIs, HeldWillBe
  <2> QED
    BY <2>1, <2>2, HomesAre
<1>9. Moved(Held, Held', HandOf(c), Session, {x})
  BY <1>1, <1>2, <1>6, <1>7, <1>8, HeldIs DEF Moved
<1>10. Partition(Held', items)
  BY <1>9, Apart, MovesHome DEF ItemInv
<1> QED
  BY <1>5, <1>10

\* The first pending item is appended to the session.
LEMMA FlushedItem ==
  ASSUME ItemInv, NEW c \in Callers, pc[c] = "flushing", pc'[c] # "flushing",
         pending # <<>>, todo' = [todo EXCEPT ![c] = <<>>],
         session' = Append(session, Head(pending)), pending' = Tail(pending),
         UNCHANGED <<queue, cleared, dropped, items>>,
         \A d \in Callers \ {c} : InHand(d)' = InHand(d)
  PROVE  ArrayTypes' /\ Partition(Held', items')
<1> DEFINE x == Head(pending)
<1>1. Pending \in Homes /\ Session \in Homes /\ Pending # Session
  BY HomesAre, HomesDiffer
<1>2. /\ pending' \in Arrays /\ Items(pending') = Items(pending) \ {x}
      /\ x \in Items(pending) /\ x \in Nat
  BY TailArray DEF ItemInv, ArrayTypes
<1>3. x \notin Items(session) /\ session \in Arrays
  BY <1>1, <1>2, Apart, HeldIs DEF ItemInv, ArrayTypes
<1>4. session' \in Arrays /\ Items(session') = Items(session) \union {x}
  BY <1>2, <1>3, AppendArray
<1>5. ArrayTypes'
  BY <1>2, <1>4, EmptyArray DEF ItemInv, ArrayTypes
<1>6. Held'[Pending] = Held[Pending] \ {x}
  BY <1>2, HeldIs, HeldWillBe
<1>7. Held'[Session] = Held[Session] \union {x}
  BY <1>4, HeldIs, HeldWillBe
<1>8. \A k \in Homes : k # Pending /\ k # Session => Held'[k] = Held[k]
  <2>1. ASSUME NEW k \in {Cleared, Dropped} \union {QueueOf(q) : q \in Queues}
        PROVE  Held'[k] = Held[k]
    BY <2>1, HeldIs, HeldWillBe
  <2>2. InHand(c)' = InHand(c)
    BY DEF InHand, ItemInv, ArrayTypes
  <2>3. \A d \in Callers : Held'[HandOf(d)] = Held[HandOf(d)]
    BY <2>2, HeldIs, HeldWillBe
  <2> QED
    BY <2>1, <2>3, HomesAre
<1>9. Moved(Held, Held', Pending, Session, {x})
  BY <1>1, <1>2, <1>6, <1>7, <1>8, HeldIs DEF Moved
<1>10. Partition(Held', items)
  BY <1>9, Apart, MovesHome DEF ItemInv
<1> QED
  BY <1>5, <1>10

-----------------------------------------------------------------------------
(* The steps *)

\* A step that moves nothing.
Quiet(c) ==
  /\ Others(c)
  /\ UNCHANGED <<pending, queue, session, todo, items, cleared, dropped>>
  /\ pc[c] # "flushing" /\ pc'[c] # "flushing"
  /\ \/ pc'[c] \in Handless /\ todo[c] = <<>>
     \/ pc'[c] \in {"hook", "emitting", "reshaping"} /\ todo[c] # <<>>
     \/ pc'[c] = "emit"

LEMMA QuietKeeps ==
  ASSUME ItemInv, NEW c \in Callers, Quiet(c)
  PROVE  ItemInv'
<1>1. HandAt(c)'
  BY DEF Quiet, HandAt, Handless
<1>2. InHand(c)' = InHand(c)
  BY DEF Quiet, InHand
<1>3. \A d \in Callers \ {c} : HandAt(d)' /\ InHand(d)' = InHand(d)
  BY OthersKeep DEF Quiet
<1>4. \A k \in Homes : Held'[k] = Held[k]
  <2>1. ASSUME NEW k \in {Pending, Session, Cleared, Dropped}
                           \union {QueueOf(q) : q \in Queues}
        PROVE  Held'[k] = Held[k]
    BY <2>1, HeldIs, HeldWillBe DEF Quiet
  <2>2. \A d \in Callers : Held'[HandOf(d)] = Held[HandOf(d)]
    BY <1>2, <1>3, HeldIs, HeldWillBe
  <2> QED
    BY <2>1, <2>2, HomesAre
<1>5. Partition(Held', items')
  BY <1>4, StayHome DEF ItemInv, Quiet
<1>6. ArrayTypes'
  BY DEF ItemInv, ArrayTypes, Quiet
<1> QED
  BY <1>1, <1>3, <1>5, <1>6 DEF ItemInv

LEMMA QuietSteps ==
  ASSUME ItemInv, Control, NEW c \in Callers,
         \/ QueueTold(c) \/ Launch(c) \/ Emit(c) \/ Emitted(c) \/ Polled(c)
         \/ TurnEnd(c) \/ Flushed(c) \/ AfterSave(c) \/ Refresh(c)
         \/ AgentEnd(c) \/ Ended(c) \/ Closing(c) \/ Return(c)
         \/ AbortWaits(c) \/ WaitForIdle(c) \/ AbortReturns(c) \/ ReshapeWrite(c)
  PROVE  Quiet(c)
<1>1. HandAt(c)
  BY DEF ItemInv
<1>2. /\ pc \in [Callers -> Places] /\ next \in [Callers -> Targets]
      /\ pc[c] = "emit" => next[c] \in {"poll", "request", "turnEnd"}
      /\ pc[c] = "flush" =>
           next[c] \in {"saved", "rethrow", "refresh", "agentEnd", "closing"}
  BY DEF Control
<1>3. CASE QueueTold(c) \/ Launch(c)
  BY <1>1, <1>2, <1>3 DEF QueueTold, Launch, Moves, Goes, At, rest, shared,
     run, history, waits, noted, Quiet, Others, HandAt, Handless
<1>4. CASE Emit(c) \/ Emitted(c)
  BY <1>1, <1>2, <1>4 DEF Emit, Emitted, Moves, At, rest, shared, run, history,
     waits, noted, Quiet, Others, HandAt, Handless
<1>5. CASE Polled(c)
  BY <1>1, <1>2, <1>5 DEF Polled, MovesOn, Goes, At, rest, shared, run,
     history, waits, noted, Quiet, Others, HandAt, Handless
<1>6. CASE TurnEnd(c)
  BY <1>1, <1>2, <1>6 DEF TurnEnd, Goes, At, shared, run, history, waits,
     noted, Quiet, Others, HandAt, Handless
<1>7. CASE Flushed(c)
  BY <1>1, <1>2, <1>7 DEF Flushed, Moves, At, rest, shared, run, history,
     waits, noted, Quiet, Others, HandAt, Handless
<1>8. CASE AfterSave(c)
  BY <1>1, <1>2, <1>8 DEF AfterSave, MovesOn, Goes, At, rest, shared, run,
     history, waits, noted, Quiet, Others, HandAt, Handless
<1>9. CASE Refresh(c) \/ AgentEnd(c)
  BY <1>1, <1>2, <1>9 DEF Refresh, AgentEnd, At, shared, run, history, waits,
     noted, Quiet, Others, HandAt, Handless
<1>10. CASE Ended(c)
  BY <1>1, <1>2, <1>10 DEF Ended, MovesOn, Goes, At, rest, shared, run,
     history, waits, noted, Quiet, Others, HandAt, Handless
<1>11. CASE Closing(c) \/ Return(c)
  BY <1>1, <1>2, <1>11 DEF Closing, Return, Goes, At, shared, run, history,
     waits, noted, Quiet, Others, HandAt, Handless
<1>12. CASE AbortWaits(c) \/ WaitForIdle(c) \/ AbortReturns(c)
  BY <1>1, <1>2, <1>12 DEF AbortWaits, WaitForIdle, Joins, AbortReturns, Moves,
     At, rest, shared, run, history, waits, noted, Quiet, Others, HandAt,
     Handless
<1>13. CASE ReshapeWrite(c)
  BY <1>1, <1>2, <1>13 DEF ReshapeWrite, Moves, At, rest, shared, run, history,
     waits, noted, Quiet, Others, HandAt, Handless
<1> QED
  BY <1>3, <1>4, <1>5, <1>6, <1>7, <1>8, <1>9, <1>10, <1>11, <1>12, <1>13

\* Steps after which a caller has nothing in hand, or something new; what it
\* had is dropped.
Renews(c) ==
  /\ Others(c)
  /\ UNCHANGED <<pending, queue, session, cleared>>
  /\ dropped' = dropped \union Items(InHand(c))
  /\ pc'[c] # "flushing" /\ HandAt(c)'
  /\ todo' \in [Callers -> Arrays]
  /\ items' \in Nat /\ items <= items' /\ Items(todo'[c]) = (items + 1)..items'

LEMMA RenewsKeeps ==
  ASSUME ItemInv, NEW c \in Callers, Renews(c)
  PROVE  ItemInv'
<1>1. \A d \in Callers \ {c} : HandAt(d)' /\ InHand(d)' = InHand(d)
  BY OthersKeep DEF Renews
<1>2. todo' = [todo EXCEPT ![c] = todo'[c]] /\ todo'[c] \in Arrays
  BY DEF Renews, Others, ItemInv, ArrayTypes
<1>3. ArrayTypes' /\ Partition(Held', items')
  BY <1>1, <1>2, Renewed DEF Renews
<1> QED
  BY <1>1, <1>3 DEF ItemInv, Renews

\* What Fails puts into the caller's hand.
LEMMA FailsHand ==
  ASSUME ItemInv, Control, NEW c \in Callers, NEW lost, Fails(c, lost)
  PROVE  /\ Others(c) /\ pc'[c] \in {"emit", "flush"} /\ HandAt(c)'
         /\ dropped' = dropped \union lost
         /\ todo' \in [Callers -> Arrays]
         /\ items' \in Nat /\ items <= items'
         /\ Items(todo'[c]) = (items + 1)..items'
<1>1. /\ pc \in [Callers -> Places] /\ next \in [Callers -> Targets]
      /\ todo \in [Callers -> Arrays] /\ items \in Nat
  BY DEF Control, ItemInv, ArrayTypes
<1>2. CASE mode[c] = "loop"
  <2>1. /\ pc' = [pc EXCEPT ![c] = "emit"] /\ next' = [next EXCEPT ![c] = "turnEnd"]
        /\ todo' = [todo EXCEPT ![c] = <<items + 1>>] /\ items' = items + 1
        /\ dropped' = dropped \union lost
    BY <1>2 DEF Fails, Goes, At, Holds
  <2>2. <<items + 1>> \in Arrays /\ Items(<<items + 1>>) = (items + 1)..items'
    BY <1>1, <2>1, OneItem
  <2> QED
    BY <1>1, <2>1, <2>2 DEF Others, HandAt, Handless
<1>3. CASE mode[c] # "loop"
  <2>1. /\ pc' = [pc EXCEPT ![c] = "flush"] /\ next' = [next EXCEPT ![c] = "closing"]
        /\ todo' = [todo EXCEPT ![c] = <<>>] /\ items' = items
        /\ dropped' = dropped \union lost
    BY <1>3 DEF Fails, Goes, At, Holds
  <2>2. <<>> \in Arrays /\ Items(<<>>) = (items + 1)..items'
    <3>1. (items + 1)..items = {}
      BY <1>1
    <3> QED
      BY <2>1, <3>1, EmptyArray
  <2> QED
    BY <1>1, <2>1, <2>2 DEF Others, HandAt, Handless
<1> QED
  BY <1>2, <1>3

LEMMA ErrorRenews ==
  ASSUME ItemInv, Control, NEW c \in Callers,
         \/ Throws(c) \/ Rethrows(c) \/ EmitFails(c)
         \/ FlushFails(c) /\ next[c] # "closing"
  PROVE  Renews(c)
<1>1. HandAt(c) /\ InHand(c) = (IF pc[c] = "flushing" THEN <<>> ELSE todo[c])
  BY DEF ItemInv, InHand
<1>2. PICK lost : Fails(c, lost) /\ lost = Items(InHand(c))
  <2>1. CASE Throws(c) \/ EmitFails(c)
    BY <1>1, <2>1 DEF Throws, EmitFails
  <2>2. CASE Rethrows(c)
    BY <1>1, <2>2, EmptyArray DEF Rethrows, HandAt, Handless
  <2>3. CASE FlushFails(c) /\ next[c] # "closing"
    BY <1>1, <2>3, EmptyArray DEF FlushFails
  <2> QED
    BY <2>1, <2>2, <2>3
<1>3. UNCHANGED <<pending, queue, session, cleared>>
  BY DEF Throws, Rethrows, EmitFails, FlushFails
<1>4. /\ Others(c) /\ pc'[c] \in {"emit", "flush"} /\ HandAt(c)'
      /\ dropped' = dropped \union lost
      /\ todo' \in [Callers -> Arrays]
      /\ items' \in Nat /\ items <= items'
      /\ Items(todo'[c]) = (items + 1)..items'
  BY <1>2, FailsHand
<1> QED
  BY <1>2, <1>3, <1>4 DEF Renews

LEMMA HandEmptied ==
  ASSUME ItemInv, Control, NEW c \in Callers, NEW place \in Handless,
         pc' = [pc EXCEPT ![c] = place], todo' = [todo EXCEPT ![c] = <<>>],
         dropped' = dropped \union Items(InHand(c)),
         UNCHANGED <<pending, queue, session, next, items, cleared>>
  PROVE  Renews(c)
<1>1. /\ pc \in [Callers -> Places] /\ todo \in [Callers -> Arrays] /\ items \in Nat
  BY DEF Control, ItemInv, ArrayTypes
<1>2. (items + 1)..items' = {} /\ items' \in Nat /\ items <= items'
  BY <1>1
<1>3. Others(c) /\ pc'[c] = place /\ todo'[c] = <<>>
  BY <1>1 DEF Others
<1>4. HandAt(c)' /\ pc'[c] # "flushing"
  BY <1>3 DEF HandAt, Handless
<1>5. todo' \in [Callers -> Arrays] /\ Items(todo'[c]) = {}
  BY <1>1, <1>3, EmptyArray
<1> QED
  BY <1>1, <1>2, <1>3, <1>4, <1>5 DEF Renews

LEMMA OtherRenews ==
  ASSUME ItemInv, Control, NEW c \in Callers,
         \/ Prompt(c) \/ Answer(c) \/ Reshape(c) \/ ReshapeEnd(c) \/ AppendFails(c)
         \/ EarlyError(c) /\ pc[c] # "queued"
         \/ FlushFails(c) /\ next[c] = "closing"
         \/ AppendItem(c) /\ phase = "idle"
  PROVE  Renews(c)
<1>1. /\ pc \in [Callers -> Places] /\ next \in [Callers -> Targets]
      /\ todo \in [Callers -> Arrays] /\ items \in Nat /\ HandAt(c)
      /\ InHand(c) = (IF pc[c] = "flushing" THEN <<>> ELSE todo[c])
  BY DEF Control, ItemInv, ArrayTypes, InHand
<1>2. /\ <<items + 1>> \in Arrays /\ Items(<<items + 1>>) = (items + 1)..(items + 1)
      /\ <<items + 1>> # <<>> /\ Tail(<<items + 1>>) = <<>>
  BY <1>1, OneItem
<1>3. <<>> \in Arrays /\ Items(<<>>) = {} /\ (items + 1)..items = {}
  BY <1>1, EmptyArray
<1>4. CASE Prompt(c)
  BY <1>1, <1>2, <1>3, <1>4 DEF Prompt, Holds, At, history, waits, noted,
     Renews, Others, HandAt, Handless
<1>5. CASE Answer(c)
  BY <1>1, <1>2, <1>3, <1>5 DEF Answer, Holds, Goes, At, shared, history,
     waits, noted, Renews, Others, HandAt, Handless
<1>6. CASE AppendItem(c) /\ phase = "idle"
  <2>1. /\ pc[c] = "idle" /\ pc' = [pc EXCEPT ![c] = "appending"]
        /\ todo' = [todo EXCEPT ![c] = <<items + 1>>] /\ items' = items + 1
        /\ UNCHANGED <<pending, queue, session, next, cleared, dropped>>
    BY <1>6 DEF AppendItem, Holds, At, shared, run
  <2>2. InHand(c) = <<>>
    BY <1>1, <2>1 DEF HandAt, Handless
  <2> QED
    BY <1>1, <1>2, <1>3, <2>1, <2>2 DEF Renews, Others, HandAt, Handless
<1>7. CASE Reshape(c)
  <2> DEFINE s == [i \in 1..(items' - items) |-> items + i]
  <2>1. items' \in {items + 1, items + 2} /\ todo' = [todo EXCEPT ![c] = s]
    BY <1>7 DEF Reshape, Holds
  <2>2. s \in Arrays /\ s # <<>> /\ Items(s) = (items + 1)..items'
    BY <1>1, <2>1, FreshArray
  <2> HIDE DEF s
  <2> QED
    BY <1>1, <1>3, <1>7, <2>1, <2>2 DEF Reshape, At, run, history, waits,
       noted, Renews, Others, HandAt, Handless
<1>8. CASE ReshapeEnd(c) \/ AppendFails(c)
  <2>1. /\ pc' = [pc EXCEPT ![c] = "idle"] /\ todo' = [todo EXCEPT ![c] = <<>>]
        /\ dropped' = dropped \union Items(todo[c]) /\ pc[c] # "flushing"
        /\ UNCHANGED <<pending, queue, session, next, items, cleared>>
    BY <1>8 DEF ReshapeEnd, AppendFails, Reshaping, Holds, At, shared, run
  <2>2. "idle" \in Handless /\ InHand(c) = todo[c]
    BY <1>1, <2>1 DEF Handless
  <2> QED
    BY <2>1, <2>2, HandEmptied
<1>9. CASE EarlyError(c) /\ pc[c] # "queued"
  <2>1. /\ pc' = [pc EXCEPT ![c] = "returning"] /\ todo' = [todo EXCEPT ![c] = <<>>]
        /\ dropped' = dropped \union Items(todo[c]) /\ pc[c] # "flushing"
        /\ UNCHANGED <<pending, queue, session, next, items, cleared>>
    BY <1>9 DEF EarlyError, Holds, At, shared
  <2>2. "returning" \in Handless /\ InHand(c) = todo[c]
    BY <1>1, <2>1 DEF Handless
  <2> QED
    BY <2>1, <2>2, HandEmptied
<1>10. CASE FlushFails(c) /\ next[c] = "closing"
  <2>1. /\ pc' = [pc EXCEPT ![c] = "closing"] /\ todo' = [todo EXCEPT ![c] = <<>>]
        /\ pc[c] = "flushing"
        /\ UNCHANGED <<pending, queue, session, next, items, cleared, dropped>>
    BY <1>10 DEF FlushFails, Holds, At, shared
  <2>2. "closing" \in Handless /\ dropped' = dropped \union Items(InHand(c))
    BY <1>1, <1>3, <2>1 DEF Handless
  <2> QED
    BY <2>1, <2>2, HandEmptied
<1> QED
  BY <1>4, <1>5, <1>6, <1>7, <1>8, <1>9, <1>10

\* What is drained from a queue, or taken at the beginning of a run.
LEMMA DrainKeeps ==
  ASSUME ItemInv, Control, NEW c \in Callers, NEW q \in Queues,
         pc[c] \in {"poll", "pollMore"}, Drain(c, q)
  PROVE  ItemInv'
<1>1. /\ pc \in [Callers -> Places] /\ next \in [Callers -> Targets]
      /\ todo \in [Callers -> Arrays] /\ queue[q] \in Arrays /\ HandAt(c)
  BY DEF Control, ItemInv, ArrayTypes
<1>2. /\ queue[q] # <<>> /\ todo' = [todo EXCEPT ![c] = Taken(q)]
      /\ queue' = [queue EXCEPT ![q] = Left(q)]
      /\ pc' = [pc EXCEPT ![c] = "polled"] /\ next' = [next EXCEPT ![c] = q]
      /\ UNCHANGED <<pending, session, cleared, dropped, items>>
  BY DEF Drain, Holds, Goes, At, history, waits, noted
<1>3. /\ Taken(q) \in Arrays /\ Left(q) \in Arrays
      /\ Items(Taken(q)) \subseteq Items(queue[q])
      /\ Items(Left(q)) = Items(queue[q]) \ Items(Taken(q))
  BY <1>1, <1>2, DrainArray
<1>4. InHand(c) = <<>>
  BY <1>1 DEF HandAt, Handless, InHand
<1>5. Others(c) /\ pc'[c] = "polled" /\ next'[c] = q
  BY <1>1, <1>2 DEF Others
<1>6. \A d \in Callers \ {c} : HandAt(d)' /\ InHand(d)' = InHand(d)
  BY <1>2, <1>5, OthersKeep
<1>7. Takes(c, q, Items(Taken(q)), Taken(q), Left(q))
  BY <1>2, <1>3, <1>4, <1>5, <1>6, EmptyArray DEF Takes
<1>8. ArrayTypes' /\ Partition(Held', items')
  BY <1>3, <1>7, TakenUp
<1>9. HandAt(c)'
  BY <1>5 DEF HandAt, Handless
<1> QED
  BY <1>6, <1>8, <1>9 DEF ItemInv

LEMMA SnapshotKeeps ==
  ASSUME ItemInv, Control, NEW c \in Callers, Snapshot(c)
  PROVE  ItemInv'
<1> DEFINE q == "nextTurn"
           s == queue[q] \o todo[c]
<1>1. /\ pc \in [Callers -> Places] /\ next \in [Callers -> Targets]
      /\ todo \in [Callers -> Arrays] /\ q \in Queues /\ queue[q] \in Arrays
      /\ HandAt(c)
  BY DEF Control, ItemInv, ArrayTypes, Queues
<1>2. /\ pc[c] = "snapshot" /\ todo' = [todo EXCEPT ![c] = s]
      /\ queue' = [queue EXCEPT ![q] = <<>>] /\ next' = next
      /\ \E place \in {"hook", "queued"} : pc' = [pc EXCEPT ![c] = place]
      /\ UNCHANGED <<pending, session, cleared, dropped, items>>
  BY DEF Snapshot, Holds, At, history, waits, noted
<1>3. InHand(c) = todo[c] /\ todo[c] # <<>>
  BY <1>1, <1>2 DEF HandAt, InHand
<1>4. Items(queue[q]) \intersect Items(todo[c]) = {}
  <2>1. QueueOf(q) \in Homes /\ HandOf(c) \in Homes /\ QueueOf(q) # HandOf(c)
    BY <1>1, HomesAre, HomesDiffer
  <2>2. Held[QueueOf(q)] = Items(queue[q]) /\ Held[HandOf(c)] = Items(todo[c])
    BY <1>1, <1>3, HeldIs
  <2> QED
    BY <2>1, <2>2, Apart
<1>5. s \in Arrays /\ Items(s) = Items(queue[q]) \union Items(todo[c]) /\ s # <<>>
  BY <1>1, <1>3, <1>4, JoinArrays
<1> HIDE DEF s
<1>6. Others(c) /\ pc'[c] \in {"hook", "queued"} /\ todo'[c] = s
  BY <1>1, <1>2 DEF Others
<1>7. \A d \in Callers \ {c} : HandAt(d)' /\ InHand(d)' = InHand(d)
  BY <1>2, <1>6, OthersKeep
<1>8. Takes(c, q, Items(queue[q]), s, <<>>)
  BY <1>2, <1>3, <1>5, <1>6, <1>7, EmptyArray DEF Takes
<1>9. ArrayTypes' /\ Partition(Held', items')
  BY <1>1, <1>5, <1>8, TakenUp, EmptyArray
<1>10. HandAt(c)'
  BY <1>5, <1>6 DEF HandAt, Handless
<1> QED
  BY <1>7, <1>9, <1>10 DEF ItemInv

\* What was taken goes back to its queue.
LEMMA PollThrowsKeeps ==
  ASSUME ItemInv, Control, NEW c \in Callers, PollThrows(c)
  PROVE  ItemInv'
<1>1. /\ pc \in [Callers -> Places] /\ todo[c] \in Arrays /\ HandAt(c)
      /\ InHand(c) = todo[c]
  BY DEF Control, ItemInv, ArrayTypes, PollThrows, InHand
<1>2. PICK lost : Fails(c, lost) /\ lost = (IF pc[c] = "polled" THEN {} ELSE Items(todo[c]))
  BY DEF PollThrows
<1>3. /\ Others(c) /\ pc'[c] \in {"emit", "flush"} /\ HandAt(c)'
      /\ dropped' = dropped \union lost
      /\ todo' \in [Callers -> Arrays]
      /\ items' \in Nat /\ items <= items'
      /\ Items(todo'[c]) = (items + 1)..items'
  BY <1>2, FailsHand
<1>4. UNCHANGED <<pending, session, cleared>>
  BY DEF PollThrows
<1>5. \A d \in Callers \ {c} : HandAt(d)' /\ InHand(d)' = InHand(d)
  BY <1>3, <1>4, OthersKeep
<1>6. CASE pc[c] = "orphaned"
  <2>1. queue' = queue
    <3>1. queue' = [queue EXCEPT ![next[c]] = queue[next[c]]]
      BY <1>6 DEF PollThrows
    <3> QED
      BY <3>1 DEF ItemInv, ArrayTypes
  <2>2. Renews(c)
    BY <1>1, <1>2, <1>3, <1>4, <1>6, <2>1 DEF Renews
  <2> QED
    BY <2>2, RenewsKeeps
<1>7. CASE pc[c] = "polled"
  <2> DEFINE q == next[c]
             t == todo[c] \o queue[q]
  <2>1. q \in Queues /\ queue[q] \in Arrays
    BY <1>1, <1>7 DEF HandAt, ItemInv, ArrayTypes
  <2>2. Items(todo[c]) \intersect Items(queue[q]) = {}
    <3>1. QueueOf(q) \in Homes /\ HandOf(c) \in Homes /\ QueueOf(q) # HandOf(c)
      BY <2>1, HomesAre, HomesDiffer
    <3>2. Held[QueueOf(q)] = Items(queue[q]) /\ Held[HandOf(c)] = Items(todo[c])
      BY <1>1, <2>1, HeldIs
    <3> QED
      BY <3>1, <3>2, Apart
  <2>3. t \in Arrays /\ Items(t) = Items(todo[c]) \union Items(queue[q])
    BY <1>1, <2>1, <2>2, JoinArrays
  <2>4. queue' = [queue EXCEPT ![q] = t]
    BY <1>7 DEF PollThrows
  <2> HIDE DEF t, q
  <2>5. todo' = [todo EXCEPT ![c] = todo'[c]] /\ todo'[c] \in Arrays
    BY <1>3 DEF Others, ItemInv, ArrayTypes
  <2>6. Gives(c, q, Items(todo[c]), todo'[c], t)
    BY <1>1, <1>2, <1>3, <1>4, <1>5, <1>7, <2>3, <2>4, <2>5 DEF Gives
  <2>7. ArrayTypes' /\ Partition(Held', items')
    BY <2>1, <2>3, <2>5, <2>6, Given
  <2> QED
    BY <1>3, <1>5, <2>7 DEF ItemInv
<1> QED
  BY <1>6, <1>7 DEF PollThrows

\* The messages for the next turn go back, and the prompt is given up.
LEMMA EarlyErrorKeeps ==
  ASSUME ItemInv, Control, NEW c \in Callers, EarlyError(c), pc[c] = "queued"
  PROVE  ItemInv'
<1> DEFINE q == "nextTurn"
           back == SubSeq(todo[c], 1, Len(todo[c]) - 1)
           x == todo[c][Len(todo[c])]
           t == back \o queue[q]
<1>1. /\ pc \in [Callers -> Places] /\ next \in [Callers -> Targets]
      /\ todo \in [Callers -> Arrays] /\ q \in Queues /\ queue[q] \in Arrays
      /\ todo[c] # <<>> /\ InHand(c) = todo[c] /\ items \in Nat
  BY DEF Control, ItemInv, ArrayTypes, Queues, HandAt, InHand
<1>2. /\ pc' = [pc EXCEPT ![c] = "returning"] /\ todo' = [todo EXCEPT ![c] = <<>>]
      /\ queue' = [queue EXCEPT ![q] = t] /\ dropped' = dropped \union {x}
      /\ UNCHANGED <<pending, session, next, items, cleared>>
  BY DEF EarlyError, Holds, At, shared
<1>3. back \in Arrays /\ Items(back) = Items(todo[c]) \ {x} /\ x \in Items(todo[c])
  BY <1>1, FrontArray
<1>4. Items(todo[c]) \intersect Items(queue[q]) = {}
  <2>1. QueueOf(q) \in Homes /\ HandOf(c) \in Homes /\ QueueOf(q) # HandOf(c)
    BY <1>1, HomesAre, HomesDiffer
  <2>2. Held[QueueOf(q)] = Items(queue[q]) /\ Held[HandOf(c)] = Items(todo[c])
    BY <1>1, HeldIs
  <2> QED
    BY <2>1, <2>2, Apart
<1> HIDE DEF back, x
<1>5. t \in Arrays /\ Items(t) = Items(back) \union Items(queue[q])
  BY <1>1, <1>3, <1>4, JoinArrays
<1> HIDE DEF t
<1>6. Others(c) /\ pc'[c] = "returning" /\ todo'[c] = <<>>
  BY <1>1, <1>2 DEF Others
<1>7. \A d \in Callers \ {c} : HandAt(d)' /\ InHand(d)' = InHand(d)
  BY <1>2, <1>6, OthersKeep
<1>8. (items + 1)..items' = {} /\ items' \in Nat /\ items <= items'
  BY <1>1, <1>2
<1>9. /\ Items(back) \subseteq Items(InHand(c)) /\ {x} = Items(InHand(c)) \ Items(back)
      /\ Items(t) = Items(queue[q]) \union Items(back)
  BY <1>1, <1>3, <1>5
<1>10. dropped' = dropped \union (Items(InHand(c)) \ Items(back))
  BY <1>2, <1>9
<1>11. Items(<<>>) = (items + 1)..items'
  BY <1>8, EmptyArray
<1>12. pc'[c] # "flushing"
  BY <1>6
<1>13. Gives(c, q, Items(back), <<>>, t)
  BY <1>2, <1>7, <1>8, <1>9, <1>10, <1>11, <1>12 DEF Gives
<1>14. ArrayTypes' /\ Partition(Held', items')
  BY <1>1, <1>5, <1>13, Given, EmptyArray
<1>15. HandAt(c)'
  BY <1>6 DEF HandAt, Handless
<1> QED
  BY <1>7, <1>14, <1>15 DEF ItemInv

\* A write goes on: the first item in hand, or the first that is pending.
LEMMA WriteKeeps ==
  ASSUME ItemInv, Control, Exclusive, NEW c \in Callers, Write(c)
  PROVE  ItemInv'
<1>1. /\ pc \in [Callers -> Places] /\ next \in [Callers -> Targets]
      /\ todo \in [Callers -> Arrays] /\ HandAt(c) /\ pending \in Arrays
  BY DEF Control, ItemInv, ArrayTypes
<1>2. /\ todo' = [todo EXCEPT ![c] = Tail(todo[c])]
      /\ session' = Append(session, Head(todo[c]))
      /\ UNCHANGED <<queue, next, cleared, dropped, items>>
  BY DEF Write, Holds, history, waits, noted
<1>3. /\ pc[c] = "emitting" => pc' = [pc EXCEPT ![c] = "emit"] /\ pending' = pending
      /\ pc[c] = "flushing" => pc' = [pc EXCEPT ![c] = "flush"] /\ pending' = Shifted(pending)
      /\ pc[c] = "appending" => pc' = [pc EXCEPT ![c] = "idle"] /\ pending' = pending
      /\ pc[c] = "reshaping" => pc' = [pc EXCEPT ![c] = "reshape"] /\ pending' = pending
      /\ pc[c] \in {"emitting", "flushing", "appending", "reshaping"}
  BY DEF Write, At, Writing
<1>4. Others(c)
  BY <1>1, <1>2, <1>3 DEF Others
<1>5. CASE pc[c] # "flushing"
  <2>1. todo[c] # <<>> /\ pending' = pending /\ pc'[c] # "flushing"
    BY <1>1, <1>3, <1>5 DEF HandAt
  <2>2. \A d \in Callers \ {c} : HandAt(d)' /\ InHand(d)' = InHand(d)
    BY <1>4, <2>1, OthersKeep
  <2>3. ArrayTypes' /\ Partition(Held', items')
    BY <1>2, <1>5, <2>1, <2>2, Appended
  <2>4. HandAt(c)'
    BY <1>1, <1>2, <1>3, <1>5 DEF HandAt, Handless
  <2> QED
    BY <2>2, <2>3, <2>4 DEF ItemInv
<1>6. CASE pc[c] = "flushing"
  <2>1. /\ pending # <<>> /\ todo[c] = <<Head(pending)>> /\ pending' = Tail(pending)
        /\ pc'[c] = "flush" /\ Head(pending) \in Nat
    BY <1>1, <1>3, <1>6, TailArray DEF HandAt, Shifted
  <2>2. /\ Head(todo[c]) = Head(pending) /\ Tail(todo[c]) = <<>>
    BY <2>1, OneItem
  <2>3. \A d \in Callers \ {c} : pc[d] # "flushing"
    BY <1>6 DEF Exclusive, Active
  <2>4. \A d \in Callers \ {c} : HandAt(d)' /\ InHand(d)' = InHand(d)
    BY <1>4, <2>3 DEF Others, ItemInv, HandAt, InHand
  <2>5. ArrayTypes' /\ Partition(Held', items')
    BY <1>2, <1>6, <2>1, <2>2, <2>4, FlushedItem
  <2>6. HandAt(c)'
    BY <1>1, <1>2, <2>1, <2>2 DEF HandAt, Handless
  <2> QED
    BY <2>4, <2>5, <2>6 DEF ItemInv
<1> QED
  BY <1>5, <1>6

\* The first pending item is about to be written, and stays pending.
LEMMA FlushWriteKeeps ==
  ASSUME ItemInv, Control, NEW c \in Callers, FlushWrite(c)
  PROVE  ItemInv'
<1>1. /\ pc \in [Callers -> Places] /\ next \in [Callers -> Targets]
      /\ todo \in [Callers -> Arrays] /\ HandAt(c) /\ pending \in Arrays
  BY DEF Control, ItemInv, ArrayTypes
<1>2. /\ pc[c] = "flush" /\ pending # <<>>
      /\ todo' = [todo EXCEPT ![c] = <<Head(pending)>>]
      /\ pc' = [pc EXCEPT ![c] = "flushing"]
      /\ UNCHANGED <<pending, queue, session, next, items, cleared, dropped>>
  BY DEF FlushWrite, Holds, At, history, waits, noted
<1>3. <<Head(pending)>> \in Arrays
  BY <1>1, <1>2, TailArray, OneItem
<1>4. Others(c) /\ pc'[c] = "flushing" /\ todo'[c] = <<Head(pending)>>
  BY <1>1, <1>2 DEF Others
<1>5. HandAt(c)'
  BY <1>2, <1>4 DEF HandAt, Handless
<1>6. InHand(c)' = InHand(c)
  BY <1>1, <1>2, <1>4 DEF InHand, HandAt, Handless
<1>7. \A d \in Callers \ {c} : HandAt(d)' /\ InHand(d)' = InHand(d)
  BY <1>2, <1>4, OthersKeep
<1>8. \A k \in Homes : Held'[k] = Held[k]
  <2>1. ASSUME NEW k \in {Pending, Session, Cleared, Dropped}
                           \union {QueueOf(q) : q \in Queues}
        PROVE  Held'[k] = Held[k]
    BY <1>2, <2>1, HeldIs, HeldWillBe
  <2>2. \A d \in Callers : Held'[HandOf(d)] = Held[HandOf(d)]
    BY <1>6, <1>7, HeldIs, HeldWillBe
  <2> QED
    BY <2>1, <2>2, HomesAre
<1>9. Partition(Held', items')
  BY <1>2, <1>8, StayHome DEF ItemInv
<1>10. ArrayTypes'
  BY <1>2, <1>3 DEF ItemInv, ArrayTypes
<1> QED
  BY <1>5, <1>7, <1>9, <1>10 DEF ItemInv

\* A new item waits in pending or in a queue; nobody's hand changes.
LEMMA NewWaits ==
  ASSUME ItemInv, Control, NEW h \in {Pending} \union {QueueOf(q) : q \in Queues},
         items' = items + 1, UNCHANGED <<session, pc, next, todo, cleared, dropped>>,
         \/ h = Pending /\ pending' = Append(pending, items + 1) /\ queue' = queue
         \/ /\ pending' = pending
            /\ \E q \in Queues : /\ h = QueueOf(q)
                                 /\ queue' = [queue EXCEPT ![q] = Append(@, items + 1)]
  PROVE  ItemInv'
<1>1. items \in Nat /\ pending \in Arrays /\ queue \in [Queues -> Arrays]
  BY DEF ItemInv, ArrayTypes
<1>2. h \in Homes /\ items + 1 \notin Held[h] /\ (items + 1)..items' = {items + 1}
  BY <1>1, HomesAre, Apart
<1>3. \A d \in Callers : InHand(d)' = InHand(d)
  BY DEF InHand
<1>4. \A k \in {Session, Cleared, Dropped} : Held'[k] = Held[k]
  BY HeldIs, HeldWillBe
<1>5. \A d \in Callers : Held'[HandOf(d)] = Held[HandOf(d)]
  BY <1>3, HeldIs, HeldWillBe
<1>8. items \in Nat /\ items' \in Nat /\ items <= items'
  BY <1>1
<1>6. CASE h = Pending /\ pending' = Append(pending, items + 1) /\ queue' = queue
  <2>1. items + 1 \notin Items(pending)
    BY <1>2, <1>6, HeldIs
  <2>2. /\ pending' \in Arrays /\ Items(pending') = Items(pending) \union {items + 1}
        /\ pending # <<>> => Head(pending') = Head(pending) /\ pending' # <<>>
    <3>1. /\ pending' \in Arrays /\ Items(pending') = Items(pending) \union {items + 1}
          /\ pending # <<>> => Head(pending') = Head(pending)
      BY <1>1, <1>6, <2>1, AppendArray
    <3>2. pending' # <<>>
      BY <3>1, EmptyArray
    <3> QED
      BY <3>1, <3>2
  <2>3. \A d \in Callers : HandAt(d)'
    BY <2>2 DEF ItemInv, HandAt
  <2>4. \A q \in Queues : Held'[QueueOf(q)] = Held[QueueOf(q)]
    BY <1>6, HeldIs, HeldWillBe
  <2>5. Came(Held, Held', Pending, (items + 1)..items')
    BY <1>2, <1>4, <1>5, <1>6, <2>2, <2>4, HeldIs, HeldWillBe, HomesAre DEF
       Came
  <2>6. Partition(Held', items')
    BY <1>8, <2>5, ComeHome DEF ItemInv
  <2>7. ArrayTypes'
    BY <1>1, <1>6, <2>2 DEF ItemInv, ArrayTypes
  <2> QED
    BY <2>3, <2>6, <2>7 DEF ItemInv
<1>7. ASSUME NEW q \in Queues, h = QueueOf(q), pending' = pending,
             queue' = [queue EXCEPT ![q] = Append(@, items + 1)]
      PROVE  ItemInv'
  <2>1. items + 1 \notin Items(queue[q]) /\ queue[q] \in Arrays
    BY <1>1, <1>2, <1>7, HeldIs
  <2>2. queue'[q] \in Arrays /\ Items(queue'[q]) = Items(queue[q]) \union {items + 1}
    BY <1>1, <1>7, <2>1, AppendArray
  <2>3. \A d \in Callers : HandAt(d)'
    BY <1>7 DEF ItemInv, HandAt
  <2>4. \A r \in Queues : r # q => Held'[QueueOf(r)] = Held[QueueOf(r)]
    BY <1>1, <1>7, HeldIs, HeldWillBe
  <2>5. Held'[QueueOf(q)] = Held[QueueOf(q)] \union {items + 1}
    BY <2>2, HeldIs, HeldWillBe
  <2>6. Held'[Pending] = Held[Pending]
    BY <1>7, HeldIs, HeldWillBe
  <2>7. \A k \in Homes : k # QueueOf(q) => Held'[k] = Held[k]
    BY <1>4, <1>5, <2>4, <2>6, HomesAre
  <2>8. Came(Held, Held', QueueOf(q), (items + 1)..items')
    BY <1>2, <1>7, <2>5, <2>7 DEF Came
  <2>9. Partition(Held', items')
    BY <1>8, <2>8, ComeHome DEF ItemInv
  <2>10. ArrayTypes'
    BY <1>1, <1>7, <2>2 DEF ItemInv, ArrayTypes
  <2> QED
    BY <2>3, <2>9, <2>10 DEF ItemInv
<1> QED
  BY <1>6, <1>7

\* abort() empties both queues and returns what was in them.
LEMMA AbortKeeps ==
  ASSUME ItemInv, Control, NEW c \in Callers, Abort(c)
  PROVE  ItemInv'
<1> DEFINE P == [Held EXCEPT ![QueueOf("steer")] = @ \ Items(queue["steer"]),
                             ![Cleared] = @ \union Items(queue["steer"])]
<1>1. /\ items \in Nat /\ queue \in [Queues -> Arrays] /\ pc \in [Callers -> Places]
      /\ {"steer", "followUp", "nextTurn"} = Queues
  BY DEF ItemInv, ArrayTypes, Control, Queues
<1>2. /\ pc[c] = "idle"
      /\ cleared' = cleared \union Items(queue["steer"]) \union Items(queue["followUp"])
      /\ queue' = [queue EXCEPT !["steer"] = <<>>, !["followUp"] = <<>>]
      /\ pc' = [d \in Callers |-> IF d = c THEN "aborting"
                                  ELSE IF pc[d] = "polled" THEN "orphaned" ELSE pc[d]]
      /\ UNCHANGED <<pending, session, next, todo, items, dropped>>
  BY DEF Abort
<1>3. \A d \in Callers : HandAt(d)' /\ InHand(d)' = InHand(d)
  BY <1>2 DEF ItemInv, HandAt, InHand, Handless
<1>4. /\ queue' \in [Queues -> Arrays] /\ queue'["steer"] = <<>>
      /\ queue'["followUp"] = <<>> /\ queue'["nextTurn"] = queue["nextTurn"]
  BY <1>1, <1>2, EmptyArray
<1>5. ArrayTypes'
  BY <1>2, <1>4 DEF ItemInv, ArrayTypes
<1>6. /\ QueueOf("steer") \in Homes /\ QueueOf("followUp") \in Homes
      /\ QueueOf("nextTurn") \in Homes /\ Cleared \in Homes
      /\ QueueOf("steer") # QueueOf("followUp") /\ QueueOf("steer") # Cleared
      /\ QueueOf("nextTurn") # QueueOf("steer") /\ QueueOf("followUp") # Cleared
      /\ QueueOf("nextTurn") # QueueOf("followUp") /\ QueueOf("nextTurn") # Cleared
  BY <1>1, HomesAre, HomesDiffer
<1>7. /\ P[QueueOf("steer")] = {} /\ P[Cleared] = cleared \union Items(queue["steer"])
      /\ \A k \in Homes : k # QueueOf("steer") /\ k # Cleared => P[k] = Held[k]
  BY <1>1, <1>6, HeldIs DEF Held
<1>8. Moved(Held, P, QueueOf("steer"), Cleared, Items(queue["steer"]))
  <2>1. Held[QueueOf("steer")] = Items(queue["steer"]) /\ Held[Cleared] = cleared
    BY <1>1, HeldIs
  <2> HIDE DEF P
  <2> QED
    BY <1>6, <1>7, <2>1 DEF Moved
<1> HIDE DEF P
<1>9. Held'[QueueOf("steer")] = {} /\ Held'[QueueOf("followUp")] = {}
  BY <1>1, <1>4, HeldWillBe, EmptyArray
<1>10. Held'[Cleared] = P[Cleared] \union Items(queue["followUp"])
  BY <1>2, <1>7, HeldWillBe
<1>11. P[QueueOf("followUp")] = Items(queue["followUp"])
  BY <1>1, <1>6, <1>7, HeldIs
<1>12. ASSUME NEW k \in Homes, k # QueueOf("followUp"), k # Cleared
       PROVE  Held'[k] = P[k]
  <2>1. CASE k = QueueOf("steer")
    BY <1>7, <1>9, <2>1
  <2>2. CASE k # QueueOf("steer")
    <3>1. P[k] = Held[k]
      BY <1>7, <1>12, <2>2
    <3>2. CASE k \in {Pending, Session, Dropped}
      BY <1>2, <3>1, <3>2, HeldIs, HeldWillBe
    <3>3. CASE k = QueueOf("nextTurn")
      BY <1>1, <1>4, <3>1, <3>3, HeldIs, HeldWillBe
    <3>4. ASSUME NEW d \in Callers, k = HandOf(d)
          PROVE  Held'[k] = P[k]
      BY <1>3, <3>1, <3>4, HeldIs, HeldWillBe
    <3>5. \/ k \in {Pending, Session, Dropped} \/ k = QueueOf("nextTurn")
          \/ \E d \in Callers : k = HandOf(d)
      BY <1>1, <1>12, <2>2, HomesAre
    <3> QED
      BY <3>2, <3>3, <3>4, <3>5
  <2> QED
    BY <2>1, <2>2
<1>13. Moved(P, Held', QueueOf("followUp"), Cleared, Items(queue["followUp"]))
  BY <1>6, <1>9, <1>10, <1>11, <1>12 DEF Moved
<1>14. Partition(P, items)
  BY <1>1, <1>8, MovesHome DEF ItemInv
<1>15. Partition(Held', items')
  BY <1>1, <1>2, <1>13, <1>14, MovesHome
<1> QED
  BY <1>3, <1>5, <1>15 DEF ItemInv

\* As long as callers begin alone every step keeps ItemInv.
LEMMA ItemStep ==
  ASSUME Control, Exclusive, ItemInv, [Next]_vars
  PROVE  ItemInv'
<1>1. ASSUME NEW c \in Callers, Progress(c)
      PROVE  ItemInv'
  <2>1. CASE Snapshot(c)
    BY <2>1, SnapshotKeeps
  <2>2. CASE Poll(c) \/ PollMore(c)
    <3>1. CASE /\ pc[c] \in {"poll", "pollMore"}
               /\ Drain(c, "steer") \/ Drain(c, "followUp")
      BY <3>1, DrainKeeps DEF Queues
    <3>2. CASE Quiet(c)
      BY <3>2, QuietKeeps
    <3>3. \/ /\ pc[c] \in {"poll", "pollMore"}
             /\ Drain(c, "steer") \/ Drain(c, "followUp")
          \/ Quiet(c)
      <4>1. pc \in [Callers -> Places] /\ next \in [Callers -> Targets] /\ HandAt(c)
        BY DEF Control, ItemInv
      <4> QED
        BY <2>2, <4>1 DEF Poll, PollMore, Moves, MovesOn, Goes, At, rest,
           history, waits, noted, Quiet, Others, HandAt, Handless
    <3> QED
      BY <3>1, <3>2, <3>3
  <2>3. CASE Answer(c) \/ ReshapeEnd(c)
    BY <2>3, OtherRenews, RenewsKeeps
  <2>4. CASE FlushWrite(c)
    BY <2>4, FlushWriteKeeps
  <2>5. CASE Rethrows(c)
    BY <2>5, ErrorRenews, RenewsKeeps
  <2>6. CASE Write(c)
    BY <2>6, WriteKeeps
  <2>7. CASE \/ QueueTold(c) \/ Launch(c) \/ Emit(c) \/ Emitted(c) \/ Polled(c)
             \/ TurnEnd(c) \/ Flushed(c) \/ AfterSave(c) \/ Refresh(c)
             \/ AgentEnd(c) \/ Ended(c) \/ Closing(c) \/ Return(c)
             \/ AbortWaits(c) \/ AbortReturns(c) \/ ReshapeWrite(c)
    BY <2>7, QuietSteps, QuietKeeps
  <2> QED
    BY <1>1, <2>1, <2>2, <2>3, <2>4, <2>5, <2>6, <2>7 DEF Progress
<1>2. ASSUME NEW c \in Callers, Error(c)
      PROVE  ItemInv'
  <2>1. CASE EarlyError(c)
    BY <2>1, EarlyErrorKeeps, OtherRenews, RenewsKeeps
  <2>2. CASE PollThrows(c)
    BY <2>2, PollThrowsKeeps
  <2>3. CASE Throws(c) \/ EmitFails(c)
    BY <2>3, ErrorRenews, RenewsKeeps
  <2>4. CASE FlushFails(c)
    BY <2>4, ErrorRenews, OtherRenews, RenewsKeeps
  <2>5. CASE AppendFails(c)
    BY <2>5, OtherRenews, RenewsKeeps
  <2> QED
    BY <1>2, <2>1, <2>2, <2>3, <2>4, <2>5 DEF Error
<1>3. ASSUME NEW c \in Callers, Call(c)
      PROVE  ItemInv'
  <2>1. CASE Prompt(c) \/ Reshape(c) \/ (AppendItem(c) /\ phase = "idle")
    BY <2>1, OtherRenews, RenewsKeeps
  <2>2. CASE AppendItem(c) /\ phase # "idle"
    BY <2>2, NewWaits DEF AppendItem, history, waits, noted
  <2>3. CASE Enqueue(c)
    <3>1. PICK q \in Queues : queue' = [queue EXCEPT ![q] = Append(@, items + 1)]
      BY <2>3 DEF Enqueue
    <3>2. /\ items' = items + 1 /\ pending' = pending
          /\ UNCHANGED <<session, pc, next, todo, cleared, dropped>>
      BY <2>3 DEF Enqueue, history, waits, noted
    <3> QED
      BY <3>1, <3>2, NewWaits
  <2>4. CASE Abort(c)
    BY <2>4, AbortKeeps
  <2>5. CASE WaitForIdle(c)
    BY <2>5, QuietSteps, QuietKeeps
  <2> QED
    BY <1>3, <2>1, <2>2, <2>3, <2>4, <2>5 DEF Call
<1>4. CASE UNCHANGED vars
  <2>1. UNCHANGED <<pending, queue, session, pc, next, todo, items, cleared, dropped>>
    BY <1>4 DEF vars, history, waits, noted
  <2>2. \A k \in Homes : Held'[k] = Held[k]
    BY <2>1 DEF Held, Items, InHand
  <2>3. Partition(Held', items')
    BY <2>1, <2>2, StayHome DEF ItemInv
  <2> QED
    BY <2>1, <2>3 DEF ItemInv, ArrayTypes, HandAt
<1> QED
  BY <1>1, <1>2, <1>3, <1>4 DEF Next

LEMMA ItemInit == ASSUME Init PROVE ItemInv
<1>1. ArrayTypes
  BY EmptyArray DEF Init, ArrayTypes
<1>2. \A c \in Callers : HandAt(c)
  BY DEF Init, HandAt, Handless
<1>3. \A h \in Homes : Held[h] = {}
  <2>1. \A c \in Callers : InHand(c) = <<>>
    BY DEF Init, InHand
  <2>2. Items(pending) = {} /\ Items(session) = {} /\ \A q \in Queues : Items(queue[q]) = {}
    BY EmptyArray DEF Init
  <2>3. cleared = {} /\ dropped = {}
    BY DEF Init
  <2> QED
    BY <2>1, <2>2, <2>3, HeldIs, HomesAre, EmptyArray
<1>4. 1..items = {}
  BY DEF Init
<1>5. Partition(Held, items)
  BY <1>3, <1>4 DEF Partition
<1> QED
  BY <1>1, <1>2, <1>5 DEF ItemInv

\* The places of an item are those in its home, and there is one.
Spots(kind, s, i) == {<<kind, k>> : k \in {j \in 1..Len(s) : s[j] = i}}

LEMMA OneSpot ==
  ASSUME NEW kind, NEW s \in Arrays, NEW i
  PROVE  /\ i \notin Items(s) => Spots(kind, s, i) = {}
         /\ i \in Items(s) => \E k : Spots(kind, s, i) = {<<kind, k>>}
<1>1. ASSUME i \notin Items(s) PROVE Spots(kind, s, i) = {}
  BY <1>1 DEF Items, Spots
<1>2. ASSUME i \in Items(s) PROVE \E k : Spots(kind, s, i) = {<<kind, k>>}
  <2>1. PICK k \in 1..Len(s) : s[k] = i
    BY <1>2 DEF Items
  <2>2. {j \in 1..Len(s) : s[j] = i} = {k}
    BY <2>1 DEF Arrays, Once
  <2> QED
    BY <2>2 DEF Spots
<1> QED
  BY <1>1, <1>2

InQueues(i) == UNION {Spots(q, queue[q], i) : q \in Queues}
InHands(i) == UNION {Spots(c, InHand(c), i) : c \in Callers}
Returned(i) == {<<"cleared", 0>> : x \in {i} \intersect cleared}
GivenUp(i) == {<<"dropped", 0>> : x \in {i} \intersect dropped}

LEMMA PlacesAre ==
  ASSUME NEW i
  PROVE  PlacesOf(i) = Spots("pending", pending, i) \union InQueues(i)
           \union InHands(i) \union Spots("session", session, i)
           \union Returned(i) \union GivenUp(i)
<1>1. {p \in {<<"pending", k>> : k \in 1..Len(pending)} : pending[p[2]] = i}
        = Spots("pending", pending, i)
  BY DEF Spots
<1> QED
  BY <1>1 DEF PlacesOf, Spots, InQueues, InHands, Returned, GivenUp

LEMMA OnePlace ==
  ASSUME ItemInv, NEW i \in 1..items
  PROVE  Cardinality(PlacesOf(i)) = 1
<1>1. PICK h \in Homes : i \in Held[h]
  BY DEF ItemInv, Partition
<1>2. \A g \in Homes : g # h => i \notin Held[g]
  BY <1>1, Apart
<1>3. /\ pending \in Arrays /\ session \in Arrays /\ \A q \in Queues : queue[q] \in Arrays
      /\ \A c \in Callers : InHand(c) \in Arrays
  BY HandArray DEF ItemInv, ArrayTypes
<1>4. /\ h # Pending => Spots("pending", pending, i) = {}
      /\ h # Session => Spots("session", session, i) = {}
  BY <1>2, <1>3, HomesAre, HeldIs, OneSpot
<1>5. \A q \in Queues : h # QueueOf(q) => Spots(q, queue[q], i) = {}
  BY <1>2, <1>3, HomesAre, HeldIs, OneSpot
<1>6. \A c \in Callers : h # HandOf(c) => Spots(c, InHand(c), i) = {}
  BY <1>2, <1>3, HomesAre, HeldIs, OneSpot
<1>7. /\ h # Cleared => Returned(i) = {}
      /\ h # Dropped => GivenUp(i) = {}
  BY <1>2, HomesAre, HeldIs DEF Returned, GivenUp
<1>8. \E p : PlacesOf(i) = {p}
  <2>1. PlacesOf(i) = Spots("pending", pending, i) \union InQueues(i)
                        \union InHands(i) \union Spots("session", session, i)
                        \union Returned(i) \union GivenUp(i)
    BY PlacesAre
  <2>2. (\A q \in Queues : h # QueueOf(q)) => InQueues(i) = {}
    BY <1>5 DEF InQueues
  <2>3. (\A c \in Callers : h # HandOf(c)) => InHands(i) = {}
    BY <1>6 DEF InHands
  <2>4. CASE h = Pending
    <3>1. /\ InQueues(i) = {} /\ InHands(i) = {}
          /\ Spots("session", session, i) = {} /\ Returned(i) = {} /\ GivenUp(i) = {}
      BY <1>4, <1>7, <2>2, <2>3, <2>4, HomesDiffer
    <3>2. \E k : Spots("pending", pending, i) = {<<"pending", k>>}
      BY <1>1, <1>3, <2>4, HeldIs, OneSpot
    <3> QED
      BY <2>1, <3>1, <3>2
  <2>5. CASE h = Session
    <3>1. /\ Spots("pending", pending, i) = {} /\ InQueues(i) = {}
          /\ InHands(i) = {} /\ Returned(i) = {} /\ GivenUp(i) = {}
      BY <1>4, <1>7, <2>2, <2>3, <2>5, HomesDiffer
    <3>2. \E k : Spots("session", session, i) = {<<"session", k>>}
      BY <1>1, <1>3, <2>5, HeldIs, OneSpot
    <3> QED
      BY <2>1, <3>1, <3>2
  <2>6. CASE h = Cleared
    <3>1. /\ Spots("pending", pending, i) = {} /\ InQueues(i) = {}
          /\ InHands(i) = {} /\ Spots("session", session, i) = {} /\ GivenUp(i) = {}
      BY <1>4, <1>7, <2>2, <2>3, <2>6, HomesDiffer
    <3>2. Returned(i) = {<<"cleared", 0>>}
      BY <1>1, <2>6, HeldIs DEF Returned
    <3> QED
      BY <2>1, <3>1, <3>2
  <2>7. CASE h = Dropped
    <3>1. /\ Spots("pending", pending, i) = {} /\ InQueues(i) = {}
          /\ InHands(i) = {} /\ Spots("session", session, i) = {} /\ Returned(i) = {}
      BY <1>4, <1>7, <2>2, <2>3, <2>7, HomesDiffer
    <3>2. GivenUp(i) = {<<"dropped", 0>>}
      BY <1>1, <2>7, HeldIs DEF GivenUp
    <3> QED
      BY <2>1, <3>1, <3>2
  <2>8. ASSUME NEW q \in Queues, h = QueueOf(q)
        PROVE  \E p : PlacesOf(i) = {p}
    <3>1. /\ Spots("pending", pending, i) = {} /\ InHands(i) = {}
          /\ Spots("session", session, i) = {} /\ Returned(i) = {} /\ GivenUp(i) = {}
      BY <1>4, <1>7, <2>3, <2>8, HomesDiffer
    <3>2. InQueues(i) = Spots(q, queue[q], i)
      <4>1. \A r \in Queues : r # q => Spots(r, queue[r], i) = {}
        BY <1>5, <2>8, HomesDiffer
      <4> QED
        BY <4>1 DEF InQueues
    <3>3. \E k : Spots(q, queue[q], i) = {<<q, k>>}
      <4>1. i \in Items(queue[q])
        BY <1>1, <2>8, HeldIs
      <4> QED
        BY <1>3, <4>1, OneSpot
    <3> QED
      BY <2>1, <3>1, <3>2, <3>3
  <2>9. ASSUME NEW c \in Callers, h = HandOf(c)
        PROVE  \E p : PlacesOf(i) = {p}
    <3>1. /\ Spots("pending", pending, i) = {} /\ InQueues(i) = {}
          /\ Spots("session", session, i) = {} /\ Returned(i) = {} /\ GivenUp(i) = {}
      BY <1>4, <1>7, <2>2, <2>9, HomesDiffer
    <3>2. InHands(i) = Spots(c, InHand(c), i)
      <4>1. \A d \in Callers : d # c => Spots(d, InHand(d), i) = {}
        BY <1>6, <2>9, HomesDiffer
      <4> QED
        BY <4>1 DEF InHands
    <3>3. \E k : Spots(c, InHand(c), i) = {<<c, k>>}
      BY <1>1, <1>3, <2>9, HeldIs, OneSpot
    <3> QED
      BY <2>1, <3>1, <3>2, <3>3
  <2> QED
    BY <2>4, <2>5, <2>6, <2>7, <2>8, <2>9, HomesAre
<1> QED
  BY <1>8, FS_Singleton

\* Nothing a caller gives to the harness is lost or written twice, whatever
\* fails and whoever calls meanwhile, as long as callers begin alone
\* (flushPendingSessionWrites, drainQueuedMessages, abort).
THEOREM ItemsAreKept == Spec => []WrittenOnce
<1>1. Init => (serial => ItemInv)
  BY ItemInit
<1>2. Control /\ (serial => Exclusive) /\ (serial => ItemInv) /\ [Next]_vars
        => (serial => ItemInv)'
  BY ItemStep, SerialStays
<1>3. (serial => ItemInv) => WrittenOnce
  BY OnePlace DEF WrittenOnce
<1>. QED  BY <1>1, <1>2, <1>3, ControlHolds, ExclusiveHolds, PTL DEF Spec
=============================================================================
