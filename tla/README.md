# pi: verification of the agent core

TLA+ models, model-checking runs and machine-checked proofs for pi, a coding
agent in TypeScript. The repository has four packages: `ai` (providers behind
one event stream), `agent` (the agent loop, a stateful agent around it, and a
harness that persists its runs), `coding-agent` (the applications: sessions,
tools, extensions, modes) and `tui` (terminal user interface).

The program is single-threaded JavaScript. Its concurrency is that of
callbacks: between two awaits nothing else runs, at an await anything may. A
model has one action per stretch of code between two awaits, and a program
counter that names the await. What can go wrong is what may happen at an await:
another call, an abort, a listener or a write that throws, a crash. Where several
processes share a file (settings, credentials) synchronous code is split as well,
at each access to the file or its lock.

All paths below are under `packages/`. `PROJECT.json` maps each definition to
its lines of the source, and lists the hazards at their lines.

## Inventory

| Component | State | Operations | What is hard | What makes it correct |
| --- | --- | --- | --- | --- |
| Agent and loop: `agent/src/agent.ts`, `agent-loop.ts` | transcript, streaming message, pending tool calls, two message queues, active run; the loop's context and batch of calls | prompt, continue, steer, followUp, abort, reset, clear; turns, tool batches, polls, failure reports | the same facts kept in transcript and context and updated at different awaits; tools that end in any order; throwing listeners; messages that arrive between two polls | context and transcript agree when a request is sent; every call has its result, in order; no message lost, repeated, reordered or stranded; events form a protocol; a run ends |
| Event stream: `ai/src/utils/event-stream.ts` | queue, waiters, done, result | push, end, iteration, result | a woken iterator resumes later; push after the end | each event once, in order; every iteration ends |
| File mutation queue: `coding-agent/src/core/tools/file-mutation-queue.ts` | map from file to the end of its chain, chain of registrations | withFileMutationQueue | the key is looked up asynchronously and depends on whether the file exists; entries are deleted while newer calls come | one mutation of a file at a time, first come first served; no entry leaks |
| Session tree: `agent/src/harness/session/session.ts`, `jsonl-storage.ts`, `uuid.ts` | entries, leaf and labels in memory; a file of lines | append*, moveTo, labels, open | nothing is locked; ids from a clock; failed and cut writes; crashes | ids unique; walks to the root end; memory is what the file gives; acknowledged entries survive |
| Agent harness: `agent/src/harness/agent-harness.ts` | phase, run promise, abort controller, pending session writes, three queues | prompt, steer, followUp, nextTurn, append*, setters, compact, navigateTree, abort, waitForIdle | the phase is read once and acted on later; listeners call back into the harness; a run awaits listeners that may await the run; flushes, failures and aborts overlap | the phase is that of the one run or reshaping; what is sent is persisted; each write once; nothing pending at rest; abort returns |
| Agent session: `coding-agent/src/core/agent-session.ts` | the texts shown of the agent's queues, retry counter and sleep, overflow flag, waiting bash results; the session it persists to | prompt, steer, followUp, the listener of the agent's events, the check after a run (retry, compaction, continuation), bash, compact(), abort, clearQueue | what one answer asks for is spread over the listener, the check and the next round, with sleeps and aborts between; compact() stops listening in the middle of a run; the listener may fail itself | session and agent hold the same messages; bash results never come between a call and its result; retries and recoveries are bounded and end; nothing stays queued; continue() is never asked what it refuses |
| Session manager: `coding-agent/src/core/session-manager.ts` | entries, leaf, labels; whether the file is written; the file's lines | append*, branch, labels, createBranchedSession, open with migration, forkFrom, the context for the model | the file is created late, whole, and once; torn lines are skipped and glued to the next; fork drops labels; old files name entries by index | the file is well formed and loses at most one entry for each torn line; reopening gives the memory; fork, compaction and migration keep the context |
| Settings manager: `coding-agent/src/core/settings-manager.ts` | per scope: memory, marked fields, load error; queue of writes; a file and its lock | setters, reload, withLock | several processes and an editor over one file; a write runs later than its snapshot; files that do not parse | no update of another process is lost; what is saved is not written again; each change is saved or reported; a broken file is kept |
| Auth storage: `coding-agent/src/core/auth-storage.ts` | memory, load error, recorded errors; a file and its lock | set, remove, login, load, getApiKey with a refresh under the lock | a refresh holds the lock over a request; the lock may be lost meanwhile; refresh tokens are taken once | no credential of another is overwritten; no refresh token is used twice; each change is saved or an error recorded |
| Compaction and requests: `coding-agent/src/core/compaction/compaction.ts`, `messages.ts`, `ai/src/providers/transform-messages.ts` | the branch of the session; the compaction whose summary is asked for | prepareCompaction, compact, buildSessionContext, the second pass of transformMessages, navigateTree | aborted runs leave calls without results; each cut starts from what the last one kept; the branch may change while a summary is asked for | every request pairs calls and results; nothing leaves the context untold; files and earlier summaries stay known; what is kept fits its budget |
| Terminal input: `tui/src/stdin-buffer.ts` | buffer, paste buffer, timer | process, flush | a timer races the rest of a sequence | not modelled yet |

How they interact. A provider pushes into an event stream, which the loop
iterates over. The loop calls its sink (the agent's `processEvents`, the
harness's `handleAgentEvent`) and awaits it for every event; the sink awaits its
listeners. The loop asks the agent or the harness for queued messages by
callbacks. The harness writes to a session, which writes to its storage. The
applications use the agent through AgentSession, which persists with
SessionManager; tools that change files go through the file mutation queue. What
the agent sends is the context SessionManager builds from the branch, as the
last compaction left it, with the provider's transformation applied.

The other parts (provider adapters, OAuth, model tables, extensions, resource
loading, modes, rendering, export) are listed in `PROJECT.json` with the reason
they are not modelled: I/O and formatting without coordination of their own, or
planned below.

## Modules

| Module | What it models |
| --- | --- |
| `RunProtocol` | abstract: the order of the events a run emits |
| `Agent` | the agent and its loop; `FollowsProtocol` is its refinement of RunProtocol |
| `EventStream` | the stream with any number of iterators |
| `FileMutationQueue` | the queue with any number of calls and paths, and files that appear and disappear |
| `SessionTree` | a session and its JSONL file, any number of concurrent calls, failed writes, crashes |
| `AgentHarness` | the harness with any number of callers |
| `AgentSession` | a session of the applications around the agent's messages and polls |
| `SessionManager` | the session's entries, its file, its forks and the context built from it |
| `Compaction` | a branch, what is sent of it, and the compactions of it |
| `SettingsManager` | processes, an editor, a settings file for each scope |
| `AuthStorage` | processes, providers of tokens, the file of credentials |
| `*Proofs` | theorems about the module of that name; `StreamAndFileProofs` is about EventStream, FileMutationQueue and SessionManager; the specifications of the latter two are therefore called MutationsSpec and SessionsSpec |
| `MC*` | instances for TLC, one `.cfg` per run |

How the state corresponds to the code:

- `Agent`. `transcript`, `isStreaming`, `streamingMessage`, `pendingToolCalls`,
  `errorMessage`, `steeringQueue` and `followUpQueue` are the fields of
  AgentState and the two PendingMessageQueues. `context`, `reply` and the state
  of each call are locals of the loop. Emitting an event updates the state at
  once and then awaits the listeners, so the update belongs to the step that
  enters the await. Messages carry what the properties tell apart: a user
  message its number and the way it came in, an answer its calls and stop
  reason, a result its call. Tools left running by a batch that was rejected
  are kept in `stray`.
- `EventStream`. `queue`, `waiting`, `done` are the fields, `hand` is the value
  a waiter was called with and its consumer has not yet resumed with.
- `FileMutationQueue`. `queues` is `fileMutationQueues`, `chain` is the chain of
  registrations; `order` is a history of registrations.
- `SessionTree`. `entries`, `leaf`, `labels` are the caches, `file` and `tail`
  the file; a line may be torn. Every `append*` is: draw an id, read the leaf,
  write, remember, with an await after each. The eight-digit ids are a function
  of a `window` of time (65 seconds) as in `uuidv7`; a clash is resolved by the
  code's retry and fallback.
- `AgentHarness`. `phase`, `runPromise`, `controller` and `pending` are the
  fields, `queue` holds the three queues. A caller is whoever has a call in
  progress; `next` is where its run continues when its messages are emitted or
  its flush is done; `mode` tells the loop from its failure report. Appending to
  the session is one await; SessionTree looks inside. The loop appears with the
  parts that touch the harness; messages of tools are like other messages.
  `within` is the run whose listener, hook or tool a caller is and that awaits
  it: such a run takes no step until the call has returned. `serial` and
  `failedLate` are history variables (see below).
- `AgentSession`. `messages`, `steering`, `followUps` are the agent's transcript
  and queues, `branch` the entries from the root to the leaf of the session;
  `shownSteering` and `shownFollowUps` are `_steeringMessages` and
  `_followUpMessages`. The run of `Agent` is reduced to the messages it emits
  (`outbox`) and the polls between them. `pc` names the await of `prompt` and of
  the rounds after a run, `cpc` that of `compact()`; an answer is one of the
  outcomes the check after the run tells apart (plain, retryable, fatal,
  overflow as an error or found in a normal answer, long enough to compact,
  aborted with or without a large usage) with a number of tool calls; `batch` and
  `results` are the calls in progress and how many have their result, which an
  abort or a failure may break off (`brokenOff`). The session's handler rejects
  when a listener of the session throws or an entry cannot be written, at any
  event and with its work done in part (`Unfinished`, `Unheard`); the agent
  reports that as an answer of its own (`Report`), whose handling may fail too
  (`ReportFails`). What passes while `compact()` does not listen is remembered in
  `crossed`, a failure of the handler in `handlerFailed`, what is queued while no
  prompt is in progress in `early`.
- `SessionManager`. `fileEntries`, `leafId`, `labels` and `flushed` are the
  fields; `disk` holds the files, sequences of lines that may be torn, glued or
  without a header; the path and the context are functions of entries and leaf,
  as in `getBranch` and `buildSessionContext`. Entries carry their kind, parent
  and what they name.
- `Compaction`. `branch` is `getBranch()`, from the root to the leaf; `pending`
  are the calls of the running batch without a result; `prepared` is the
  CompactionPreparation, whose summary is being asked for. A summary is the set
  of messages its request told the model of, with the summary before it when that
  was passed on; `files` are the calls whose files are remembered. Every message
  has the size one and each compaction a budget of its own, so that the budget
  may be reached at any message. `Request` is what a provider gets.
- `SettingsManager`. `settings`, `modified`, `loadError`, `writeQueue` are the
  fields of each process; `op` is the task that withLock does, with whether it
  found the file and what it read. A value is the number of the change that made
  it; `latest` is the last new value each field was given, by a write or an edit.
  `lost` are the fields that a write is known to put back: those an editor saved
  after the read of that write, and those a queued write repeats over a later
  value; `missed` is what an editor did to the file since a process read it.
- `AuthStorage`. `data`, `loadError` are fields, `failed` says that `errors` is
  not empty. `pc` and `job` are withLock and the synchronous end of a refresh,
  `call` is getApiKey suspended in withLockAsync with what it read. A credential
  is the number of its token; `valid` are the tokens a provider still takes.

Each model keeps the guards, early returns and error paths of the functions it
maps, except those of what "Not modelled" lists; in AgentSession that is
a good part of `prompt()` (extensions, commands, templates, checks of model and
key). Text, wording, model parameters and layout are left out.

### Discipline of the callers

No action of `AgentHarness` requires anything of its callers but what the code
checks, the phase. They may call at any moment, from outside or from a listener,
hook or tool, which the run awaits or does not. `agent/docs/agent-harness.md`
(lines 9-18) lets listeners and hooks do so and asks that it corrupts nothing.
What is not true of such callers is not assumed away but recorded:

- `serial` stays true as long as no run, reshaping or direct write has begun
  while another call was touching the session. `ContextIsPersisted` and
  `WrittenOnce` are about executions in which it holds. Otherwise a run that
  overtakes a direct write sends a context without it, and two flushes at once
  (a prompt begun by a listener of `agent_end`, beside the last flush of the run
  before) write the first pending item twice.
- `failedLate` becomes true when a run fails after it has declared the harness
  idle: it then takes the phase from the run that has begun meanwhile, which
  `BusyWhileRunning` excepts. That property is about all callers otherwise, those
  in listeners of `agent_end` and `settled` included.
- `WaitsEnd` excepts callers that wait for each other in a circle (`InACircle`): a
  listener that awaits `abort()` or `waitForIdle()` during the run that awaits it.
  The harness documentation warns of this deadlock (line 18).

`SessionTree` takes the number of concurrent calls from `Writers`. Its run has
one, and the theorems but `Durability` assume it (`SerialWriters`): `TreeIsSound`
does not hold with two, since the test for a clash of ids comes before the write
is remembered (`jsonl-storage.ts:36`), and an append whose parent was read before
another write ended falls off the branch (`session.ts:132`). Nothing in the
harness discharges that assumption: the run `harness_writes` shows two writes under
way at once. It holds for callers who await each call while the harness is idle.

Two more behaviours of the models that no property forbids: `reset()` clears
`isStreaming` in the middle of a run, and writes queued during `compact()` or
`navigateTree()` are written after the direct writes that came later.

## Runs

Bounds are the numbers in the `.cfg` files; each is chosen so that the case the
property is about occurs, and the mutant of each property shows it.

| Run | Question | Bounds |
| --- | --- | --- |
| agent | do context, transcript, results and shown activity agree; is each message in one place, in order, none stranded; do events follow the protocol; do runs end | three user messages or incidents in any mix (`MaxInputs`; an incident is a throwing listener, a clear, a reset, a removed answer), prompts of up to two, two calls per batch in both modes, one tool turn and the turn after it, both modes of the queues, abort any time, fairness |
| stream | once and in order; does every iteration end | three iterators, four events, `end()` and a completing event, fairness |
| mutations | order within a file's key, map entries; does every call end | three calls, two files, a link, one change from outside, fairness |
| session | ids, walks, caches, durability | three calls in sequence, two time windows, two failed writes, two crashes |
| harness | whose is the phase; is nothing left pending; do `abort()` and `waitForIdle()` return; context and each item's place as long as callers do not overlap | two callers that heed nothing but the phase, from outside or awaited by a run; three calls or answers with tool calls in any mix (two runs, or a run with writes, queueing, a reshaping, aborts, waits), one error (a throw or a failed write) anywhere, fairness |
| harness_writes | the write lock of the documentation | violated, see below; two callers, two calls |
| agent_session | do session and agent agree; retries, recoveries, queues, continuation; is nothing stuck | one caller, two texts, all outcomes, batches of up to two calls, one retry, four events in any mix (prompts, queued messages, failures of requests or of the handler, tool calls, bash results, aborts, compactions), deadlock |
| session_manager | file, reopening, fork, compaction, migration | four entries (three with an old file or a failed write), two files, one move or label, one failed or torn write or ended process |
| session_manager_fork | a promise of a comment | violated, see below |
| compaction | are requests complete; are compactions sound | six entries: user messages, one custom message, branch summary or setting, answers without calls, with two, failed with one; budgets 0, 1 and 3; a failed request, an aborted batch, one move of the leaf at any moment |
| settings | updates of several processes, marks, reported failures, broken files; is nothing stuck | two processes, both scopes (one file there, one not), two fields, three changes by setters or an editor at any moment, one of reload, crash, failing lock, failing write; deadlock |
| auth_storage | credentials of several processes, refresh tokens used once, reported failures; is nothing stuck | two processes, two providers, the file there or not, two tokens, one of crash, lost lock, lost answer; requests may be refused any time; deadlock |

Three messages are enough to tell orders apart; two calls are enough for a batch
that is partly done; two callers for any race of two steps and for a listener
that waits for its run; two prompts for a run that begins before the last one has
ended. `MaxToolTurns` is one, so in TLC a stray tool does not meet a later batch
of calls; the theorem `ActivityIsShown` has no such bound. The number of
removed answers, failed requests and the like is one where a second would repeat
the first from the same idle state. A listener that throws breaks off the abstract
order of a run (`Break` of RunProtocol), and what may follow is part of it.

Six entries hold two compactions with a turn between them, a split turn before
or after each, and a batch cut off before either. With seven entries and no move
both properties hold as well.

One token expires in `auth_storage` and one is issued: that is a refresh that
races a refresh, a change, a removal or another provider's. One retry and four
events let an aborted or exhausted retry be followed by another prompt, an
overflow by its recovery and a second overflow, a batch that an abort or a failure
breaks off by another prompt, and two queued messages with equal or different
texts be mixed with either. `ShownIsQueued` bounds what is shown from above: a
text that is removed too early, because an equal one was sent without having been
queued, is not judged. With more than two tokens
(`MaxTokens = 3`, one provider, two faults) the properties of `auth_storage`
hold as well.

Several properties are conjunctions of named parts: `Delivery` (each event once,
in order, the result with the last), `TreeIsSound` (unique ids, walks that end),
`FileIsSound` (one header, bounded loss, a fresh file is whole, reopening gives
the memory), `FileKeepsSession` (reopening gives the memory, acknowledged entries
survive), `RetriesAreOver` (a bounded number, ended at rest, one recovery),
`CompactionIsSound` (`Covers`: no message or earlier summary is lost;
`TracksFiles`; `Fits`: the budget).

### Where the code and its documentation disagree

`harness_writes`: `agent/docs/agent-harness.md:52` says that session writes use a
write lock to ensure the order of persistence. There is none: `appendMessage` and
the setters write at once when the phase is idle (`agent-harness.ts:698`), which
does not change the phase, so a prompt may begin and append its messages while
that write is still under way.

`session_manager_fork`: the comment of `createBranchedSession` promises the path
from the root to a leaf. A label that was set before the last message is a link
of that path; the fork filters labels out and leaves their children pointing at
them, so what comes before the label is no longer sent to the model.

Other behaviours of the code that the models have, and that no run judges:

- `agent.ts:227` says that `agent_end` is the last event of a run. It is, and comes
  once, as long as no listener throws: that is part of `FollowsProtocol`. A
  listener that throws, on `agent_end` too, makes the agent report a failed turn
  with a second `agent_end` (`Break` of RunProtocol, which sets `broken`; after it
  nothing but the report is allowed), and tools that outlive the rejected batch
  emit their end later, into the run that is active by then (`LooseEnd`).
- Harness: a listener that awaits `abort()` or `waitForIdle()` of the run that
  awaits it waits for ever. What else depends on the callers is said above.
- Mutations of the same file may overlap when the file does not exist at the
  first look-up and is reached through a link. The properties are about keys.
- After a write that failed part way, a session of the harness goes on in memory
  but its file cannot be opened again.
- Session manager: a torn line and the entry appended to it are one malformed
  line, and the walk to the root stops at the entry that is gone. A header cut
  before its end of line costs the whole session. A first write that fails leaves
  a file that every later attempt (flag `wx`) refuses. `forkFrom` copies a file of
  an old version as it is. A process that ends while it rewrites a migrated file
  loses its entries.
- Agent session: a failed answer that was retried stays in the branch and comes
  back with the context an overflow compaction builds; `continue()` then refuses
  to start from it. Aborting the sleep of a retry while something is queued
  repeats the cancelled request with a fresh budget; so does a result of a shell
  command that comes, with a message queued, during a compaction after the last
  retry, since it stands behind the failed answer then. `compact()` during a run
  stops listening before the run has ended: its last messages are missing from
  the session, the shown texts and the retry counter may stay. A handler that
  fails keeps the message it handled from the session, or has it in memory only;
  when its report fails as well, `prompt()` throws and the retry counter stays. What
  is queued while no prompt is in progress waits for the next one.
- Compaction: when all that is newly cut belongs to one turn that the cut splits,
  `compact()` has no history to summarise, writes "no earlier history" and does
  not pass the earlier summary on, so what that one told is forgotten
  (`CutsFirstTurn` excepts it); `docs/compaction.md` says that an earlier summary
  is passed on whenever there is one. Its list of files is kept. A setting right
  before a kept user message makes the whole turn before it count as split. A
  branch that has nothing but results where the budget is reached is kept whole,
  whatever its size.
- `navigateTree()` waits for neither a run nor a compaction: results may come
  without their calls (`Astray`), and a compaction may be appended to a branch
  that does not have what it keeps (`Mislaid`, not `InPlace`); nothing is claimed
  then.
- Settings: the first write of a file is not merged, because an absent file is
  read without the lock (`raced`). An editor takes no lock, so what it saves between
  the read (`settings-manager.ts:220`) and the write (line 230) of a process is
  overwritten, also when it has broken the file by then (`missed`); text that it
  saves between the truncation and the write may be mixed with the write's. A
  queued write carries all fields that were marked when it was queued
  (lines 547-553) and repeats what an earlier one of its process has saved, over the
  value another process has given the field in between (`Repeated`); once saved,
  a field is no longer marked, so a change made later does not repeat it
  (`MarksAreUnsaved`). `NoLostUpdate` excepts exactly these fields, `BrokenIsKept`
  the processes that had read the file before it was broken. A process that ends
  or a write that fails between the truncation and the end leaves an empty or
  broken file (`damaged`); an empty one loads as no settings. A change made while
  `reload()` waits is replaced in memory, though it will be saved. An error is
  recorded for its scope and drained at startup only (`main.ts:548`, `618`), so
  `failed` stays set and `SetIsSaved` says nothing more of that process and scope.
- Credentials: the file is looked for and created without the lock, so a slower
  process empties what a faster one has written. A change made while the same
  process refreshes fails, its error is recorded (nobody asks for the errors), and the
  refresh then replaces it in memory. A refresh that notices its lock was lost
  forgets the new token although the provider no longer takes the old one; one
  that does not notice writes what it had read, and releases the lock of whoever
  has it. A process that ends in a write loses all credentials.

## Fairness

- `Agent`: weak fairness of `Progress`, the steps of the run itself: providers
  answer or fail, tools and listeners end, timers and the event loop are fair.
  What callers do and what throws is never forced. Without it no
  liveness property could hold: a tool that hangs hangs the run.
- `EventStream`: a woken consumer resumes (microtasks run), and a consumer keeps
  asking. Nothing forces the producer to push or end; `IterationsEnd` is about
  streams that were ended, and about every iterator that is not asleep once the
  completing event is pushed (of those that sleep it wakes one; the others wait
  for `end()`).
- `FileMutationQueue`: every await of a call ends (`realpath` answers, mutations
  end).
- `AgentHarness`: each caller's own steps, as for the agent. A listener that only
  runs is assumed to end; one that awaits a call of the harness ends when that
  call does, which nothing forces.

`AgentSession`, `SessionManager`, `SettingsManager` and `AuthStorage` state no
fairness. Three of them (all but SessionManager) have a step `Rest` that only a
system at rest can take, and TLC checks them for deadlock: wherever anything is
still going on, something can go on. In the other models deadlock is not checked
(`CHECK_DEADLOCK FALSE`): a system in which every bound is used up and nobody calls
stops, as it should. That nothing waits for ever is stated by the liveness
properties `Settles`, `IterationsEnd`, `CallsEnd` and `WaitsEnd`; the models of the
sessions and of compaction have no such property.

## Proofs

TLAPS checks these for every value of the constants, under the assumptions the
modules name (bounds are naturals, modes are modes, `realpath` is idempotent).

- `AgentProofs`: `TypeCorrect`, and every property of the agent's runs but
  `Settles`. `ContextIsTranscript` (TranscriptAgrees) and
  `ActivityIsShown` (StateSettled) are not inductive: at each
  await context and transcript are related in a way of its own, the context
  possibly one message behind, or ahead by what is being announced (`ContextInv`,
  `LoopInv`); that `pendingToolCalls` is exact needs what each place in a batch
  says of its calls (`BatchInv`), and that tools left behind belong to earlier
  turns (`StrayInv`).
  `DeliveryKeepsOrder` (DeliveredInOrder) and `MessagesAreKept` (Conservation): a
  user message is known by its mark, the way it came in and its number. The marks
  of the transcript, of what is drained and of the queue of one way form a line
  in which the numbers grow (`LineInv`); each number given out is present once,
  cleared or lost (`NumberInv`); and every step is one of nine kinds of moves of
  marks (`StepMoves`), so that the argument is made nine times and not for each
  of forty actions.
  `QueuesAreServed` (NothingStranded) follows what a poll says of the queues
  until the next one (`ServedInv`). `CallsAreAnswered` (ToolResultsComplete): the
  results of a batch answer its calls in order, behind the response that made
  them (`AnswerInv`). `ProtocolIsFollowed` (FollowsProtocol) maps each action to a
  step of RunProtocol or to a stutter; it needs that a call that starts was not open before (`StartedInv`).
- `StreamAndFileProofs`: of the stream, `NoneLostOrRepeated`, `SeenInOrder`,
  `ResultComesLast`, together `DeliveryHolds`.
  The queue is a gapless run that ends with the newest event, and an event goes
  to a waiter only when the queue is empty.
  Of the file mutations, `NeverOverlap`, `ServedInOrder`, `MapHoldsTheTail`.
  The calls of a key form a list; each waits for its predecessor, and the map
  holds the list's end.
  Of the session manager, all four of its properties. `FilesStaySound`
  (FileIsSound) is not inductive: a line that tore is harmless until something is
  appended to it, and what reopening gives depends on labels and old versions.
  Its invariant (`SessionsInv`) says of each file (`Disk`): ids were drawn in
  order, so the lines that can be read are a tree in which parents come first; a
  tear leaves a last line nobody was told was written and counts as a loss at
  once, what is appended next spoils both and is the loss instead; a file is
  written anew only with all that is acknowledged, or when nothing of that is
  read from it. And of the process (`Mind`): its memory is such a tree, and as long
  as memory and file have not parted (a write failed or was torn), its labels are
  those of its entries and reading the file gives it back. The path to an entry and the labels are recursive functions; that
  they exist, and what one more entry adds to them, is proved by counting up from
  the empty sequence (`PathsAre`, `LabelsOfMore`, `CountUp`).
  `CompactionsKeepTheTail` (CompactionKeepsTail): the path to an appended entry is
  the path to its parent and the entry, the entry a compaction keeps from lies
  before it on that path, and the messages from there on are a tail of what was
  sent before, also when an earlier compaction had cut the path
  (`CompactionStep`). `MigrationsKeepTheContext` (MigrationKeepsContext): a file of
  version 1 becomes a chain, whose path is all of it, and an index becomes the id
  of the entry at that place. `ForksKeepTheContext` (ForkKeepsContext): a fork is
  the path without labels and a chain of new labels behind it; when the labels of
  the path are all at its end, both send what the path without them sends
  (`ContextOfLabelled`), and the labels written name what they named
  (`LabelsOfSet`).
- `SessionTreeProofs`: `Durability` holds for any number of concurrent writers.
  `NoIdTwice` and `WalksEnd` (together `TreeStaysSound`), `MemoryIsFile` and `SessionIsKept` (FileKeepsSession) assume that calls do
  not overlap: a draft then stays what it was made for until it is remembered,
  and the file is the memory plus at most that draft.
- `AgentHarnessProofs`: `BusyIsBusy`, `SendsWhatIsPersisted`, `ItemsAreKept` and
  `QuietIsFlushed`, for any callers, with the exceptions the properties name. `Control`
  says where a caller may go next; `PhaseInv` that one caller at most holds the
  phase, a run until it declares the harness idle and a reshaping until its end,
  which the guards of the code give; `Exclusive` that, while `serial` holds, two
  calls that touch the session are a run that awaits its listeners and one of
  them. `ContextInv` rests on that; `FlushInv` says that a pending write in an idle
  harness has a flush before it.
  `ItemsAreKept` gives every item one home (`Partition`): a queue, the pending
  writes, a caller's hand, the session, what `abort()` returned, what errors took;
  each step moves items from one home to another or puts new ones into one. Two
  flushes at a time would write what is pending twice: it needs `Exclusive`.
- `SettingsManagerProofs`: `UpdatesAreNotLost`, `BrokenFilesAreKept`,
  `SettingsAreSaved`, `MarksGoWhenSaved`, `TypesHold`. The invariant of the first
  follows a write from the read to its end: who has found the file
  holds its lock from the read on, so what it will write stays the last update of
  every field but its own, those an editor saves meanwhile (`missed`) and those
  already given up (`lost`); an empty file is being written or was damaged. That
  a broken file is kept follows from the same: a process that is about to write
  had read a file that parsed, so an editor has broken it since.
  `SettingsAreSaved` accounts for each field a process has set: it came into the
  file, waits in the queue, or its scope has an error; what a write puts into the
  file is the head of the queue.
  `MarksGoWhenSaved` (MarksAreUnsaved): each value has one process that may still
  write it (`Apart`), and a write clears the marks of all it has saved.
- `AgentSessionProofs`: `RetriesEnd` (RetriesAreOver) and `QueuesAreServed`
  (NothingStranded), both from `SessionGoesOn`. One call of `prompt()` is under way
  at a time (`Alone`). A request has failed at most as often as the retry counter
  says before it is made and once more at the end of its run; where the counter
  is reset, `continue()` finds the failed answer at the end of the messages and
  does not repeat the request (`Retrying`). The counter is reset by what the
  session heard (`Hearing`), and what is begun, a sleep, a compaction, a
  continuation, has messages to go on from (`Going`); without the latter
  `continue()` could throw and leave the queues as they are. Once an event has
  passed unheard or the handler has failed (`Astray`) only the pairs of calls and
  results, and the one recovery, are still claimed.
  `QueuesAreShown` (ShownIsQueued): of each text, what is shown is counted
  against what is queued or on its way, and each step takes as much from both (`Mirrored`).
  `CallsHaveResults` (ToolPairs): a message reaches the agent before the session,
  so the claim is made of the branch with the message that is being handled
  (`Told`) as well as of the agent's messages. The results of a batch, of any
  size, follow its answer one by one as long as it is executed, and an answer
  whose batch was broken off is named (`Pairing`); compactions keep both together
  since they cut where no result stands (`Cuts`), whatever is held back is a bash
  result.
  `SessionIsHeld` (SessionAgrees) keeps the two equal at every step (`Agrees`): the
  agent's messages are the context of `Told` without what was dropped. What is dropped is
  named by its number, so no entry, present or still to come, may share the number of
  an answer (`Numbered`); rebuilding the context after a compaction takes lemmas about
  positions picked from a sequence.
  `ContinueIsAccepted` (ContinueAccepted): what `continue()` finds is what a
  compaction left at the end of the branch, so the claim is about that end
  (`Ends`). Of two answers that follow each other the first is one whose request
  was made again, and if the second is an error and the first an overflow, the one
  recovery is spent; so a compaction for an overflow finds at the end nothing but
  an answer that is repeated (`MayGo`), and what its removal uncovers is a failed
  answer of an earlier retry. It needs `Agrees`: what was dropped is in the branch.
- `AuthStorageProofs`: `CredentialsAreKept`, `ChangesAreSaved` and `ShapeHolds`.
  NoLostCredential is
  not inductive: it needs that who writes a change, or refreshes with its lock
  kept, is the lock's holder and only in one of the two ways (`Locking`), so that
  nobody writes between its read and its write (`Pending`). Where a process goes
  on without knowing that its lock is lost, the history variable `harmed` is set
  and nothing is claimed.
  `TokensAreValid` (TokensStayValid): a token that waits to be
  stored is nowhere else (`Fresh`); who has the lock works with the file alone, so
  the token it read stays the one the provider takes until it has refreshed it
  (`Orderly`). It holds where no lock and no answer was lost.
- `CompactionProofs`: `NothingIsLost` (CompactionIsSound) and `TypesHold`. On one
  branch, what a preparation summarises is what its cut takes out and no compaction
  before it took out; the earlier summary is passed on unless all of that begins
  one turn; and the cut is where the budget is reached, exactly or with the newest
  message (`PreparationIs`). The branch may then be left while the summary is asked
  for. Ids grow along it, so an id no larger than a common entry's is found at
  the same place on both branches or on neither (`PositionStays`): as long as the
  entry a compaction was prepared on is there, so is all it is judged by
  (`SoundnessStays`), and no other compaction has come between (`PreparedIsSound`).
  `CallsAreAnswered` (RequestsAreComplete) is proved in three parts. Along a
  branch a result stands behind the answer that made its call, with only results
  between; the calls still awaited are those of the last answer, behind which no
  compaction under way was prepared (`BatchesOf`); and what a compaction keeps
  does not begin between an answer and its results (`NothingSplit`). So the
  context, a summary and two pieces of the branch, has no result without its
  answer (`ContextIsComplete`). What is sent for it is a recursive
  function; that it exists is proved by its unique beginnings, the first number
  without one being absurd (`SentExists`), and after each message all is paired or
  the results of the last answer are coming (`UpTo`), again by the first message
  where it would fail.

Only model-checked: the liveness properties (`Settles`, `IterationsEnd`,
`CallsEnd`, `WaitsEnd`), since the prover does not reason about fairness. Every
safety and action property of the passing runs is a theorem. The modules proved about
declare no RECURSIVE operator: paths, labels and requests are recursive functions,
and what is picked of a sequence is named by its positions (`Picked`).

## Not modelled

- In the agent: `message_update` and `tool_execution_update` (they replace a
  partial message), the optional hooks `prepareNextTurn` and
  `shouldStopAfterTurn` (unset by the applications; the harness sets the first,
  and AgentHarness has it), the stream wrappers `agentLoop` and
  `agentLoopContinue`.
- In the session: the header line, the read-only queries, `buildContext`.
- In the harness: the results hooks return, `setResources` and
  `setStreamOptions`, tool messages.
- In the agent session: extensions, skills, model and thinking level, navigation
  of the tree, a second prompt sent while the first retries or compacts, an entry
  that cannot be written among the bash results added after a run.
- In the session manager: sessions that are not persisted, listing, two
  processes on one file.
- In the compaction: the estimation of sizes and the threshold that asks for a
  compaction, what a branch summary is told and its budget, compactions made by
  extensions, two compactions at once, results of commands excluded from the
  context, the first pass of `transformMessages` (ids, thinking, images). The
  harness has a copy of the algorithm, which is not compared with this one.
- In the settings: the migration of old names, the merge of the scopes for the
  getters, an editor that saves by renaming. In the credentials: the storage in memory, keys of the environment and
  for one run, two refreshes at once in one process.
- The components that `PROJECT.json` lists as not modelled, each with its reason:
  most are I/O, formatting or look-ups without coordination of their own (by far
  the most lines of the repository: generated tables, the user interface,
  provider formats, package management, export); the repositories of the harness, RPC mode and the terminal's input have logic
  worth a model and are planned.

## Plan

Done, in this order: Agent with RunProtocol, EventStream, FileMutationQueue,
SessionTree, AgentHarness, AgentSession, SessionManager, SettingsManager,
AuthStorage, Compaction, each with its proofs.

What is left, the most important first:

1. The runtime that replaces one AgentSession by another, and extensions whose
   handlers cancel or replace what AgentSession does.
2. An abstract append-only tree that both SessionTree and SessionManager are
   shown to implement; the fork of the harness's repositories with a crash
   between two copied entries.
3. Ids that are shortened for another provider and may collide (the first pass of
   `transformMessages`); the budget of a branch summary; the harness's copy of the
   compaction as a refinement of the same operators.
4. RPC requests and answers matched by id; StdinBuffer's timer; the rolling tail
   of a command's output.
