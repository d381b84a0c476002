----------------------------- MODULE AuthStorage -----------------------------
(***************************************************************************)
(* The credentials of the applications                                     *)
(* (coding-agent/src/core/auth-storage.ts).                                *)
(*                                                                         *)
(* Several processes keep credentials in one file.  A change by the user   *)
(* is made in memory and then, under the file's lock, merged into the      *)
(* file: withLock is synchronous and gives up after ten attempts.  An      *)
(* expired token is refreshed in withLockAsync: the lock is waited for and *)
(* held while the file is read, the provider asked, and the file written;  *)
(* meanwhile the same process may change other credentials, and the lock   *)
(* may be lost to a process that thinks it stale.                          *)
(*                                                                         *)
(* A credential is the number of the token it was issued with, 0 if there  *)
(* is none.  Tokens up to "horizon" have expired.  A provider takes a      *)
(* refresh token once.  An API key is a token that does not expire soon    *)
(* enough to matter; keys of the environment are left out, and so are the  *)
(* storage in memory, overrides for one process, and a second refresh that *)
(* one process begins before its first has ended.                          *)
(*                                                                         *)
(* A definition that nothing uses, just before another of the same         *)
(* parameters, is a faulty variant of it: what the properties must reject. *)
(***************************************************************************)
EXTENDS Naturals

CONSTANTS
  Processes,
  Providers,
  InitialStates, \* whether the file is there at the beginning
  Nobody,
  MaxTokens,     \* bound: tokens issued
  MaxEvents      \* bound: ends of a process, lost locks and lost answers

ASSUME AuthBounds ==
  /\ {MaxTokens, MaxEvents} \subseteq Nat
  /\ Nobody \notin Processes
  /\ InitialStates \subseteq {"absent", "good"}
  /\ Providers # {}

VARIABLES
  file,         \* auth.json
  lock,         \* the process that holds its lock
  data,         \* of each process
  loadError,    \* the file could not be loaded: changes are not saved
  failed,       \* the process has errors recorded
  pc,           \* where withLock, or the end of a refresh, is
  job,          \* what it is doing there
  call,         \* where getApiKey is suspended, and with what
  valid,        \* refresh tokens each provider takes
  issued, horizon, events,
  latest,       \* each provider's credential by the last write
  unsaved,      \* providers the user changed in a process, not in the file since
  harmed,       \* created twice, cut short, or written without the lock
  robbed,       \* a lock was lost
  dead          \* providers of whose answers one was lost

storage == <<file, lock>>
memory  == <<data, loadError, failed, unsaved>>
steps   == <<pc, job>>
remote  == <<valid, issued, horizon>>
history == <<latest, harmed, robbed, dead>>
vars == <<storage, memory, steps, call, remote, events, history>>

None == [v \in Providers |-> 0]
NoProvider == CHOOSE v \in Providers : TRUE
File(state, content) == [state |-> state, content |-> content]
Job(kind, v, value, next) ==
  [kind |-> kind, provider |-> v, value |-> value, next |-> next]
NoJob == Job("none", NoProvider, 0, None)
Load == Job("load", NoProvider, 0, None)
EnsureFile == Job("ensure", NoProvider, 0, None)
\* "current" is currentData, the file as it was read; "hold" tells whether
\* the lock is kept, lost, or known to be lost (lockCompromised).
Call(at, v) ==
  [at |-> at, provider |-> v, current |-> None, answer |-> 0, hold |-> "kept"]
NoCall == Call("idle", NoProvider)

Of(x) == [p \in Processes |-> x]

Init ==
  /\ \E state \in InitialStates :
       file = File(state, IF state = "good" THEN [v \in Providers |-> 1] ELSE None)
  /\ latest = file.content
  /\ lock = Nobody
  /\ data = Of(None) /\ loadError = Of(FALSE) /\ failed = Of(FALSE)
  /\ unsaved = Of({})
  /\ pc = Of("start") /\ job = Of(NoJob) /\ call = Of(NoCall)
  /\ valid = [v \in Providers |-> {1}] /\ issued = 1 /\ horizon = 0
  /\ events = 0
  /\ harmed = FALSE /\ robbed = FALSE /\ dead = {}

Event == events < MaxEvents /\ events' = events + 1
Expired(token) == token \in 1..horizon

\* What is parsed: nothing of a file that is empty.
Content == IF file.state = "good" THEN file.content ELSE None

-----------------------------------------------------------------------------
(* withLock *)

\* ensureFileExists looks for the file without the lock.
Begin(p, what) ==
  /\ job' = [job EXCEPT ![p] = what]
  /\ pc' = [pc EXCEPT ![p] = IF file.state = "absent" THEN "create" ELSE "lock"]

Ends(p) == pc' = [pc EXCEPT ![p] = "idle"] /\ job' = [job EXCEPT ![p] = NoJob]

\* The file is created empty, or emptied if another process was faster.
Create(p) ==
  /\ pc[p] = "create"
  /\ file' = File("good", None)
  /\ harmed' = (harmed \/ file.state # "absent")
  /\ IF job[p].kind = "ensure" THEN Ends(p)
     ELSE pc' = [pc EXCEPT ![p] = "lock"] /\ UNCHANGED job
  /\ UNCHANGED <<lock, memory, call, remote, events, latest, robbed, dead>>

FailsUnrecorded(p) ==
  /\ Ends(p)
  /\ loadError' = [loadError EXCEPT ![p] = @ \/ job[p].kind = "load"]
  /\ UNCHANGED <<data, failed, unsaved>>

\* A load or a change that throws is recorded.
Fails(p) ==
  /\ Ends(p)
  /\ failed' = [failed EXCEPT ![p] = TRUE]
  /\ loadError' = [loadError EXCEPT ![p] = @ \/ job[p].kind = "load"]
  /\ UNCHANGED <<data, unsaved>>

\* The lock is had and the file read: it is loaded, or merged into.
Take(p) ==
  /\ pc[p] = "lock" /\ lock = Nobody
  /\ IF file.state = "broken" THEN Fails(p) /\ UNCHANGED lock
     ELSE IF job[p].kind = "load"
       THEN /\ data' = [data EXCEPT ![p] = Content]
            /\ loadError' = [loadError EXCEPT ![p] = FALSE]
            /\ Ends(p) /\ UNCHANGED <<lock, failed, unsaved>>
       ELSE /\ lock' = p
            /\ job' = [job EXCEPT ![p].next =
                         [Content EXCEPT ![job[p].provider] = job[p].value]]
            /\ pc' = [pc EXCEPT ![p] = "write"]
            /\ UNCHANGED memory
  /\ UNCHANGED <<file, call, remote, events, history>>

\* Ten attempts find the lock taken, perhaps by this process's own refresh.
TakeFails(p) ==
  /\ pc[p] = "lock" /\ lock # Nobody
  /\ Fails(p)
  /\ UNCHANGED <<storage, call, remote, events, history>>

\* The lock is lost and the process does not know.
Unaware(p) == call[p].hold = "lost"

\* Releasing removes whatever lock there is, unless the own one is known to
\* be lost.
Release(p, held) == lock' = IF held /\ call[p].hold # "known" THEN Nobody ELSE lock

\* The file is written and the lock released.  That it is emptied first shows
\* only when the process ends meanwhile (Crash): who reads it has its lock.
Write(p) ==
  LET v == job[p].provider
      refresh == job[p].kind = "refresh"
  IN /\ pc[p] = "write"
     /\ file' = File("good", job[p].next)
     /\ latest' = [latest EXCEPT ![v] = job[p].value]
     /\ IF refresh
          THEN /\ Release(p, TRUE)
               /\ call' = [call EXCEPT ![p] = NoCall]
               /\ harmed' = (harmed \/ Unaware(p)) /\ UNCHANGED unsaved
          ELSE /\ lock' = IF lock = p THEN Nobody ELSE lock
               /\ unsaved' = [unsaved EXCEPT ![p] = @ \ {v}]
               /\ UNCHANGED <<call, harmed>>
     /\ Ends(p)
     /\ UNCHANGED <<data, loadError, failed, remote, events, robbed, dead>>

-----------------------------------------------------------------------------
(* What the user does *)

\* The memory and, unless the file could not be loaded, the file.
Change(p, v, value) ==
  /\ pc[p] = "idle"
  /\ data' = [data EXCEPT ![p][v] = value]
  /\ unsaved' = [unsaved EXCEPT ![p] = @ \union {v}]
  /\ IF loadError[p] THEN UNCHANGED steps
     ELSE Begin(p, Job("change", v, value, None))
  /\ UNCHANGED <<storage, loadError, failed, call, horizon, events, history>>

\* login() has a token issued, set() is given one.
Set(p, v) ==
  /\ issued < MaxTokens
  /\ issued' = issued + 1
  /\ valid' = [valid EXCEPT ![v] = @ \union {issued'}]
  /\ Change(p, v, issued')

Remove(p, v) == data[p][v] # 0 /\ Change(p, v, 0) /\ UNCHANGED <<valid, issued>>

Start(p) ==
  /\ pc[p] = "start"
  /\ Begin(p, Load)
  /\ UNCHANGED <<storage, memory, call, remote, events, history>>

-----------------------------------------------------------------------------
(* getApiKey with an expired token: refreshOAuthTokenWithLock *)

Ask(p, v) ==
  /\ pc[p] = "idle" /\ call[p].at = "idle" /\ Expired(data[p][v])
  /\ call' = [call EXCEPT ![p] = Call("locking", v)]
  /\ IF file.state = "absent" THEN Begin(p, EnsureFile) ELSE UNCHANGED steps
  /\ UNCHANGED <<storage, memory, remote, events, history>>

\* The lock is released, the error recorded and the file loaded again: perhaps
\* another process has refreshed.  Its token is returned if it has not expired.
Rescue(p, held) ==
  /\ failed' = [failed EXCEPT ![p] = TRUE]
  /\ call' = [call EXCEPT ![p] = NoCall]
  /\ Begin(p, Load)
  /\ Release(p, held)
  /\ harmed' = (harmed \/ (held /\ Unaware(p)))
  /\ UNCHANGED file

AskFails(p) ==
  /\ pc[p] = "idle" /\ call[p].at = "locking" /\ lock # Nobody
  /\ Rescue(p, FALSE)
  /\ UNCHANGED <<data, loadError, unsaved, remote, events, latest, robbed, dead>>

RefreshFromMemory(p) ==
  LET token == data[p][call[p].provider]
  IN /\ pc[p] = "idle" /\ call[p].at = "locking" /\ lock = Nobody
     /\ IF file.state = "broken"
          THEN Rescue(p, FALSE) /\ UNCHANGED <<data, loadError>>
          ELSE /\ loadError' = [loadError EXCEPT ![p] = FALSE] /\ UNCHANGED data
               /\ IF Expired(token)
                    THEN /\ lock' = p
                         /\ call' = [call EXCEPT ![p].at = "asking", ![p].current = data[p]]
                    ELSE call' = [call EXCEPT ![p] = NoCall] /\ UNCHANGED lock
               /\ UNCHANGED <<file, failed, steps, harmed>>
     /\ UNCHANGED <<unsaved, remote, events, latest, robbed, dead>>

\* The lock is had and the file read, which the process works on from now
\* on.  Another process may have refreshed the token, or removed it.
Refresh(p) ==
  LET token == Content[call[p].provider]
  IN /\ pc[p] = "idle" /\ call[p].at = "locking" /\ lock = Nobody
     /\ IF file.state = "broken"
          THEN Rescue(p, FALSE) /\ UNCHANGED <<data, loadError>>
          ELSE /\ data' = [data EXCEPT ![p] = Content]
               /\ loadError' = [loadError EXCEPT ![p] = FALSE]
               /\ IF Expired(token)
                    THEN /\ lock' = p
                         /\ call' = [call EXCEPT ![p].at = "asking", ![p].current = Content]
                    ELSE call' = [call EXCEPT ![p] = NoCall] /\ UNCHANGED lock
               /\ UNCHANGED <<file, failed, steps, harmed>>
     /\ UNCHANGED <<unsaved, remote, events, latest, robbed, dead>>

\* The provider refuses the request, or it does not get there.
AskingFails(p) ==
  /\ pc[p] = "idle" /\ call[p].at = "refused"
  /\ Rescue(p, TRUE)
  /\ UNCHANGED <<data, loadError, unsaved, remote, events, latest, robbed, dead>>

\* What was read, with the new token.
Merged(p) == [call[p].current EXCEPT ![call[p].provider] = call[p].answer]

AnswerAnyway(p) ==
  LET v == call[p].provider
  IN /\ pc[p] = "idle" /\ call[p].at = "served"
     /\ data' = [data EXCEPT ![p] = Merged(p)]
     /\ loadError' = [loadError EXCEPT ![p] = FALSE]
     /\ pc' = [pc EXCEPT ![p] = "write"]
     /\ job' = [job EXCEPT ![p] = Job("refresh", v, call[p].answer, Merged(p))]
     /\ call' = [call EXCEPT ![p].at = "saving"]
     /\ UNCHANGED <<storage, failed, unsaved, remote, events, history>>

\* The new token is merged into what was read; it is written unless the lock
\* is known to be lost, and forgotten otherwise.
Answer(p) ==
  LET v == call[p].provider
  IN /\ pc[p] = "idle" /\ call[p].at = "served"
     /\ data' = [data EXCEPT ![p] = Merged(p)]
     /\ loadError' = [loadError EXCEPT ![p] = FALSE]
     /\ IF call[p].hold = "known"
          THEN Rescue(p, TRUE) /\ dead' = dead \union {v}
          ELSE /\ pc' = [pc EXCEPT ![p] = "write"]
               /\ job' = [job EXCEPT ![p] = Job("refresh", v, call[p].answer, Merged(p))]
               /\ call' = [call EXCEPT ![p].at = "saving"]
               /\ UNCHANGED <<storage, failed, harmed, dead>>
     /\ UNCHANGED <<unsaved, remote, events, latest, robbed>>

-----------------------------------------------------------------------------
(* The surroundings *)

Presented(p) == call[p].current[call[p].provider]

\* The provider takes a refresh token once and issues another.
Serve(p) ==
  LET v == call[p].provider
  IN /\ call[p].at = "asking"
     /\ IF Presented(p) \in valid[v]
          THEN /\ issued < MaxTokens /\ issued' = issued + 1
               /\ valid' = [valid EXCEPT ![v] = (@ \ {Presented(p)}) \union {issued'}]
               /\ call' = [call EXCEPT ![p].at = "served", ![p].answer = issued']
          ELSE call' = [call EXCEPT ![p].at = "refused"] /\ UNCHANGED <<issued, valid>>
     /\ UNCHANGED <<storage, memory, steps, horizon, events, history>>

RequestFails(p) ==
  /\ call[p].at = "asking"
  /\ call' = [call EXCEPT ![p].at = "refused"]
  /\ UNCHANGED <<storage, memory, steps, remote, events, history>>

AnswerIsLost(p) ==
  /\ call[p].at = "served" /\ Event
  /\ call' = [call EXCEPT ![p].at = "refused"]
  /\ dead' = dead \union {call[p].provider}
  /\ UNCHANGED <<storage, memory, steps, remote, latest, harmed, robbed>>

\* The lock was not renewed in time and is free for others; onCompromised
\* tells the process some time later.
LoseLock(p) ==
  /\ lock = p /\ call[p].at \in {"asking", "served"} /\ call[p].hold = "kept" /\ Event
  /\ lock' = Nobody /\ call' = [call EXCEPT ![p].hold = "lost"] /\ robbed' = TRUE
  /\ UNCHANGED <<file, memory, steps, remote, latest, harmed, dead>>

Notice(p) ==
  /\ pc[p] = "idle" /\ call[p].at \in {"asking", "served"} /\ Unaware(p)
  /\ call' = [call EXCEPT ![p].hold = "known"]
  /\ UNCHANGED <<storage, memory, steps, remote, events, history>>

\* The last token the bound admits does not expire: no other could replace it.
Expire ==
  /\ horizon < issued /\ issued < MaxTokens /\ horizon' = issued
  /\ UNCHANGED <<storage, memory, steps, call, valid, issued, events, history>>

\* The process ends and another takes its place.  A request it has made may
\* still be served.
Crash(p) ==
  LET v == call[p].provider
      open == call[p].at \in {"served", "saving"}
  IN /\ Event
     /\ IF pc[p] = "write"
          THEN /\ \E state \in {"empty", "broken"} : file' = File(state, None)
               /\ harmed' = TRUE
          ELSE UNCHANGED <<file, harmed>>
     /\ \/ valid' = valid /\ dead' = IF open THEN dead \union {v} ELSE dead
        \/ /\ call[p].at = "asking" /\ Presented(p) \in valid[v]
           /\ valid' = [valid EXCEPT ![v] = @ \ {Presented(p)}]
           /\ dead' = dead \union {v}
     /\ lock' = IF lock = p THEN Nobody ELSE lock
     /\ data' = [data EXCEPT ![p] = None] /\ unsaved' = [unsaved EXCEPT ![p] = {}]
     /\ loadError' = [loadError EXCEPT ![p] = FALSE] /\ failed' = [failed EXCEPT ![p] = FALSE]
     /\ pc' = [pc EXCEPT ![p] = "start"] /\ job' = [job EXCEPT ![p] = NoJob]
     /\ call' = [call EXCEPT ![p] = NoCall]
     /\ UNCHANGED <<issued, horizon, latest, robbed>>

Quiet(p) == pc[p] = "idle" /\ call[p].at = "idle"

Rest == (\A p \in Processes : Quiet(p)) /\ UNCHANGED vars

Next ==
  \/ \E p \in Processes :
       \/ Start(p) \/ Create(p) \/ Take(p) \/ TakeFails(p) \/ Write(p)
       \/ AskFails(p) \/ Refresh(p) \/ AskingFails(p) \/ Answer(p)
       \/ Serve(p) \/ RequestFails(p) \/ AnswerIsLost(p)
       \/ LoseLock(p) \/ Notice(p) \/ Crash(p)
       \/ \E v \in Providers : Set(p, v) \/ Remove(p, v) \/ Ask(p, v)
  \/ Expire \/ Rest

Spec == Init /\ [][Next]_vars

-----------------------------------------------------------------------------
(* Properties *)

\* auth.json holds each provider's credential by the last write, whatever
\* several processes change and refresh at once, and however late the answer
\* of a provider comes (withLock, withLockAsync).  Excepted are a file that
\* was created twice, a process that ended in a write, and a process that
\* went on without knowing its lock was lost; one that knows is not.
NoLostCredential ==
  file.state = "good" /\ ~harmed => file.content = latest

\* "race conditions when multiple pi instances try to refresh tokens
\* simultaneously" (auth-storage.ts): no refresh token is presented a second
\* time, and the one in the file is still taken unless it is just being
\* refreshed; as long as no answer of a provider and no lock is lost.
TokensStayValid ==
  ~robbed => \A v \in Providers \ dead :
    /\ \A p \in Processes :
         call[p].at = "asking" /\ call[p].provider = v => Presented(p) \in valid[v]
    /\ file.state = "good" /\ file.content[v] # 0 =>
         \/ file.content[v] \in valid[v]
         \/ \E p \in Processes : call[p].at \in {"served", "saving"} /\ call[p].provider = v

\* What the user changed in a process has come into the file when nothing
\* goes on, or an error is recorded: also when the change was made during a
\* refresh, or when the file could not be loaded (recordError).
ChangeIsSaved ==
  \A p \in Processes : Quiet(p) /\ ~failed[p] => unsaved[p] = {}
=============================================================================
