--------------------------- MODULE SettingsManager ---------------------------
(***************************************************************************)
(* The settings of the applications                                        *)
(* (coding-agent/src/core/settings-manager.ts).                            *)
(*                                                                         *)
(* Several processes keep settings in one file for each scope.  A setter   *)
(* changes the memory, marks the field and queues a write; a write merges  *)
(* the marked fields of the moment it was queued into the file of the      *)
(* moment it runs, and unmarks everything when it succeeds.  withLock      *)
(* looks for the file, locks it if it is there, reads it, and locks it     *)
(* before the write otherwise.  An editor saves the file at any time and   *)
(* without the lock, also between the read and the end of a write.  A      *)
(* write may fail, and a process may end at any step, also between the     *)
(* truncation of the file and the end of the write.                        *)
(*                                                                         *)
(* Within one process the queue's writes, the setters and reload() take    *)
(* turns; withLock is synchronous.  A value is the number of the change    *)
(* that made it.  Nested fields count as fields of their own, and what the *)
(* migration of old names does is left out.                                *)
(*                                                                         *)
(* A definition that nothing uses, just before another of the same         *)
(* parameters, is a faulty variant of it: what the properties must reject. *)
(***************************************************************************)
EXTENDS Naturals, Sequences

CONSTANTS
  Processes,
  Scopes,
  Fields,
  InitialFiles,  \* whether each file is there at the beginning
  Nobody,
  MaxChanges,    \* bound: setters called and edits
  MaxEvents      \* bound: calls of reload, ends of a process, writes that
                 \* fail, and locks that are not had after ten attempts

ASSUME SettingsBounds ==
  /\ {MaxChanges, MaxEvents} \subseteq Nat
  /\ Nobody \notin Processes
  /\ InitialFiles \in [Scopes -> {"absent", "good"}]
  /\ Scopes \subseteq {"global", "project"} /\ Scopes # {}

VARIABLES
  file,        \* what is on the disk
  lock,        \* the process that holds the file's lock
  settings,    \* globalSettings, projectSettings
  modified,    \* modifiedFields, modifiedProjectFields
  loadError,   \* the scope could not be loaded: it is not saved
  writeQueue,  \* of each process
  failed,      \* the scope has errors recorded
  pc,          \* where the process is in withLock
  op,          \* the operation withLock does, and what it saw
  ahead,       \* writes that reload waits for
  reloading,   \* the scopes reload has still to load
  changes, events,  \* so far
  latest,      \* each field's value by the last write of a new one, or edit
  lost,        \* the fields whose latest value a write is known to undo
  missed,      \* what an editor did since the process read the file
  damaged,     \* a write was broken off, or an editor saved in its midst
  raced,       \* a file came to be after a process had found it absent
  own,         \* fields a process has set since it last loaded the scope
  saved        \* values that came into the file

memory  == <<settings, modified, loadError, failed>>
control == <<pc, op, writeQueue, ahead, reloading>>
counts  == <<changes, events>>
unseen  == <<latest, lost, missed>>
history == <<unseen, damaged, raced, own, saved>>
vars == <<file, lock, memory, control, counts, history>>

Unset == [f \in Fields |-> 0]
File(state, content) == [state |-> state, content |-> content]

NoOp == [kind |-> "none", scope |-> CHOOSE s \in Scopes : TRUE, found |-> FALSE,
         content |-> Unset, fields |-> {}, next |-> Unset]
Load(s) == [NoOp EXCEPT !.kind = "load", !.scope = s]
Task(s, content, fields) ==
  [NoOp EXCEPT !.kind = "task", !.scope = s, !.content = content, !.fields = fields]

Nothing == [fields |-> {}, broken |-> FALSE]

NoMemory(x) == [p \in Processes |-> [s \in Scopes |-> x]]

Init ==
  /\ file = [s \in Scopes |-> File(InitialFiles[s], Unset)]
  /\ lock = [s \in Scopes |-> Nobody]
  /\ settings = NoMemory(Unset) /\ modified = NoMemory({})
  /\ loadError = NoMemory(FALSE) /\ failed = NoMemory(FALSE)
  /\ writeQueue = [p \in Processes |-> <<>>]
  /\ pc = [p \in Processes |-> "start"] /\ op = [p \in Processes |-> NoOp]
  /\ ahead = [p \in Processes |-> 0]
  /\ reloading = [p \in Processes |-> Scopes]
  /\ changes = 0 /\ events = 0
  /\ latest = [s \in Scopes |-> Unset] /\ lost = [s \in Scopes |-> {}]
  /\ missed = [p \in Processes |-> Nothing]
  /\ damaged = [s \in Scopes |-> FALSE] /\ raced = [s \in Scopes |-> FALSE]
  /\ own = NoMemory({}) /\ saved = [s \in Scopes |-> {}]

Goto(p, place) == pc' = [pc EXCEPT ![p] = place]
Event == events < MaxEvents /\ events' = events + 1

-----------------------------------------------------------------------------
(* The manager *)

\* A setter: the memory, the mark and, unless the scope could not be
\* loaded, a write of what is marked now.
Set(p, s, f) ==
  /\ pc[p] = "rest" /\ changes < MaxChanges /\ changes' = changes + 1
  /\ settings' = [settings EXCEPT ![p][s][f] = changes']
  /\ modified' = [modified EXCEPT ![p][s] = @ \union {f}]
  /\ writeQueue' = IF loadError[p][s] THEN writeQueue
                   ELSE [writeQueue EXCEPT
                           ![p] = Append(@, Task(s, settings'[p][s], modified'[p][s]))]
  /\ own' = [own EXCEPT ![p][s] = @ \union {f}]
  /\ UNCHANGED <<file, lock, loadError, failed, pc, op, ahead, reloading, events,
                 unseen, damaged, raced, saved>>

\* reload() waits for the writes that are queued now, then loads every scope.
Reload(p) ==
  /\ pc[p] = "rest" /\ reloading[p] = {} /\ Event
  /\ ahead' = [ahead EXCEPT ![p] = Len(writeQueue[p])]
  /\ reloading' = [reloading EXCEPT ![p] = Scopes]
  /\ UNCHANGED <<file, lock, memory, pc, op, writeQueue, changes, history>>

ReloadDue(p) == reloading[p] # {} /\ ahead[p] = 0

Start(p) ==
  /\ \/ /\ pc[p] = "start" \/ (pc[p] = "rest" /\ ReloadDue(p))
        /\ \E s \in reloading[p] :
             /\ "global" \in reloading[p] => s = "global"
             /\ op' = [op EXCEPT ![p] = Load(s)]
     \/ /\ pc[p] = "rest" /\ ~ReloadDue(p) /\ writeQueue[p] # <<>>
        /\ op' = [op EXCEPT ![p] = Head(writeQueue[p])]
  /\ Goto(p, "look")
  /\ UNCHANGED <<file, lock, memory, writeQueue, ahead, reloading, counts, history>>

\* The write at the head of the queue is over.
Done(p) ==
  /\ writeQueue' = [writeQueue EXCEPT ![p] = Tail(@)]
  /\ ahead' = [ahead EXCEPT ![p] = IF @ = 0 THEN 0 ELSE @ - 1]
  /\ Goto(p, "rest") /\ op' = [op EXCEPT ![p] = NoOp]
  /\ UNCHANGED reloading

\* The load of one scope is over; the marks go with the first of them.  The
\* other scopes follow before anything else happens in the process.
Loaded(p, s) ==
  /\ reloading' = [reloading EXCEPT ![p] = @ \ {s}]
  /\ modified' = [modified EXCEPT ![p] =
                    IF reloading[p] = Scopes THEN [t \in Scopes |-> {}] ELSE @]
  /\ Goto(p, IF reloading[p] = {s} THEN "rest" ELSE "start")
  /\ op' = [op EXCEPT ![p] = NoOp]
  /\ UNCHANGED <<writeQueue, ahead>>

\* The error is recorded; the next write in the queue is tried all the same.
FailsForGood(p) ==
  LET s == op[p].scope
  IN IF op[p].kind = "load"
       THEN /\ Loaded(p, s)
            /\ loadError' = [loadError EXCEPT ![p][s] = TRUE]
            /\ failed' = [failed EXCEPT ![p][s] = TRUE]
            /\ UNCHANGED settings
       ELSE /\ writeQueue' = [writeQueue EXCEPT ![p] = <<>>]
            /\ ahead' = [ahead EXCEPT ![p] = 0]
            /\ Goto(p, "rest") /\ op' = [op EXCEPT ![p] = NoOp]
            /\ UNCHANGED reloading
            /\ failed' = [failed EXCEPT ![p][s] = TRUE]
            /\ UNCHANGED <<settings, modified, loadError>>

Fails(p) ==
  LET s == op[p].scope
  IN /\ failed' = [failed EXCEPT ![p][s] = TRUE]
     /\ IF op[p].kind = "load"
          THEN Loaded(p, s) /\ loadError' = [loadError EXCEPT ![p][s] = TRUE]
          ELSE Done(p) /\ UNCHANGED <<modified, loadError>>
     /\ UNCHANGED settings

-----------------------------------------------------------------------------
(* FileSettingsStorage.withLock *)

LookUnlocked(p) ==
  /\ pc[p] = "look"
  /\ op' = [op EXCEPT ![p].found = file[op[p].scope].state # "absent"]
  /\ Goto(p, "read")
  /\ UNCHANGED <<file, lock, memory, writeQueue, ahead, reloading, counts, history>>

Look(p) ==
  LET found == file[op[p].scope].state # "absent"
  IN /\ pc[p] = "look"
     /\ op' = [op EXCEPT ![p].found = found]
     /\ Goto(p, IF found THEN "lock" ELSE "read")
     /\ UNCHANGED <<file, lock, memory, writeQueue, ahead, reloading, counts, history>>

Lock(p) ==
  LET s == op[p].scope
  IN /\ pc[p] \in {"lock", "relock"} /\ lock[s] = Nobody
     /\ lock' = [lock EXCEPT ![s] = p]
     /\ Goto(p, IF pc[p] = "lock" THEN "read" ELSE "truncate")
     /\ UNCHANGED <<file, memory, op, writeQueue, ahead, reloading, counts, history>>

\* Ten attempts found the file locked.
LockFails(p) ==
  LET s == op[p].scope
  IN /\ pc[p] \in {"lock", "relock"} /\ lock[s] # Nobody
     /\ Event
     /\ Fails(p)
     /\ UNCHANGED <<file, lock, changes, history>>

Unlocked(p, s) == IF lock[s] = p THEN [lock EXCEPT ![s] = Nobody] ELSE lock

\* What is read: nothing of a file that was not there or is empty.
Current(p) ==
  LET s == op[p].scope
  IN IF op[p].found /\ file[s].state # "empty" THEN file[s] ELSE File("good", Unset)

Merged(p, content) ==
  [f \in Fields |-> IF f \in op[p].fields THEN op[p].content[f] ELSE content[f]]

ReadAnything(p) ==
  LET s == op[p].scope
  IN /\ pc[p] = "read"
     /\ IF op[p].kind = "load"
          THEN /\ settings' = [settings EXCEPT ![p][s] = Current(p).content]
               /\ Loaded(p, s) /\ lock' = Unlocked(p, s)
               /\ loadError' = [loadError EXCEPT ![p][s] = FALSE]
               /\ own' = [own EXCEPT ![p][s] = {}]
               /\ UNCHANGED failed
          ELSE /\ op' = [op EXCEPT ![p].next = Merged(p, Current(p).content)]
               /\ Goto(p, IF lock[s] = p THEN "truncate" ELSE "relock")
               /\ UNCHANGED <<lock, memory, writeQueue, ahead, reloading, own>>
     /\ missed' = [missed EXCEPT ![p] = Nothing]
     /\ UNCHANGED <<file, counts, latest, lost, damaged, raced, saved>>

\* The file does not parse, or it is loaded, or merged into.
Read(p) ==
  LET s == op[p].scope
  IN /\ pc[p] = "read"
     /\ IF Current(p).state = "broken"
          THEN Fails(p) /\ lock' = Unlocked(p, s) /\ UNCHANGED own
        ELSE IF op[p].kind = "load"
          THEN /\ settings' = [settings EXCEPT ![p][s] = Current(p).content]
               /\ Loaded(p, s) /\ lock' = Unlocked(p, s)
               /\ loadError' = [loadError EXCEPT ![p][s] = FALSE]
               /\ own' = [own EXCEPT ![p][s] = {}]
               /\ UNCHANGED failed
          ELSE /\ op' = [op EXCEPT ![p].next = Merged(p, Current(p).content)]
               /\ Goto(p, IF lock[s] = p THEN "truncate" ELSE "relock")
               /\ UNCHANGED <<lock, memory, writeQueue, ahead, reloading, own>>
     /\ missed' = [missed EXCEPT ![p] = Nothing]
     /\ UNCHANGED <<file, counts, latest, lost, damaged, raced, saved>>

Truncate(p) ==
  LET s == op[p].scope
  IN /\ pc[p] = "truncate"
     /\ file' = [file EXCEPT ![s] = File("empty", Unset)]
     /\ raced' = [raced EXCEPT ![s] = @ \/ (~op[p].found /\ file[s].state # "absent")]
     /\ Goto(p, "write")
     /\ UNCHANGED <<lock, memory, op, writeQueue, ahead, reloading, counts, unseen,
                    damaged, own, saved>>

\* The fields of the write that bring a new value, and those that repeat
\* what an earlier write of the queue saved, over a later value.
New(p) == {f \in op[p].fields : op[p].content[f] \notin saved[op[p].scope]}
Repeated(p) ==
  {f \in op[p].fields \ New(p) : op[p].content[f] # latest[op[p].scope][f]}

\* The file has the text of the write, or that of an editor and of the write
\* over one another.
Written(p) ==
  LET s == op[p].scope
  IN /\ \/ file' = [file EXCEPT ![s] = File("good", op[p].next)]
        \/ /\ file[s].state # "empty"
           /\ file' = [file EXCEPT ![s] = File("broken", Unset)]
     /\ damaged' = [damaged EXCEPT ![s] = @ \/ file[s].state # "empty"]
     /\ latest' = [latest EXCEPT ![s] = [f \in Fields |->
                     IF f \in New(p) THEN op[p].content[f] ELSE @[f]]]
     /\ lost' = [lost EXCEPT ![s] =
                   (@ \union missed[p].fields \union Repeated(p)) \ New(p)]
     /\ missed' = [missed EXCEPT ![p] = Nothing]
     /\ saved' = [saved EXCEPT ![s] = @ \union {op[p].content[f] : f \in op[p].fields}]

WriteMarked(p) ==
  /\ pc[p] = "write"
  /\ Written(p)
  /\ lock' = Unlocked(p, op[p].scope)
  /\ Done(p)
  /\ UNCHANGED <<memory, counts, raced, own>>

\* The write succeeds: every mark of the scope goes, also the marks of
\* writes that are still queued.
Write(p) ==
  /\ pc[p] = "write"
  /\ Written(p)
  /\ lock' = Unlocked(p, op[p].scope)
  /\ modified' = [modified EXCEPT ![p][op[p].scope] = {}]
  /\ Done(p)
  /\ UNCHANGED <<settings, loadError, failed, counts, raced, own>>

\* The file cannot be opened for the write, or not be written to the end.
WriteFails(p) ==
  LET s == op[p].scope
  IN /\ pc[p] \in {"truncate", "write"} /\ Event
     /\ IF pc[p] = "write"
          THEN /\ damaged' = [damaged EXCEPT ![s] = TRUE]
               /\ \E state \in {"empty", "broken"} :
                    file' = [file EXCEPT ![s] = File(state, Unset)]
          ELSE UNCHANGED <<file, damaged>>
     /\ Fails(p) /\ lock' = Unlocked(p, s)
     /\ UNCHANGED <<changes, unseen, raced, own, saved>>

Withlock(p) ==
  Start(p) \/ Look(p) \/ Lock(p) \/ LockFails(p) \/ Read(p) \/ Truncate(p) \/ Write(p)
  \/ WriteFails(p)

-----------------------------------------------------------------------------
(* The surroundings *)

\* What an editor did to the file after a process has read it.
Misses(s, fields, broken) ==
  missed' = [p \in Processes |->
    IF op[p].scope = s /\ pc[p] \in {"relock", "truncate", "write"}
      THEN [fields |-> missed[p].fields \union fields,
            broken |-> missed[p].broken \/ broken]
      ELSE missed[p]]

\* An editor has the file open and saves it, in place and whatever the
\* processes are doing: with a field changed, or broken.
Edit(s) ==
  /\ changes < MaxChanges /\ changes' = changes + 1
  /\ file[s].state # "absent"
  /\ \/ \E f \in Fields :
          LET text == IF file[s].state = "good" THEN file[s].content ELSE latest[s]
          IN /\ file' = [file EXCEPT ![s] = File("good", [text EXCEPT ![f] = changes'])]
             /\ latest' = [latest EXCEPT ![s][f] = changes']
             /\ lost' = [lost EXCEPT ![s] = @ \ {f}]
             /\ Misses(s, {f}, FALSE)
     \/ /\ file' = [file EXCEPT ![s] = File("broken", Unset)]
        /\ Misses(s, {}, TRUE)
        /\ UNCHANGED <<latest, lost>>
  /\ UNCHANGED <<lock, memory, control, events, damaged, raced, own, saved>>

\* The process ends and another takes its place.  Its lock is stale.
Crash(p) ==
  LET s == op[p].scope
  IN /\ Event
     /\ IF pc[p] = "write"
          THEN /\ damaged' = [damaged EXCEPT ![s] = TRUE]
               /\ \E state \in {"empty", "broken"} :
                    file' = [file EXCEPT ![s] = File(state, Unset)]
          ELSE UNCHANGED <<file, damaged>>
     /\ lock' = [t \in Scopes |-> IF lock[t] = p THEN Nobody ELSE lock[t]]
     /\ settings' = [settings EXCEPT ![p] = [t \in Scopes |-> Unset]]
     /\ modified' = [modified EXCEPT ![p] = [t \in Scopes |-> {}]]
     /\ loadError' = [loadError EXCEPT ![p] = [t \in Scopes |-> FALSE]]
     /\ failed' = [failed EXCEPT ![p] = [t \in Scopes |-> FALSE]]
     /\ own' = [own EXCEPT ![p] = [t \in Scopes |-> {}]]
     /\ writeQueue' = [writeQueue EXCEPT ![p] = <<>>]
     /\ Goto(p, "start") /\ op' = [op EXCEPT ![p] = NoOp]
     /\ ahead' = [ahead EXCEPT ![p] = 0]
     /\ reloading' = [reloading EXCEPT ![p] = Scopes]
     /\ UNCHANGED <<changes, unseen, raced, saved>>

Idle(p) == pc[p] = "rest" /\ writeQueue[p] = <<>> /\ reloading[p] = {}

\* Nothing goes on and nobody changes anything.
Rest == (\A p \in Processes : Idle(p)) /\ UNCHANGED vars

Next ==
  \/ \E p \in Processes :
       \/ Withlock(p) \/ Reload(p) \/ Crash(p)
       \/ \E s \in Scopes, f \in Fields : Set(p, s, f)
  \/ (\E s \in Scopes : Edit(s)) \/ Rest

Spec == Init /\ [][Next]_vars

-----------------------------------------------------------------------------
(* Properties *)

TypeOK ==
  /\ \A s \in Scopes : file[s].state \in {"absent", "good", "empty", "broken"}
  /\ lock \in [Scopes -> Processes \union {Nobody}]
  /\ \A p \in Processes :
       /\ pc[p] \in {"start", "rest", "look", "lock", "read", "relock", "truncate",
                     "write"}
       /\ ahead[p] <= Len(writeQueue[p])
       /\ pc[p] \in {"truncate", "write"} => lock[op[p].scope] = p

\* A settings file holds, field by field, the last new value that a write or
\* an edit gave it: reading, merging and writing of several processes bring
\* no older value back (withLock), but for what the code cannot prevent.
\* Excepted are the fields an editor, which takes no lock, saved between the
\* read and the write of a process, and the fields a queued write repeats
\* after an earlier one of its process had saved them (persistScopedSettings
\* writes all the marks of the moment it was queued); the first write of a
\* file that did not exist; and a file whose write was broken off.
NoLostUpdate ==
  \A s \in Scopes :
    file[s].state = "good" /\ ~damaged[s] /\ ~raced[s] =>
      \A f \in Fields \ lost[s] : file[s].content[f] = latest[s][f]

\* A field is marked only until its value is in the file: no write that is
\* queued later repeats it, over what others have written in between
\* (clearModifiedScope, reload).
MarksAreUnsaved ==
  \A p \in Processes, s \in Scopes :
    \A f \in modified[p][s] : settings[p][s][f] \notin saved[s]

\* A file that does not parse stays as the user left it, until the user
\* changes it: neither a manager that could not load it nor one that had
\* loaded it before overwrites it.  A manager that had read the file before
\* the editor broke it, or had found none, does overwrite it.
BrokenIsKept ==
  [][\A s \in Scopes :
       file[s].state = "broken" /\ file'[s] # file[s] =>
         \/ changes' # changes
         \/ raced'[s]
         \/ \E p \in Processes : op[p].scope = s /\ missed[p].broken]_vars

\* What a setter changed has come into the file when the queue is empty, or
\* there is an error the user is told, whatever happened to the writes before
\* it and to those of the other scope.
SetIsSaved ==
  \A p \in Processes, s \in Scopes :
    Idle(p) /\ ~failed[p][s] =>
      \A f \in own[p][s] : settings[p][s][f] \in saved[s]
=============================================================================
