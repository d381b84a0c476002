------------------------ MODULE SettingsManagerProofs ------------------------
(***************************************************************************)
(* Proofs about SettingsManager, for any processes, fields and bounds: the *)
(* lock is held where a file is written, no update of an existing file is  *)
(* lost, a broken file is not overwritten, and what is set is saved.       *)
(*                                                                         *)
(* The invariant follows one write from the read to the end: who has found *)
(* the file holds the lock from the read on (Locking), so what it will     *)
(* write stays the last update of every field but its own and those an     *)
(* editor saves meanwhile (Pending); a file is empty only while it is      *)
(* written or after a write that was broken off (Files).  That a setting   *)
(* is saved or an error recorded is an invariant of its own (SInv), and so *)
(* is that values differ which different processes have still to write     *)
(* (MInv).                                                                 *)
(***************************************************************************)
EXTENDS SettingsManager, TLAPS

Contents == [Fields -> Nat]
Places ==
  {"start", "rest", "look", "lock", "read", "relock", "truncate", "write"}
Operations ==
  [kind : {"none", "load", "task"}, scope : Scopes, found : BOOLEAN,
   content : Contents, fields : SUBSET Fields, next : Contents]
Tasks == {o \in Operations : o.kind = "task"}

Types ==
  /\ file \in [Scopes -> [state : {"absent", "good", "empty", "broken"},
                          content : Contents]]
  /\ lock \in [Scopes -> Processes \union {Nobody}]
  /\ settings \in [Processes -> [Scopes -> Contents]]
  /\ modified \in [Processes -> [Scopes -> SUBSET Fields]]
  /\ writeQueue \in [Processes -> Seq(Tasks)]
  /\ pc \in [Processes -> Places]
  /\ op \in [Processes -> Operations]
  /\ ahead \in [Processes -> Nat]
  /\ reloading \in [Processes -> SUBSET Scopes]
  /\ changes \in Nat
  /\ latest \in [Scopes -> Contents]
  /\ lost \in [Scopes -> SUBSET Fields]
  /\ missed \in [Processes -> [fields : SUBSET Fields, broken : BOOLEAN]]
  /\ damaged \in [Scopes -> BOOLEAN]
  /\ raced \in [Scopes -> BOOLEAN]

\* A write that is under way is at the head of the queue.
Queues ==
  \A p \in Processes :
    /\ pc[p] \notin {"start", "rest"} => op[p].kind \in {"load", "task"}
    /\ pc[p] \in {"relock", "truncate", "write"} => op[p].kind = "task"
    /\ op[p].kind = "task" => writeQueue[p] # <<>>
    /\ ahead[p] <= Len(writeQueue[p])

Locking ==
  \A p \in Processes :
    /\ pc[p] \in {"truncate", "write"} => lock[op[p].scope] = p
    /\ pc[p] = "read" /\ op[p].found => lock[op[p].scope] = p
    /\ pc[p] = "lock" => op[p].found
    /\ pc[p] = "relock" => ~op[p].found
    /\ \A s \in Scopes :
         lock[s] = p => pc[p] \in {"read", "truncate", "write"} /\ op[p].scope = s

Files ==
  \A s \in Scopes :
    /\ file[s].state = "absent" => latest[s] = Unset
    /\ file[s].state = "empty" =>
         damaged[s] \/ \E p \in Processes : pc[p] = "write" /\ op[p].scope = s

Undisturbed(s) == ~damaged[s] /\ ~raced[s]

\* What the process will write is the latest value of every other field.
Agrees(p) ==
  LET s == op[p].scope
  IN \A f \in Fields :
       /\ f \in op[p].fields => op[p].next[f] = op[p].content[f]
       /\ f \notin op[p].fields \union missed[p].fields \union lost[s] =>
            op[p].next[f] = latest[s][f]

PendingAt(p) ==
  LET s == op[p].scope
  IN /\ pc[p] \in {"lock", "read", "truncate"} /\ op[p].found =>
          file[s].state # "absent"
     /\ pc[p] = "truncate" /\ op[p].found /\ ~missed[p].broken =>
          file[s].state # "broken"
     /\ pc[p] = "truncate" /\ op[p].found /\ Undisturbed(s) => Agrees(p)
     /\ pc[p] \in {"relock", "truncate"} /\ ~op[p].found =>
          op[p].next = Merged(p, Unset)
     /\ pc[p] = "write" => file[s].state # "absent"
     /\ pc[p] = "write" /\ ~missed[p].broken => file[s].state # "broken"
     /\ pc[p] = "write" /\ Undisturbed(s) => Agrees(p)

Pending == \A p \in Processes : PendingAt(p)

IInv == Types /\ Queues /\ Locking /\ Files /\ Pending /\ NoLostUpdate

-----------------------------------------------------------------------------
(* Typed values *)

LEMMA UnsetType == Unset \in Contents
BY DEF Unset, Contents

LEMMA NothingType == Nothing \in [fields : SUBSET Fields, broken : BOOLEAN]
BY DEF Nothing

LEMMA NoOpType == NoOp \in Operations /\ NoOp.kind = "none"
BY SettingsBounds, UnsetType DEF NoOp, Operations

LEMMA LoadType ==
  ASSUME NEW s \in Scopes
  PROVE  Load(s) \in Operations /\ Load(s).kind = "load"
BY NoOpType DEF Load, Operations

LEMMA TaskType ==
  ASSUME NEW s \in Scopes, NEW c \in Contents, NEW g \in SUBSET Fields
  PROVE  Task(s, c, g) \in Tasks
BY NoOpType DEF Task, Operations, Tasks

LEMMA MergedType ==
  ASSUME Types, NEW p \in Processes, NEW c \in Contents
  PROVE  Merged(p, c) \in Contents
BY DEF Merged, Contents, Types, Operations

LEMMA CurrentType ==
  ASSUME Types, NEW p \in Processes
  PROVE  /\ Current(p).content \in Contents
         /\ Current(p).state \in {"absent", "good", "empty", "broken"}
BY UnsetType DEF Current, File, Types, Operations

LEMMA UnlockedType ==
  ASSUME Types, NEW p \in Processes, NEW s \in Scopes
  PROVE  /\ Unlocked(p, s) \in [Scopes -> Processes \union {Nobody}]
         /\ \A t \in Scopes, q \in Processes :
              Unlocked(p, s)[t] = q => lock[t] = q /\ ~(t = s /\ q = p)
         /\ \A t \in Scopes, q \in Processes :
              q # p /\ lock[t] = q => Unlocked(p, s)[t] = q
BY SettingsBounds DEF Unlocked, Types

\* How an operation ends, well or not.
Ended(p) ==
  /\ \E place \in {"start", "rest"} : pc' = [pc EXCEPT ![p] = place]
  /\ op' = [op EXCEPT ![p] = NoOp]
  /\ writeQueue' \in [Processes -> Seq(Tasks)]
  /\ ahead' \in [Processes -> Nat]
  /\ reloading' \in [Processes -> SUBSET Scopes]
  /\ ahead'[p] <= Len(writeQueue'[p])
  /\ \A q \in Processes : q # p => ahead'[q] = ahead[q] /\ writeQueue'[q] = writeQueue[q]

LEMMA DoneEnds ==
  ASSUME Types, Queues, NEW p \in Processes, op[p].kind = "task", Done(p)
  PROVE  Ended(p)
<1>1. writeQueue[p] \in Seq(Tasks) /\ writeQueue[p] # <<>>
  BY DEF Types, Queues
<1>2. /\ Tail(writeQueue[p]) \in Seq(Tasks)
      /\ Len(Tail(writeQueue[p])) = Len(writeQueue[p]) - 1
      /\ Len(writeQueue[p]) \in Nat \ {0}
  BY <1>1
<1>3. ahead[p] \in Nat /\ ahead[p] <= Len(writeQueue[p])
  BY DEF Types, Queues
<1>4. writeQueue' = [writeQueue EXCEPT ![p] = Tail(writeQueue[p])]
  BY DEF Done
<1>5. ahead' = [ahead EXCEPT ![p] = IF ahead[p] = 0 THEN 0 ELSE ahead[p] - 1]
  BY DEF Done
<1>6. writeQueue' \in [Processes -> Seq(Tasks)]
  BY <1>2, <1>4 DEF Types
<1>7. ahead' \in [Processes -> Nat] /\ ahead'[p] <= Len(writeQueue'[p])
  BY <1>2, <1>3, <1>4, <1>5 DEF Types
<1> QED
  BY <1>4, <1>5, <1>6, <1>7 DEF Ended, Done, Goto, Types

LEMMA LoadEnds ==
  ASSUME Types, Queues, NEW p \in Processes, NEW s \in Scopes, Loaded(p, s)
  PROVE  /\ Ended(p)
         /\ modified' \in [Processes -> [Scopes -> SUBSET Fields]]
<1>1. reloading' \in [Processes -> SUBSET Scopes]
  BY DEF Loaded, Types
<1>2. modified' \in [Processes -> [Scopes -> SUBSET Fields]]
  BY DEF Loaded, Types
<1>3. ahead'[p] <= Len(writeQueue'[p])
  BY DEF Loaded, Queues
<1> QED
  BY <1>1, <1>2, <1>3 DEF Ended, Loaded, Goto, Types

LEMMA FailureEnds ==
  ASSUME Types, Queues, NEW p \in Processes, pc[p] \notin {"start", "rest"}, Fails(p)
  PROVE  /\ Ended(p) /\ UNCHANGED settings
         /\ modified' \in [Processes -> [Scopes -> SUBSET Fields]]
<1>1. op[p].scope \in Scopes
  BY DEF Types, Operations
<1>2. CASE op[p].kind = "load"
  BY <1>1, <1>2, LoadEnds DEF Fails
<1>3. CASE op[p].kind # "load"
  <2>1. op[p].kind = "task" /\ Done(p) /\ UNCHANGED <<modified, settings>>
    BY <1>3 DEF Fails, Queues
  <2> QED
    BY <2>1, DoneEnds DEF Types
<1> QED
  BY <1>2, <1>3

\* What an ended operation leaves of the invariants of the others.
LEMMA EndedQueues ==
  ASSUME Types, Queues, NEW p \in Processes, Ended(p)
  PROVE  Queues'
BY NoOpType DEF Types, Queues, Ended

LEMMA EndedLocking ==
  ASSUME Types, Locking, NEW p \in Processes, Ended(p),
         lock' = Unlocked(p, op[p].scope)
  PROVE  Locking'
<1>1. op[p].scope \in Scopes /\ \A q \in Processes : op[q].scope \in Scopes
  BY DEF Types, Operations
<1>2. /\ \A t \in Scopes, q \in Processes :
           lock'[t] = q => lock[t] = q /\ ~(t = op[p].scope /\ q = p)
      /\ \A t \in Scopes, q \in Processes : q # p /\ lock[t] = q => lock'[t] = q
  BY <1>1, UnlockedType
<1>3. /\ pc'[p] \in {"start", "rest"}
      /\ \A q \in Processes : q # p => pc'[q] = pc[q] /\ op'[q] = op[q]
  BY DEF Types, Ended
<1>4. \A s \in Scopes : lock'[s] # p
  BY <1>1, <1>2 DEF Locking
<1> QED
  BY <1>1, <1>2, <1>3, <1>4 DEF Locking

LEMMA OtherPending ==
  ASSUME Types, Pending, NEW q \in Processes, pc'[q] = pc[q], op'[q] = op[q],
         file'[op[q].scope] = file[op[q].scope],
         latest'[op[q].scope] = latest[op[q].scope],
         lost'[op[q].scope] = lost[op[q].scope], missed'[q] = missed[q],
         Undisturbed(op[q].scope)' => Undisturbed(op[q].scope)
  PROVE  PendingAt(q)'
<1>1. PendingAt(q)
  BY DEF Pending
<1>2. Agrees(q)' <=> Agrees(q)
  BY DEF Agrees
<1>3. Merged(q, Unset)' = Merged(q, Unset)
  BY DEF Merged, Unset
<1> QED
  BY <1>1, <1>2, <1>3 DEF PendingAt

\* A process that does not hold the lock has read nothing it could undo.
LEMMA UnlockedPending ==
  ASSUME Types, Pending, NEW q \in Processes, pc'[q] = pc[q], op'[q] = op[q],
         pc[q] \notin {"truncate", "write"}, ~(pc[q] = "read" /\ op[q].found),
         file'[op[q].scope].state # "absent"
  PROVE  PendingAt(q)'
<1>1. PendingAt(q) /\ Merged(q, Unset)' = Merged(q, Unset)
  BY DEF Pending, Merged, Unset
<1> QED
  BY <1>1 DEF PendingAt

LEMMA EndedPending ==
  ASSUME Types, Pending, NEW p \in Processes, Ended(p),
         UNCHANGED <<file, latest, lost, damaged, raced>>,
         \A q \in Processes : q # p => missed'[q] = missed[q]
  PROVE  Pending'
<1>1. /\ pc'[p] \in {"start", "rest"}
      /\ \A q \in Processes : q # p => pc'[q] = pc[q] /\ op'[q] = op[q]
  BY DEF Types, Ended
<1>2. PendingAt(p)'
  BY <1>1 DEF PendingAt
<1>3. \A q \in Processes : q # p => PendingAt(q)'
  BY <1>1, OtherPending DEF Undisturbed
<1> QED
  BY <1>2, <1>3 DEF Pending

-----------------------------------------------------------------------------
(* The steps *)

\* The files and the operations under way are not touched.
LEMMA Untouched ==
  ASSUME IInv, UNCHANGED <<file, lock, pc, op, latest, lost, missed, damaged, raced>>
  PROVE  Locking' /\ Files' /\ Pending' /\ NoLostUpdate'
<1>1. Pending'
  BY OtherPending DEF IInv, Pending, Undisturbed
<1> QED
  BY <1>1 DEF IInv, Locking, Files, NoLostUpdate

LEMMA SetStep ==
  ASSUME IInv, NEW p \in Processes, NEW s \in Scopes, NEW f \in Fields, Set(p, s, f)
  PROVE  IInv'
<1>1. settings[p][s] \in Contents /\ changes + 1 \in Nat
  BY DEF IInv, Types
<1>2. /\ settings' = [settings EXCEPT ![p] = [settings[p] EXCEPT ![s] =
                         [settings[p][s] EXCEPT ![f] = changes + 1]]]
      /\ settings' \in [Processes -> [Scopes -> Contents]]
  BY <1>1 DEF IInv, Types, Set, Contents
<1>3. modified' \in [Processes -> [Scopes -> SUBSET Fields]]
  BY DEF IInv, Types, Set
<1>4. /\ Task(s, settings'[p][s], modified'[p][s]) \in Tasks
      /\ writeQueue[p] \in Seq(Tasks)
  <2>1. settings'[p][s] \in Contents /\ modified'[p][s] \in SUBSET Fields
    <3>1. settings'[p][s] \in Contents
      BY <1>2
    <3> QED
      BY <1>3, <3>1
  <2> QED
    BY <2>1, TaskType DEF IInv, Types
<1>5. /\ writeQueue' \in [Processes -> Seq(Tasks)]
      /\ \A q \in Processes :
           /\ Len(writeQueue[q]) <= Len(writeQueue'[q])
           /\ writeQueue[q] # <<>> => writeQueue'[q] # <<>>
  <2>1. CASE loadError[p][s]
    BY <2>1 DEF IInv, Types, Set
  <2>2. CASE ~loadError[p][s]
    <3>1. /\ writeQueue' = [writeQueue EXCEPT ![p] =
                Append(writeQueue[p], Task(s, settings'[p][s], modified'[p][s]))]
      BY <2>2 DEF Set
    <3>2. /\ writeQueue'[p] \in Seq(Tasks)
          /\ Len(writeQueue'[p]) = Len(writeQueue[p]) + 1 /\ Len(writeQueue[p]) \in Nat
          /\ writeQueue'[p] # <<>>
      <4>1. writeQueue \in [Processes -> Seq(Tasks)]
        BY DEF IInv, Types
      <4>2. writeQueue'[p] = Append(writeQueue[p], Task(s, settings'[p][s], modified'[p][s]))
        BY <3>1, <4>1
      <4> QED
        BY <1>4, <4>2
    <3>3. \A q \in Processes : q # p => writeQueue'[q] = writeQueue[q]
      BY <3>1 DEF IInv, Types
    <3>4. \A q \in Processes : Len(writeQueue[q]) \in Nat
      BY DEF IInv, Types
    <3> QED
      BY <3>1, <3>2, <3>3, <3>4 DEF IInv, Types
  <2> QED
    BY <2>1, <2>2
<1>6. Types'
  BY <1>1, <1>2, <1>3, <1>5 DEF IInv, Types, Set, unseen
<1>7. Queues'
  BY <1>5 DEF IInv, Types, Queues, Set
<1> QED
  BY <1>6, <1>7, Untouched DEF IInv, Set, unseen

LEMMA ReloadStep ==
  ASSUME IInv, NEW p \in Processes, Reload(p)
  PROVE  IInv'
<1>1. Len(writeQueue[p]) \in Nat
  BY DEF IInv, Types
<1>2. Types'
  BY <1>1 DEF IInv, Types, Reload, memory, history, unseen
<1>3. Queues'
  BY <1>1 DEF IInv, Types, Queues, Reload
<1> QED
  BY <1>2, <1>3, Untouched DEF IInv, Reload, history, unseen

LEMMA StartStep ==
  ASSUME IInv, NEW p \in Processes, Start(p)
  PROVE  IInv'
<1>1. PICK o \in Operations :
        /\ op' = [op EXCEPT ![p] = o]
        /\ o.kind = "load" \/ (o.kind = "task" /\ writeQueue[p] # <<>>)
  <2>1. CASE writeQueue[p] # <<>> /\ op' = [op EXCEPT ![p] = Head(writeQueue[p])]
    <3>1. Head(writeQueue[p]) \in Tasks
      BY <2>1 DEF IInv, Types
    <3> QED
      BY <2>1, <3>1 DEF Tasks
  <2>2. CASE \E s \in reloading[p] : op' = [op EXCEPT ![p] = Load(s)]
    BY <2>2, LoadType DEF IInv, Types
  <2> QED
    BY <2>1, <2>2 DEF Start
<1>2. /\ pc[p] \in {"start", "rest"} /\ pc' = [pc EXCEPT ![p] = "look"]
      /\ UNCHANGED <<file, lock, settings, modified, writeQueue, ahead, reloading,
                     changes, latest, lost, missed, damaged, raced>>
  BY DEF Start, Goto, memory, counts, history, unseen
<1>3. Types'
  BY <1>1, <1>2 DEF IInv, Types, Places
<1>4. Queues'
  BY <1>1, <1>2 DEF IInv, Types, Queues
<1>5. Locking'
  BY <1>1, <1>2 DEF IInv, Types, Locking
<1>6. Files'
  BY <1>1, <1>2 DEF IInv, Types, Files
<1>7. Pending'
  <2>1. PendingAt(p)'
    BY <1>1, <1>2 DEF IInv, Types, PendingAt
  <2>2. \A q \in Processes : q # p => PendingAt(q)'
    <3>1. \A q \in Processes : q # p => pc'[q] = pc[q] /\ op'[q] = op[q]
      BY <1>1, <1>2 DEF IInv, Types
    <3> QED
      BY <1>1, <1>2, <3>1, OtherPending DEF IInv, Undisturbed
  <2> QED
    BY <2>1, <2>2 DEF Pending
<1>8. NoLostUpdate'
  BY <1>2 DEF IInv, NoLostUpdate
<1> QED
  BY <1>3, <1>4, <1>5, <1>6, <1>7, <1>8 DEF IInv

LEMMA LookStep ==
  ASSUME IInv, NEW p \in Processes, Look(p)
  PROVE  IInv'
<1>1. op[p] \in Operations /\ op[p].scope \in Scopes
  BY DEF IInv, Types, Operations
<1>2. PICK found \in BOOLEAN :
        /\ found = (file[op[p].scope].state # "absent")
        /\ op' = [op EXCEPT ![p] = [op[p] EXCEPT !.found = found]]
        /\ pc' = [pc EXCEPT ![p] = IF found THEN "lock" ELSE "read"]
  BY DEF Look, Goto
<1>3. /\ pc[p] = "look"
      /\ UNCHANGED <<file, lock, settings, modified, writeQueue, ahead, reloading,
                     changes, latest, lost, missed, damaged, raced>>
  BY DEF Look, memory, counts, history, unseen
<1>4. [op[p] EXCEPT !.found = found] \in Operations
  BY <1>1, <1>2 DEF Operations
<1>5. Types'
  BY <1>2, <1>3, <1>4 DEF IInv, Types, Places
<1>6. Queues'
  BY <1>1, <1>2, <1>3 DEF IInv, Types, Queues, Operations
<1>7. Locking'
  BY <1>1, <1>2, <1>3 DEF IInv, Types, Locking, Operations
<1>8. Files'
  BY <1>1, <1>2, <1>3 DEF IInv, Types, Files, Operations
<1>9. Pending'
  <2>1. PendingAt(p)'
    BY <1>1, <1>2, <1>3 DEF IInv, Types, PendingAt, Operations
  <2>2. \A q \in Processes : q # p => PendingAt(q)'
    <3>1. \A q \in Processes : q # p => pc'[q] = pc[q] /\ op'[q] = op[q]
      BY <1>1, <1>2, <1>3 DEF IInv, Types
    <3> QED
      BY <1>1, <1>2, <1>3, <3>1, OtherPending DEF IInv, Undisturbed
  <2> QED
    BY <2>1, <2>2 DEF Pending
<1>10. NoLostUpdate'
  BY <1>3 DEF IInv, NoLostUpdate
<1> QED
  BY <1>5, <1>6, <1>7, <1>8, <1>9, <1>10 DEF IInv

LEMMA LockStep ==
  ASSUME IInv, NEW p \in Processes, Lock(p)
  PROVE  IInv'
<1>1. op[p].scope \in Scopes
  BY DEF IInv, Types, Operations
<1>2. /\ pc[p] \in {"lock", "relock"} /\ lock[op[p].scope] = Nobody
      /\ lock' = [lock EXCEPT ![op[p].scope] = p]
      /\ pc' = [pc EXCEPT ![p] = IF pc[p] = "lock" THEN "read" ELSE "truncate"]
      /\ UNCHANGED <<file, settings, modified, op, writeQueue, ahead, reloading,
                     changes, latest, lost, missed, damaged, raced>>
  BY DEF Lock, Goto, memory, counts, history, unseen
<1>3. Types'
  BY <1>1, <1>2 DEF IInv, Types, Places
<1>4. Queues'
  BY <1>2 DEF IInv, Types, Queues
<1>5. Locking'
  BY <1>1, <1>2, SettingsBounds DEF IInv, Types, Locking
<1>6. Files'
  BY <1>2 DEF IInv, Types, Files
<1>7. Pending'
  <2>1. PendingAt(p)'
    <3>1. PendingAt(p) /\ (pc[p] = "relock" => ~op[p].found)
      BY DEF IInv, Pending, Locking
    <3>2. Merged(p, Unset)' = Merged(p, Unset)
      BY <1>2 DEF Merged, Unset
    <3>3. pc'[p] = IF pc[p] = "lock" THEN "read" ELSE "truncate"
      BY <1>2 DEF IInv, Types
    <3> QED
      BY <1>2, <3>1, <3>2, <3>3 DEF PendingAt
  <2>2. \A q \in Processes : q # p => PendingAt(q)'
    <3>1. \A q \in Processes : q # p => pc'[q] = pc[q] /\ op'[q] = op[q]
      BY <1>1, <1>2 DEF IInv, Types
    <3> QED
      BY <1>1, <1>2, <3>1, OtherPending DEF IInv, Undisturbed
  <2> QED
    BY <2>1, <2>2 DEF Pending
<1>8. NoLostUpdate'
  BY <1>2 DEF IInv, NoLostUpdate
<1> QED
  BY <1>3, <1>4, <1>5, <1>6, <1>7, <1>8 DEF IInv

\* The operation ends without a write.
LEMMA EndStep ==
  ASSUME IInv, NEW p \in Processes, Ended(p), pc[p] # "write",
         lock' = Unlocked(p, op[p].scope),
         settings' \in [Processes -> [Scopes -> Contents]],
         modified' \in [Processes -> [Scopes -> SUBSET Fields]],
         UNCHANGED <<file, changes, latest, lost, damaged, raced>>,
         missed' = missed \/ missed' = [missed EXCEPT ![p] = Nothing]
  PROVE  IInv'
<1>1. op[p].scope \in Scopes
  BY DEF IInv, Types, Operations
<1>2. Types'
  <2>1. lock' \in [Scopes -> Processes \union {Nobody}]
    BY <1>1, UnlockedType DEF IInv
  <2>2. pc' \in [Processes -> Places] /\ op' \in [Processes -> Operations]
    BY NoOpType DEF IInv, Types, Ended, Places
  <2>3. missed' \in [Processes -> [fields : SUBSET Fields, broken : BOOLEAN]]
    <3>1. missed \in [Processes -> [fields : SUBSET Fields, broken : BOOLEAN]]
      BY DEF IInv, Types
    <3> QED
      BY <3>1, NothingType
  <2> QED
    BY <2>1, <2>2, <2>3 DEF IInv, Types, Ended
<1>3. Files'
  BY DEF IInv, Types, Files, Ended
<1>5. \A q \in Processes : q # p => missed'[q] = missed[q]
  BY DEF IInv, Types
<1>4. NoLostUpdate'
  BY DEF IInv, NoLostUpdate
<1> QED
  BY <1>2, <1>3, <1>4, <1>5, EndedQueues, EndedLocking, EndedPending DEF IInv

LEMMA LockFailsStep ==
  ASSUME IInv, NEW p \in Processes, LockFails(p)
  PROVE  IInv'
<1>1. op[p].scope \in Scopes
  BY DEF IInv, Types, Operations
<1>2. pc[p] \in {"lock", "relock"} /\ Fails(p)
  BY DEF LockFails
<1>3. /\ Ended(p) /\ UNCHANGED settings
      /\ modified' \in [Processes -> [Scopes -> SUBSET Fields]]
  BY <1>2, FailureEnds DEF IInv
<1>4. lock[op[p].scope] # p
  BY <1>1, <1>2 DEF IInv, Locking
<1>5. lock' = Unlocked(p, op[p].scope)
  BY <1>4 DEF LockFails, Unlocked
<1>6. UNCHANGED <<file, changes, latest, lost, missed, damaged, raced>>
  BY DEF LockFails, history, unseen
<1> QED
  BY <1>2, <1>3, <1>5, <1>6, EndStep DEF IInv, Types

LEMMA ReadStep ==
  ASSUME IInv, NEW p \in Processes, Read(p)
  PROVE  IInv'
<1> DEFINE s == op[p].scope
<1>1. s \in Scopes /\ op[p] \in Operations /\ pc[p] = "read"
  BY DEF IInv, Types, Operations, Read
<1>2. /\ UNCHANGED <<file, changes, latest, lost, damaged, raced>>
      /\ missed' = [missed EXCEPT ![p] = Nothing]
  BY DEF Read, counts
<1>3. CASE Current(p).state = "broken"
  <2>1. Fails(p) /\ lock' = Unlocked(p, s)
    BY <1>3 DEF Read
  <2>2. /\ Ended(p) /\ UNCHANGED settings
        /\ modified' \in [Processes -> [Scopes -> SUBSET Fields]]
    BY <1>1, <2>1, FailureEnds DEF IInv
  <2> QED
    BY <1>1, <1>2, <2>1, <2>2, EndStep DEF IInv, Types
<1>4. CASE Current(p).state # "broken" /\ op[p].kind = "load"
  <2>1. /\ settings' = [settings EXCEPT ![p] =
                          [settings[p] EXCEPT ![s] = Current(p).content]]
        /\ Loaded(p, s) /\ lock' = Unlocked(p, s)
    BY <1>4 DEF Read
  <2>2. /\ Ended(p)
        /\ modified' \in [Processes -> [Scopes -> SUBSET Fields]]
    BY <1>1, <2>1, LoadEnds DEF IInv
  <2>3. Current(p).content \in Contents
    BY CurrentType DEF IInv
  <2>4. settings' \in [Processes -> [Scopes -> Contents]]
    BY <1>1, <2>1, <2>3 DEF IInv, Types
  <2> QED
    BY <1>1, <1>2, <2>1, <2>2, <2>4, EndStep
<1>5. CASE Current(p).state # "broken" /\ op[p].kind # "load"
  <2> DEFINE o == [op[p] EXCEPT !.next = Merged(p, Current(p).content)]
  <2>1. /\ op' = [op EXCEPT ![p] = o]
        /\ pc' = [pc EXCEPT ![p] = IF lock[s] = p THEN "truncate" ELSE "relock"]
        /\ UNCHANGED <<lock, settings, modified, writeQueue, ahead, reloading>>
    BY <1>5 DEF Read, Goto, memory
  <2>2. Merged(p, Current(p).content) \in Contents
    BY CurrentType, MergedType DEF IInv
  <2>3. /\ o \in Operations /\ o.next = Merged(p, Current(p).content)
        /\ o.scope = s /\ o.found = op[p].found /\ o.kind = op[p].kind
        /\ o.fields = op[p].fields /\ o.content = op[p].content
    BY <1>1, <2>2 DEF Operations
  <2> HIDE DEF o
  <2>4. /\ op'[p] = o /\ pc'[p] = IF lock[s] = p THEN "truncate" ELSE "relock"
        /\ missed'[p] = Nothing
        /\ \A q \in Processes : q # p => /\ pc'[q] = pc[q] /\ op'[q] = op[q]
                                        /\ missed'[q] = missed[q]
    BY <1>2, <2>1 DEF IInv, Types
  <2>5. Types'
    <3>1. missed' \in [Processes -> [fields : SUBSET Fields, broken : BOOLEAN]]
      BY <1>2 DEF IInv, Types, Nothing
    <3> QED
      BY <1>2, <2>1, <2>3, <3>1 DEF IInv, Types, Places
  <2>6. Queues'
    <3>1. op[p].kind = "task"
      BY <1>1, <1>5 DEF IInv, Queues
    <3> QED
      BY <2>1, <2>3, <2>4, <3>1 DEF IInv, Queues
  <2>7. Locking'
    BY <1>1, <2>1, <2>3, <2>4 DEF IInv, Locking
  <2>8. Files'
    BY <1>1, <1>2, <2>4 DEF IInv, Files
  <2>9. PendingAt(p)'
    <3>1. o.next = [f \in Fields |-> IF f \in o.fields THEN o.content[f]
                                    ELSE Current(p).content[f]]
      BY <2>3 DEF Merged
    <3>2. CASE ~op[p].found
      <4>1. Current(p).content = Unset
        BY <3>2 DEF Current, File
      <4> QED
        BY <2>3, <2>4, <3>1, <3>2, <4>1 DEF PendingAt, Merged, Unset
    <3>3. CASE op[p].found
      <4>1. lock[s] = p /\ file[s].state # "absent"
        BY <1>1, <3>3 DEF IInv, Locking, Pending, PendingAt
      <4>2. file[s].state \in {"good", "empty"}
        <5>1. file[s].state \in {"absent", "good", "empty", "broken"}
          BY <1>1 DEF IInv, Types
        <5> QED
          BY <1>5, <3>3, <4>1, <5>1 DEF Current
      <4>3. Undisturbed(s) =>
              \A f \in Fields \ lost[s] : Current(p).content[f] = latest[s][f]
        <5>1. CASE file[s].state = "good"
          BY <1>1, <3>3, <5>1 DEF IInv, NoLostUpdate, Undisturbed, Current
        <5>2. CASE file[s].state = "empty"
          BY <1>1, <4>1, <5>2 DEF IInv, Files, Locking, Undisturbed
        <5> QED
          BY <4>2, <5>1, <5>2
      <4>4. /\ pc'[p] = "truncate" /\ op'[p].found /\ op'[p].scope = s
            /\ file' = file
        BY <1>2, <2>3, <2>4, <3>3, <4>1
      <4>5. Undisturbed(op[p].scope)' => Undisturbed(s)
        BY <1>2, <4>4 DEF Undisturbed
      <4>6. Undisturbed(op[p].scope)' => Agrees(p)'
        BY <1>2, <2>3, <2>4, <3>1, <4>3, <4>4, <4>5 DEF Agrees
      <4>7. file'[s].state \notin {"absent", "broken"}
        BY <4>2, <4>4
      <4> HIDE DEF s
      <4> QED
        BY <4>4, <4>6, <4>7 DEF PendingAt
    <3> QED
      BY <3>2, <3>3
  <2>10. \A q \in Processes : q # p => PendingAt(q)'
    BY <1>2, <2>4, OtherPending DEF IInv, Undisturbed
  <2>11. NoLostUpdate'
    BY <1>2 DEF IInv, NoLostUpdate
  <2> QED
    BY <2>5, <2>6, <2>7, <2>8, <2>9, <2>10, <2>11 DEF IInv, Pending
<1> QED
  BY <1>3, <1>4, <1>5

\* A file that another process wants to write is not locked by it.
LEMMA TruncateStep ==
  ASSUME IInv, NEW p \in Processes, Truncate(p)
  PROVE  IInv'
<1> DEFINE s == op[p].scope
<1>1. s \in Scopes /\ pc[p] = "truncate" /\ lock[s] = p
  BY DEF IInv, Types, Operations, Truncate, Locking
<1>2. /\ file' = [file EXCEPT ![s] = File("empty", Unset)]
      /\ raced' = [raced EXCEPT ![s] = @ \/ (~op[p].found /\ file[s].state # "absent")]
      /\ pc' = [pc EXCEPT ![p] = "write"]
      /\ UNCHANGED <<lock, settings, modified, op, writeQueue, ahead, reloading,
                     changes, latest, lost, missed, damaged>>
  BY DEF Truncate, Goto, memory, counts, unseen
<1>3. Types'
  <2>1. File("empty", Unset) \in [state : {"absent", "good", "empty", "broken"},
                                  content : Contents]
    BY UnsetType DEF File
  <2> QED
    BY <1>1, <1>2, <2>1 DEF IInv, Types, Places
<1>4. Queues'
  BY <1>1, <1>2 DEF IInv, Types, Queues
<1>5. Locking'
  BY <1>1, <1>2 DEF IInv, Types, Locking
<1>6. /\ pc'[p] = "write" /\ op'[p] = op[p] /\ file'[s].state = "empty"
      /\ \A t \in Scopes : t # s => file'[t] = file[t] /\ raced'[t] = raced[t]
      /\ \A q \in Processes : q # p => pc'[q] = pc[q] /\ op'[q] = op[q]
  BY <1>1, <1>2 DEF IInv, Types, File
<1>7. Undisturbed(s)' => Undisturbed(s) /\ (op[p].found \/ file[s].state = "absent")
  BY <1>1, <1>2 DEF IInv, Types, Undisturbed
<1>8. Files'
  BY <1>1, <1>2, <1>6 DEF IInv, Types, Files
<1>9. PendingAt(p)'
  <2>1. PendingAt(p) /\ (file[s].state = "absent" => latest[s] = Unset)
    BY <1>1 DEF IInv, Pending, Files
  <2>2. Undisturbed(s)' => Agrees(p)
    <3>1. CASE op[p].found
      BY <1>1, <1>7, <2>1, <3>1 DEF PendingAt
    <3>2. CASE ~op[p].found
      <4>1. op[p].next = Merged(p, Unset)
        BY <1>1, <2>1, <3>2 DEF PendingAt
      <4> QED
        BY <1>7, <2>1, <3>2, <4>1 DEF Merged, Agrees
    <3> QED
      BY <3>1, <3>2
  <2>3. Agrees(p)' <=> Agrees(p)
    BY <1>2 DEF Agrees
  <2> QED
    BY <1>6, <2>2, <2>3 DEF PendingAt
<1>10. ASSUME NEW q \in Processes, q # p
       PROVE  PendingAt(q)'
  <2>1. CASE op[q].scope # s
    <3>1. op[q].scope \in Scopes
      BY DEF IInv, Types, Operations
    <3> QED
      BY <1>2, <1>6, <1>10, <2>1, <3>1, OtherPending DEF IInv, Undisturbed
  <2>2. CASE op[q].scope = s
    <3>1. pc[q] \notin {"truncate", "write"} /\ ~(pc[q] = "read" /\ op[q].found)
      BY <1>1, <1>10, <2>2 DEF IInv, Locking
    <3> QED
      BY <1>6, <1>10, <2>2, <3>1, UnlockedPending DEF IInv
  <2> QED
    BY <2>1, <2>2
<1>11. NoLostUpdate'
  BY <1>1, <1>2, <1>6 DEF IInv, NoLostUpdate
<1> QED
  BY <1>3, <1>4, <1>5, <1>8, <1>9, <1>10, <1>11 DEF IInv, Pending

LEMMA WriteStep ==
  ASSUME IInv, NEW p \in Processes, Write(p)
  PROVE  IInv'
<1> DEFINE s == op[p].scope
           value == [f \in Fields |->
                       IF f \in New(p) THEN op[p].content[f] ELSE latest[s][f]]
           gone == (lost[s] \union missed[p].fields \union Repeated(p)) \ New(p)
<1>1. /\ s \in Scopes /\ op[p] \in Operations /\ pc[p] = "write"
      /\ lock[s] = p /\ op[p].kind = "task"
  BY DEF IInv, Types, Operations, Write, Locking, Queues
<1>2. /\ \/ file' = [file EXCEPT ![s] = File("good", op[p].next)]
         \/ file' = [file EXCEPT ![s] = File("broken", Unset)]
      /\ damaged' = [damaged EXCEPT ![s] = damaged[s] \/ file[s].state # "empty"]
      /\ latest' = [latest EXCEPT ![s] = value]
      /\ lost' = [lost EXCEPT ![s] = gone]
      /\ missed' = [missed EXCEPT ![p] = Nothing]
  BY DEF Write, Written
<1>3. /\ lock' = Unlocked(p, s)
      /\ modified' = [modified EXCEPT ![p] = [modified[p] EXCEPT ![s] = {}]]
      /\ Done(p)
      /\ UNCHANGED <<settings, changes, raced>>
  BY DEF Write, counts
<1>4. Ended(p)
  BY <1>1, <1>3, DoneEnds DEF IInv
<1>5. /\ op[p].next \in Contents /\ latest[s] \in Contents /\ value \in Contents
      /\ lost[s] \in SUBSET Fields /\ gone \in SUBSET Fields
  BY <1>1 DEF IInv, Types, Operations, Contents, Repeated
<1> HIDE DEF value, gone
<1>6. Types'
  <2>1. lock' \in [Scopes -> Processes \union {Nobody}]
    BY <1>1, <1>3, UnlockedType DEF IInv
  <2>2. pc' \in [Processes -> Places] /\ op' \in [Processes -> Operations]
    BY <1>4, NoOpType DEF IInv, Types, Ended, Places
  <2>3. file' \in [Scopes -> [state : {"absent", "good", "empty", "broken"},
                              content : Contents]]
    <3>1. /\ File("good", op[p].next) \in [state : {"absent", "good", "empty", "broken"},
                                           content : Contents]
          /\ File("broken", Unset) \in [state : {"absent", "good", "empty", "broken"},
                                        content : Contents]
      BY <1>5, UnsetType DEF File
    <3> QED
      BY <1>1, <1>2, <3>1 DEF IInv, Types
  <2>4. latest' \in [Scopes -> Contents] /\ lost' \in [Scopes -> SUBSET Fields]
    BY <1>1, <1>2, <1>5 DEF IInv, Types
  <2>5. modified' \in [Processes -> [Scopes -> SUBSET Fields]]
    BY <1>1, <1>3 DEF IInv, Types
  <2>6. missed' \in [Processes -> [fields : SUBSET Fields, broken : BOOLEAN]]
    BY <1>2 DEF IInv, Types, Nothing
  <2>7. damaged' \in [Scopes -> BOOLEAN]
    BY <1>1, <1>2 DEF IInv, Types
  <2> QED
    BY <1>3, <1>4, <2>1, <2>2, <2>3, <2>4, <2>5, <2>6, <2>7 DEF IInv, Types, Ended
<1>7. Queues' /\ Locking'
  BY <1>3, <1>4, EndedQueues, EndedLocking DEF IInv
<1>8. /\ pc'[p] \in {"start", "rest"}
      /\ file'[s] = File("good", op[p].next) \/ file'[s] = File("broken", Unset)
      /\ latest'[s] = value /\ lost'[s] = gone
      /\ damaged'[s] = (damaged[s] \/ file[s].state # "empty")
      /\ \A t \in Scopes : t # s => /\ file'[t] = file[t] /\ latest'[t] = latest[t]
                                    /\ lost'[t] = lost[t] /\ damaged'[t] = damaged[t]
      /\ \A q \in Processes : q # p => /\ pc'[q] = pc[q] /\ op'[q] = op[q]
                                      /\ missed'[q] = missed[q]
  BY <1>1, <1>2, <1>4 DEF IInv, Types, Ended
<1>9. file'[s].state \in {"good", "broken"}
  BY <1>8 DEF File
<1>10. Files'
  BY <1>8, <1>9 DEF IInv, Files
<1>11. PendingAt(p)'
  BY <1>8 DEF PendingAt
<1>12. ASSUME NEW q \in Processes, q # p
       PROVE  PendingAt(q)'
  <2>1. CASE op[q].scope # s
    <3>1. op[q].scope \in Scopes
      BY DEF IInv, Types, Operations
    <3> QED
      BY <1>3, <1>8, <1>12, <2>1, <3>1, OtherPending DEF IInv, Undisturbed
  <2>2. CASE op[q].scope = s
    <3>1. pc[q] \notin {"truncate", "write"} /\ ~(pc[q] = "read" /\ op[q].found)
      BY <1>1, <1>12, <2>2 DEF IInv, Locking
    <3> QED
      BY <1>8, <1>9, <1>12, <2>2, <3>1, UnlockedPending DEF IInv
  <2> QED
    BY <2>1, <2>2
<1>13. NoLostUpdate'
  <2>1. ASSUME Undisturbed(s), NEW f \in Fields, f \notin gone
        PROVE  op[p].next[f] = value[f]
    <3>1. Agrees(p)
      BY <1>1, <2>1 DEF IInv, Pending, PendingAt
    <3>2. CASE f \in New(p)
      BY <3>1, <3>2 DEF Agrees, New, value
    <3>3. CASE f \notin New(p)
      <4>1. f \notin lost[s] \union missed[p].fields \union Repeated(p)
        BY <2>1, <3>3 DEF gone
      <4>2. f \in op[p].fields => op[p].content[f] = latest[s][f]
        BY <3>3, <4>1 DEF Repeated
      <4>3. op[p].next[f] = latest[s][f]
        BY <3>1, <4>1, <4>2 DEF Agrees
      <4> QED
        BY <3>3, <4>3 DEF value
    <3> QED
      BY <3>2, <3>3
  <2>2. file'[s].state = "good" => file'[s].content = op[p].next
    BY <1>8 DEF File
  <2>3. ASSUME NEW t \in Scopes, file'[t].state = "good", ~damaged'[t], ~raced'[t],
               NEW f \in Fields \ lost'[t]
        PROVE  file'[t].content[f] = latest'[t][f]
    <3>1. CASE t = s
      <4>1. Undisturbed(s) /\ f \notin gone
        BY <1>3, <1>8, <2>3, <3>1 DEF Undisturbed
      <4> QED
        BY <1>8, <2>1, <2>2, <2>3, <3>1, <4>1
    <3>2. CASE t # s
      BY <1>3, <1>8, <2>3, <3>2 DEF IInv, NoLostUpdate
    <3> QED
      BY <3>1, <3>2
  <2> QED
    BY <2>3 DEF NoLostUpdate
<1> QED
  BY <1>6, <1>7, <1>10, <1>11, <1>12, <1>13 DEF IInv, Pending

\* What was half written is damaged from then on.
LEMMA WriteFailsStep ==
  ASSUME IInv, NEW p \in Processes, WriteFails(p)
  PROVE  IInv'
<1> DEFINE s == op[p].scope
<1>1. /\ s \in Scopes /\ pc[p] \in {"truncate", "write"} /\ lock[s] = p
  BY DEF IInv, Types, Operations, WriteFails, Locking
<1>2. /\ Fails(p) /\ lock' = Unlocked(p, s)
      /\ UNCHANGED <<changes, latest, lost, missed, raced>>
  BY DEF WriteFails, unseen
<1>3. /\ Ended(p) /\ UNCHANGED settings
      /\ modified' \in [Processes -> [Scopes -> SUBSET Fields]]
  BY <1>1, <1>2, FailureEnds DEF IInv
<1>4. CASE pc[p] # "write"
  <2>1. UNCHANGED <<file, damaged>>
    BY <1>4 DEF WriteFails
  <2> QED
    BY <1>2, <1>3, <1>4, <2>1, EndStep DEF IInv, Types
<1>5. CASE pc[p] = "write"
  <2>1. PICK state \in {"empty", "broken"} :
          file' = [file EXCEPT ![s] = File(state, Unset)]
    BY <1>5 DEF WriteFails
  <2>2. damaged' = [damaged EXCEPT ![s] = TRUE]
    BY <1>5 DEF WriteFails
  <2>3. File(state, Unset) \in [state : {"absent", "good", "empty", "broken"},
                               content : Contents]
    BY UnsetType DEF File
  <2>4. File(state, Unset).state = state
    BY DEF File
  <2>5. Types'
    <3>1. lock' \in [Scopes -> Processes \union {Nobody}]
      BY <1>1, <1>2, UnlockedType DEF IInv
    <3>2. pc' \in [Processes -> Places] /\ op' \in [Processes -> Operations]
      BY <1>3, NoOpType DEF IInv, Types, Ended, Places
    <3>3. /\ file' \in [Scopes -> [state : {"absent", "good", "empty", "broken"},
                                  content : Contents]]
          /\ damaged' \in [Scopes -> BOOLEAN]
      BY <1>1, <2>1, <2>2, <2>3 DEF IInv, Types
    <3> QED
      BY <1>2, <1>3, <3>1, <3>2, <3>3 DEF IInv, Types, Ended
  <2>6. Queues' /\ Locking'
    BY <1>2, <1>3, EndedQueues, EndedLocking DEF IInv
  <2>7. /\ pc'[p] \in {"start", "rest"} /\ damaged'[s]
        /\ file'[s].state \in {"empty", "broken"}
        /\ \A t \in Scopes : t # s => file'[t] = file[t] /\ damaged'[t] = damaged[t]
        /\ \A q \in Processes : q # p => pc'[q] = pc[q] /\ op'[q] = op[q]
    BY <1>1, <1>3, <2>1, <2>2, <2>4 DEF IInv, Types, Ended
  <2>8. Files'
    BY <1>2, <2>7 DEF IInv, Files
  <2>9. PendingAt(p)'
    BY <2>7 DEF PendingAt
  <2>10. ASSUME NEW q \in Processes, q # p
         PROVE  PendingAt(q)'
    <3>1. CASE op[q].scope # s
      <4>1. op[q].scope \in Scopes
        BY DEF IInv, Types, Operations
      <4> QED
        BY <1>2, <2>7, <2>10, <3>1, <4>1, OtherPending DEF IInv, Undisturbed
    <3>2. CASE op[q].scope = s
      <4>1. pc[q] \notin {"truncate", "write"} /\ ~(pc[q] = "read" /\ op[q].found)
        BY <1>1, <2>10, <3>2 DEF IInv, Locking
      <4> QED
        BY <2>7, <2>10, <3>2, <4>1, UnlockedPending DEF IInv
    <3> QED
      BY <3>1, <3>2
  <2>11. NoLostUpdate'
    BY <1>2, <2>7 DEF IInv, NoLostUpdate
  <2> QED
    BY <2>5, <2>6, <2>8, <2>9, <2>10, <2>11 DEF IInv, Pending
<1> QED
  BY <1>4, <1>5

\* What an edit does to the file, and to what is known of it.
EditFacts(s) ==
  /\ file' \in [Scopes -> [state : {"absent", "good", "empty", "broken"},
                          content : Contents]]
  /\ latest' \in [Scopes -> Contents] /\ lost' \in [Scopes -> SUBSET Fields]
  /\ missed' \in [Processes -> [fields : SUBSET Fields, broken : BOOLEAN]]
  /\ \A t \in Scopes : t # s => /\ file'[t] = file[t] /\ latest'[t] = latest[t]
                                /\ lost'[t] = lost[t]
  /\ file'[s].state \in {"good", "broken"}
  /\ file'[s].state = "good" /\ Undisturbed(s) =>
       \A f \in Fields \ lost'[s] : file'[s].content[f] = latest'[s][f]
  /\ \A q \in Processes : op[q].scope # s => missed'[q] = missed[q]
  /\ \A q \in Processes :
       op[q].scope = s /\ pc[q] \in {"truncate", "write"} =>
         /\ file'[s].state = "broken" => missed'[q].broken
         /\ Agrees(q) => Agrees(q)'

LEMMA FieldEdited ==
  ASSUME IInv, NEW s \in Scopes, NEW f \in Fields, NEW text \in Contents,
         text = IF file[s].state = "good" THEN file[s].content ELSE latest[s],
         changes' \in Nat, UNCHANGED <<pc, op>>,
         file' = [file EXCEPT ![s] = File("good", [text EXCEPT ![f] = changes'])],
         latest' = [latest EXCEPT ![s] = [latest[s] EXCEPT ![f] = changes']],
         lost' = [lost EXCEPT ![s] = lost[s] \ {f}], Misses(s, {f}, FALSE)
  PROVE  EditFacts(s)
<1> DEFINE new == [text EXCEPT ![f] = changes']
<1>1. /\ new \in Contents /\ new[f] = changes'
      /\ \A g \in Fields : g # f => new[g] = text[g]
  BY DEF Contents
<1>2. /\ latest[s] \in Contents /\ [latest[s] EXCEPT ![f] = changes'] \in Contents
  BY DEF IInv, Types, Contents
<1>3. /\ latest'[s][f] = changes'
      /\ \A g \in Fields : g # f => latest'[s][g] = latest[s][g]
  BY <1>2 DEF IInv, Types, Contents
<1> HIDE DEF new
<1>4. /\ file'[s].state = "good" /\ file'[s].content = new
      /\ file' \in [Scopes -> [state : {"absent", "good", "empty", "broken"},
                              content : Contents]]
      /\ latest' \in [Scopes -> Contents] /\ lost' \in [Scopes -> SUBSET Fields]
      /\ \A t \in Scopes : t # s => /\ file'[t] = file[t] /\ latest'[t] = latest[t]
                                    /\ lost'[t] = lost[t]
      /\ lost'[s] = lost[s] \ {f}
  <2>1. file' = [file EXCEPT ![s] = File("good", new)]
    BY DEF new
  <2>2. latest' \in [Scopes -> Contents]
    BY <1>2 DEF IInv, Types
  <2>3. File("good", new) \in [state : {"absent", "good", "empty", "broken"},
                               content : Contents]
        /\ File("good", new).state = "good" /\ File("good", new).content = new
    BY <1>1 DEF File
  <2>4. lost' \in [Scopes -> SUBSET Fields] /\ lost'[s] = lost[s] \ {f}
    BY DEF IInv, Types
  <2>5. \A t \in Scopes : t # s => /\ file'[t] = file[t] /\ latest'[t] = latest[t]
                                   /\ lost'[t] = lost[t]
    BY DEF IInv, Types
  <2>6. /\ file'[s] = File("good", new)
        /\ file' \in [Scopes -> [state : {"absent", "good", "empty", "broken"},
                                 content : Contents]]
    BY <2>1, <2>3 DEF IInv, Types
  <2> QED
    BY <2>2, <2>3, <2>4, <2>5, <2>6
<1>5. ASSUME Undisturbed(s), NEW g \in Fields \ lost'[s]
      PROVE  new[g] = latest'[s][g]
  <2>1. CASE g = f
    BY <1>1, <1>3, <2>1
  <2>2. CASE g # f
    <3>1. g \notin lost[s]
      BY <1>4, <1>5, <2>2
    <3>2. text[g] = latest[s][g]
      BY <1>5, <3>1 DEF IInv, NoLostUpdate, Undisturbed
    <3> QED
      BY <1>1, <1>3, <2>2, <3>2
  <2> QED
    BY <2>1, <2>2
<1>6. /\ missed' \in [Processes -> [fields : SUBSET Fields, broken : BOOLEAN]]
      /\ \A q \in Processes : op[q].scope # s => missed'[q] = missed[q]
      /\ \A q \in Processes : op[q].scope = s /\ pc[q] \in {"truncate", "write"} =>
           missed'[q].fields = missed[q].fields \union {f}
  BY DEF Misses, IInv, Types
<1>7. ASSUME NEW q \in Processes, op[q].scope = s, pc[q] \in {"truncate", "write"},
             Agrees(q)
      PROVE  Agrees(q)'
  <2>1. missed'[q].fields = missed[q].fields \union {f}
    BY <1>6, <1>7
  <2>2. ASSUME NEW g \in Fields,
               g \notin op[q].fields \union missed'[q].fields \union lost'[s]
        PROVE  op[q].next[g] = latest'[s][g]
    <3>1. g # f /\ g \notin op[q].fields \union missed[q].fields \union lost[s]
      BY <1>4, <2>1, <2>2
    <3> QED
      BY <1>3, <1>7, <3>1 DEF Agrees
  <2> QED
    BY <1>7, <2>2 DEF Agrees
<1> QED
  BY <1>4, <1>5, <1>6, <1>7 DEF EditFacts

LEMMA FileBroken ==
  ASSUME IInv, NEW s \in Scopes, UNCHANGED <<pc, op, latest, lost>>,
         file' = [file EXCEPT ![s] = File("broken", Unset)], Misses(s, {}, TRUE)
  PROVE  EditFacts(s)
<1>1. /\ file' \in [Scopes -> [state : {"absent", "good", "empty", "broken"},
                              content : Contents]]
      /\ file'[s].state = "broken" /\ \A t \in Scopes : t # s => file'[t] = file[t]
  BY UnsetType DEF IInv, Types, File
<1>2. /\ missed' \in [Processes -> [fields : SUBSET Fields, broken : BOOLEAN]]
      /\ \A q \in Processes : op[q].scope # s => missed'[q] = missed[q]
      /\ \A q \in Processes : missed'[q].fields = missed[q].fields
      /\ \A q \in Processes : op[q].scope = s /\ pc[q] \in {"truncate", "write"} =>
           missed'[q].broken
  BY DEF Misses, IInv, Types
<1>3. \A q \in Processes : Agrees(q) => Agrees(q)'
  BY <1>2 DEF Agrees
<1> QED
  BY <1>1, <1>2, <1>3 DEF EditFacts, IInv, Types

\* An edit is known to be missed by who has read the file.
LEMMA EditStep ==
  ASSUME IInv, NEW s \in Scopes, Edit(s)
  PROVE  IInv'
<1>1. /\ file[s].state # "absent" /\ changes' = changes + 1 /\ changes' \in Nat
      /\ UNCHANGED <<lock, settings, modified, pc, op, writeQueue, ahead, reloading,
                     damaged, raced>>
  BY DEF Edit, memory, control, IInv, Types
<1>2. EditFacts(s)
  <2> DEFINE text == IF file[s].state = "good" THEN file[s].content ELSE latest[s]
  <2>1. text \in Contents
    BY DEF IInv, Types
  <2>2. CASE \E f \in Fields :
               /\ file' = [file EXCEPT ![s] = File("good", [text EXCEPT ![f] = changes'])]
               /\ latest' = [latest EXCEPT ![s][f] = changes']
               /\ lost' = [lost EXCEPT ![s] = @ \ {f}]
               /\ Misses(s, {f}, FALSE)
    BY <1>1, <2>1, <2>2, FieldEdited
  <2>3. CASE /\ file' = [file EXCEPT ![s] = File("broken", Unset)]
             /\ Misses(s, {}, TRUE) /\ UNCHANGED <<latest, lost>>
    BY <1>1, <2>3, FileBroken
  <2> QED
    BY <2>2, <2>3 DEF Edit
<1>3. Types'
  BY <1>1, <1>2 DEF IInv, Types, EditFacts
<1>4. Queues' /\ Locking'
  BY <1>1 DEF IInv, Queues, Locking
<1>5. Files'
  BY <1>1, <1>2 DEF IInv, Files, EditFacts
<1>6. ASSUME NEW q \in Processes
      PROVE  PendingAt(q)'
  <2>1. CASE op[q].scope # s
    <3>1. op[q].scope \in Scopes
      BY DEF IInv, Types, Operations
    <3>2. /\ file'[op[q].scope] = file[op[q].scope] /\ missed'[q] = missed[q]
          /\ latest'[op[q].scope] = latest[op[q].scope]
          /\ lost'[op[q].scope] = lost[op[q].scope]
      BY <1>2, <2>1, <3>1 DEF EditFacts
    <3> QED
      BY <1>1, <3>2, OtherPending DEF IInv, Undisturbed
  <2>2. CASE op[q].scope = s /\ pc[q] \notin {"truncate", "write"}
    <3>1. PendingAt(q) /\ Merged(q, Unset)' = Merged(q, Unset)
      BY <1>1 DEF IInv, Pending, Merged, Unset
    <3> QED
      BY <1>1, <1>2, <2>2, <3>1 DEF PendingAt, EditFacts
  <2>3. CASE op[q].scope = s /\ pc[q] \in {"truncate", "write"}
    <3>1. PendingAt(q) /\ Merged(q, Unset)' = Merged(q, Unset)
      BY <1>1 DEF IInv, Pending, Merged, Unset
    <3>2. /\ file'[s].state = "broken" => missed'[q].broken
          /\ Agrees(q) => Agrees(q)'
          /\ file'[s].state \in {"good", "broken"}
      BY <1>2, <2>3 DEF EditFacts
    <3>3. Undisturbed(s)' <=> Undisturbed(s)
      BY <1>1 DEF Undisturbed
    <3> QED
      BY <1>1, <2>3, <3>1, <3>2, <3>3 DEF PendingAt
  <2> QED
    BY <2>1, <2>2, <2>3
<1>7. NoLostUpdate'
  BY <1>1, <1>2 DEF IInv, NoLostUpdate, EditFacts, Undisturbed
<1> QED
  BY <1>3, <1>4, <1>5, <1>6, <1>7 DEF IInv, Pending

\* What a process had half written is damaged from then on.
LEMMA CrashStep ==
  ASSUME IInv, NEW p \in Processes, Crash(p)
  PROVE  IInv'
<1> DEFINE s == op[p].scope
<1>1. s \in Scopes
  BY DEF IInv, Types, Operations
<1>2. /\ lock' = [t \in Scopes |-> IF lock[t] = p THEN Nobody ELSE lock[t]]
      /\ settings' = [settings EXCEPT ![p] = [t \in Scopes |-> Unset]]
      /\ modified' = [modified EXCEPT ![p] = [t \in Scopes |-> {}]]
      /\ writeQueue' = [writeQueue EXCEPT ![p] = <<>>]
      /\ pc' = [pc EXCEPT ![p] = "start"] /\ op' = [op EXCEPT ![p] = NoOp]
      /\ ahead' = [ahead EXCEPT ![p] = 0]
      /\ reloading' = [reloading EXCEPT ![p] = Scopes]
      /\ UNCHANGED <<changes, latest, lost, missed, raced>>
  BY DEF Crash, Goto, unseen
<1>3. /\ file' \in [Scopes -> [state : {"absent", "good", "empty", "broken"},
                              content : Contents]]
      /\ damaged' \in [Scopes -> BOOLEAN]
      /\ \A t \in Scopes : damaged[t] => damaged'[t]
      /\ \A t \in Scopes : t # s \/ pc[p] # "write" => file'[t] = file[t]
                                                     /\ damaged'[t] = damaged[t]
      /\ pc[p] = "write" => damaged'[s] /\ file'[s].state \in {"empty", "broken"}
  <2>1. CASE pc[p] = "write"
    <3>1. PICK state \in {"empty", "broken"} :
            file' = [file EXCEPT ![s] = File(state, Unset)]
      BY <2>1 DEF Crash
    <3>2. damaged' = [damaged EXCEPT ![s] = TRUE]
      BY <2>1 DEF Crash
    <3>3. File(state, Unset) \in [state : {"absent", "good", "empty", "broken"},
                                 content : Contents]
      BY UnsetType DEF File
    <3>4. File(state, Unset).state = state
      BY DEF File
    <3> HIDE DEF s
    <3> QED
      BY <1>1, <2>1, <3>1, <3>2, <3>3, <3>4 DEF IInv, Types
  <2>2. CASE pc[p] # "write"
    BY <2>2 DEF IInv, Types, Crash
  <2> QED
    BY <2>1, <2>2
<1>4. Types'
  <2>1. Unset \in Contents /\ <<>> \in Seq(Tasks)
    BY UnsetType
  <2> QED
    BY <1>2, <1>3, <2>1, NoOpType DEF IInv, Types, Places
<1>5. /\ pc'[p] = "start" /\ op'[p] = NoOp /\ writeQueue'[p] = <<>> /\ ahead'[p] = 0
      /\ \A q \in Processes : q # p => /\ pc'[q] = pc[q] /\ op'[q] = op[q]
                                      /\ writeQueue'[q] = writeQueue[q]
                                      /\ ahead'[q] = ahead[q]
  BY <1>2 DEF IInv, Types
<1>6. Queues'
  BY <1>5, NoOpType DEF IInv, Queues
<1>7. Locking'
  <2>1. /\ \A t \in Scopes : lock'[t] # p
        /\ \A t \in Scopes, q \in Processes : q # p => (lock'[t] = q <=> lock[t] = q)
    BY <1>2, SettingsBounds
  <2>2. \A q \in Processes : op[q].scope \in Scopes
    BY DEF IInv, Types, Operations
  <2> QED
    BY <1>5, <2>1, <2>2 DEF IInv, Locking
<1>8. Files'
  BY <1>2, <1>3, <1>5 DEF IInv, Types, Files
<1>9. PendingAt(p)'
  BY <1>5 DEF PendingAt
<1>10. ASSUME NEW q \in Processes, q # p
       PROVE  PendingAt(q)'
  <2>1. op[q].scope \in Scopes
    BY DEF IInv, Types, Operations
  <2>2. CASE op[q].scope # s \/ pc[p] # "write"
    BY <1>2, <1>3, <1>5, <1>10, <2>1, <2>2, OtherPending DEF IInv, Undisturbed
  <2>3. CASE op[q].scope = s /\ pc[p] = "write"
    <3>1. pc[q] \notin {"truncate", "write"} /\ ~(pc[q] = "read" /\ op[q].found)
      BY <1>10, <2>3 DEF IInv, Locking
    <3> QED
      BY <1>3, <1>5, <1>10, <2>3, <3>1, UnlockedPending DEF IInv
  <2> QED
    BY <2>2, <2>3
<1>11. NoLostUpdate'
  BY <1>2, <1>3 DEF IInv, Types, NoLostUpdate
<1> QED
  BY <1>4, <1>6, <1>7, <1>8, <1>9, <1>10, <1>11 DEF IInv, Pending

-----------------------------------------------------------------------------
(* The invariant is inductive *)

LEMMA InitStep == Init => IInv
<1> SUFFICES ASSUME Init PROVE IInv
  OBVIOUS
<1>1. \A s \in Scopes : file[s] = File(InitialFiles[s], Unset) /\ latest[s] = Unset
  BY DEF Init
<1>2. \A s \in Scopes : file[s].state \in {"absent", "good"} /\ file[s].content = Unset
  <2>1. ASSUME NEW s \in Scopes
        PROVE  InitialFiles[s] \in {"absent", "good"}
    BY SettingsBounds
  <2> SUFFICES ASSUME NEW s \in Scopes
               PROVE  file[s].state \in {"absent", "good"} /\ file[s].content = Unset
    OBVIOUS
  <2>2. file[s] = [state |-> InitialFiles[s], content |-> Unset]
    BY <1>1 DEF File
  <2> QED
    BY <2>1, <2>2
<1>3. Types
  <2>1. file \in [Scopes -> [state : {"absent", "good", "empty", "broken"},
                             content : Contents]]
    BY SettingsBounds, UnsetType DEF Init, File
  <2>2. settings \in [Processes -> [Scopes -> Contents]]
        /\ modified \in [Processes -> [Scopes -> SUBSET Fields]]
    BY UnsetType DEF Init, NoMemory
  <2>3. writeQueue \in [Processes -> Seq(Tasks)]
    BY DEF Init
  <2>4. missed \in [Processes -> [fields : SUBSET Fields, broken : BOOLEAN]]
    BY DEF Init, Nothing
  <2> QED
    BY <2>1, <2>2, <2>3, <2>4, NoOpType, UnsetType DEF Init, Types, Places
<1>4. Queues
  <2>1. Len(<<>>) = 0
    OBVIOUS
  <2>2. \A p \in Processes : /\ pc[p] = "start" /\ op[p] = NoOp
                            /\ writeQueue[p] = <<>> /\ ahead[p] = 0
    BY DEF Init
  <2>3. ASSUME NEW p \in Processes
        PROVE  ahead[p] <= Len(writeQueue[p])
    BY <2>1, <2>2
  <2> QED
    BY <2>2, <2>3, NoOpType DEF Queues
<1>5. Locking
  BY SettingsBounds DEF Init, Locking
<1>6. Files
  BY <1>1, <1>2 DEF Files
<1>7. Pending
  BY DEF Init, Pending, PendingAt
<1>8. NoLostUpdate
  BY <1>1, <1>2 DEF NoLostUpdate
<1> QED
  BY <1>3, <1>4, <1>5, <1>6, <1>7, <1>8 DEF IInv

LEMMA StutterStep ==
  ASSUME IInv, UNCHANGED vars
  PROVE  IInv'
<1>1. UNCHANGED <<file, lock, settings, modified, writeQueue, pc, op, ahead, reloading,
                  changes, latest, lost, missed, damaged, raced>>
  BY DEF vars, memory, control, counts, history, unseen
<1>2. Types' /\ Queues'
  BY <1>1 DEF IInv, Types, Queues
<1> QED
  BY <1>1, <1>2, Untouched DEF IInv

LEMMA NextStep ==
  ASSUME IInv, [Next]_vars
  PROVE  IInv'
<1>1. ASSUME NEW p \in Processes, Withlock(p)
      PROVE  IInv'
  BY <1>1, StartStep, LookStep, LockStep, LockFailsStep, ReadStep, TruncateStep,
     WriteStep, WriteFailsStep DEF Withlock
<1>2. ASSUME NEW p \in Processes, Reload(p)
      PROVE  IInv'
  BY <1>2, ReloadStep
<1>3. ASSUME NEW p \in Processes, Crash(p)
      PROVE  IInv'
  BY <1>3, CrashStep
<1>4. ASSUME NEW p \in Processes, NEW s \in Scopes, NEW f \in Fields, Set(p, s, f)
      PROVE  IInv'
  BY <1>4, SetStep
<1>5. ASSUME NEW s \in Scopes, Edit(s)
      PROVE  IInv'
  BY <1>5, EditStep
<1>6. CASE UNCHANGED vars
  BY <1>6, StutterStep
<1> QED
  BY <1>1, <1>2, <1>3, <1>4, <1>5, <1>6 DEF Next, Rest

LEMMA Inductive == Spec => []IInv
<1>1. Init => IInv
  BY InitStep
<1>2. IInv /\ [Next]_vars => IInv'
  BY NextStep
<1> QED
  BY <1>1, <1>2, PTL DEF Spec

-----------------------------------------------------------------------------
(* A setting is saved, or an error is recorded                             *)
(*                                                                         *)
(* Each field a process has set and not loaded since is accounted for: its *)
(* value came into the file, waits in the queue, or the scope has an       *)
(* error.  What a write puts into the file is the head of the queue.       *)

HistoryTypes ==
  /\ loadError \in [Processes -> [Scopes -> BOOLEAN]]
  /\ failed \in [Processes -> [Scopes -> BOOLEAN]]
  /\ own \in [Processes -> [Scopes -> SUBSET Fields]]
  /\ saved \in [Scopes -> SUBSET Nat]

Waits(p, s, f) ==
  \E i \in 1..Len(writeQueue[p]) :
    /\ writeQueue[p][i].scope = s /\ f \in writeQueue[p][i].fields
    /\ writeQueue[p][i].content[f] = settings[p][s][f]

Accounted(p, s) ==
  /\ loadError[p][s] => failed[p][s]
  /\ \A f \in own[p][s] :
       failed[p][s] \/ settings[p][s][f] \in saved[s] \/ Waits(p, s, f)

Running(p) ==
  op[p].kind = "task" =>
    /\ pc[p] \notin {"start", "rest"} /\ writeQueue[p] # <<>>
    /\ op[p].scope = Head(writeQueue[p]).scope
    /\ op[p].fields = Head(writeQueue[p]).fields
    /\ op[p].content = Head(writeQueue[p]).content

Account(p) == Running(p) /\ \A s \in Scopes : Accounted(p, s)

SInv == IInv /\ HistoryTypes /\ \A p \in Processes : Account(p)

\* What a step leaves as it was for a process, though more may be saved.
Left(p) ==
  /\ settings'[p] = settings[p] /\ loadError'[p] = loadError[p]
  /\ failed'[p] = failed[p] /\ own'[p] = own[p]
  /\ \A s \in Scopes : saved[s] \subseteq saved'[s]

LEMMA LeftAccounted ==
  ASSUME NEW p \in Processes, Left(p), writeQueue'[p] = writeQueue[p],
         \A s \in Scopes : Accounted(p, s)
  PROVE  \A s \in Scopes : Accounted(p, s)'
BY DEF Left, Accounted, Waits

LEMMA LeftAlone ==
  ASSUME NEW p \in Processes, Left(p), Account(p),
         writeQueue'[p] = writeQueue[p], op'[p] = op[p], pc'[p] = pc[p]
  PROVE  Account(p)'
<1>1. Running(p)'
  BY DEF Account, Running
<1> QED
  BY <1>1, LeftAccounted DEF Account

\* What waits behind the head still waits when the head is gone.
LEMMA TailWaits ==
  ASSUME Types, NEW p \in Processes, NEW s \in Scopes, NEW f \in Fields,
         Waits(p, s, f), writeQueue[p] # <<>>,
         writeQueue'[p] = Tail(writeQueue[p]), settings'[p] = settings[p]
  PROVE  \/ Waits(p, s, f)'
         \/ /\ Head(writeQueue[p]).scope = s /\ f \in Head(writeQueue[p]).fields
            /\ Head(writeQueue[p]).content[f] = settings[p][s][f]
<1>1. writeQueue[p] \in Seq(Tasks)
  BY DEF Types
<1>2. /\ Len(Tail(writeQueue[p])) = Len(writeQueue[p]) - 1
      /\ Len(writeQueue[p]) \in Nat \ {0}
      /\ Head(writeQueue[p]) = writeQueue[p][1]
      /\ \A j \in 1..Len(Tail(writeQueue[p])) :
           Tail(writeQueue[p])[j] = writeQueue[p][j + 1]
  BY <1>1
<1>3. PICK i \in 1..Len(writeQueue[p]) :
        /\ writeQueue[p][i].scope = s /\ f \in writeQueue[p][i].fields
        /\ writeQueue[p][i].content[f] = settings[p][s][f]
  BY DEF Waits
<1>4. CASE i = 1
  BY <1>2, <1>3, <1>4
<1>5. CASE i # 1
  <2>1. i - 1 \in 1..Len(Tail(writeQueue[p])) /\ (i - 1) + 1 = i
    BY <1>2, <1>5
  <2>2. Tail(writeQueue[p])[i - 1] = writeQueue[p][i]
    BY <1>2, <2>1
  <2> QED
    BY <1>3, <2>1, <2>2 DEF Waits
<1> QED
  BY <1>4, <1>5

\* A failed operation leaves an error for its scope.
LEMMA FailsAccount ==
  ASSUME IInv, HistoryTypes, NEW p \in Processes, Account(p),
         pc[p] \notin {"start", "rest"}, Fails(p), UNCHANGED <<own, saved>>
  PROVE  /\ Account(p)' /\ HistoryTypes'
         /\ \A q \in Processes \ {p} :
              /\ Left(q) /\ writeQueue'[q] = writeQueue[q]
              /\ op'[q] = op[q] /\ pc'[q] = pc[q]
<1> DEFINE s == op[p].scope
<1>1. Types /\ s \in Scopes /\ op[p].kind \in {"load", "task"}
  BY DEF IInv, Types, Operations, Queues
<1>2. /\ failed' = [failed EXCEPT ![p][s] = TRUE]
      /\ settings' = settings
  BY DEF Fails
<1>3. /\ op' = [op EXCEPT ![p] = NoOp]
      /\ \E place \in {"start", "rest"} : pc' = [pc EXCEPT ![p] = place]
  BY DEF Fails, Loaded, Done, Goto
<1>4. Running(p)'
  BY <1>1, <1>3, NoOpType DEF Running, Types
<1>5. loadError' = loadError \/ loadError' = [loadError EXCEPT ![p][s] = TRUE]
  BY DEF Fails
<1>6. HistoryTypes'
  <2>1. failed' \in [Processes -> [Scopes -> BOOLEAN]]
    BY <1>1, <1>2 DEF HistoryTypes
  <2>2. loadError' \in [Processes -> [Scopes -> BOOLEAN]]
    <3>1. CASE loadError' = loadError
      BY <3>1 DEF HistoryTypes
    <3>2. CASE loadError' = [loadError EXCEPT ![p][s] = TRUE]
      BY <1>1, <3>2 DEF HistoryTypes
    <3> QED
      BY <1>5, <3>1, <3>2
  <2> QED
    BY <2>1, <2>2 DEF HistoryTypes
<1>7. \A q \in Processes \ {p} :
        /\ Left(q) /\ op'[q] = op[q] /\ pc'[q] = pc[q]
  BY <1>1, <1>2, <1>3, <1>5 DEF Left, HistoryTypes, Types
<1>8. writeQueue' = writeQueue \/ writeQueue' = [writeQueue EXCEPT ![p] = Tail(@)]
  BY DEF Fails, Loaded, Done
<1>9. op[p].kind = "load" => writeQueue' = writeQueue
  BY DEF Fails, Loaded
<1>10. ASSUME NEW t \in Scopes
       PROVE  Accounted(p, t)'
  <2>1. CASE t = s
    BY <1>1, <1>2, <2>1 DEF Accounted, HistoryTypes
  <2>2. CASE t # s
    <3>1. /\ failed'[p][t] = failed[p][t] /\ loadError'[p][t] = loadError[p][t]
          /\ own'[p][t] = own[p][t] /\ saved' = saved
      BY <1>1, <1>2, <1>5, <2>2 DEF HistoryTypes
    <3>2. ASSUME NEW f \in Fields, Waits(p, t, f)
          PROVE  Waits(p, t, f)'
      <4>1. CASE writeQueue' = writeQueue
        BY <1>2, <3>2, <4>1 DEF Waits
      <4>2. CASE writeQueue' # writeQueue
        <5>1. op[p].kind = "task" /\ writeQueue'[p] = Tail(writeQueue[p])
          BY <1>1, <1>8, <1>9, <4>2 DEF Types
        <5>2. writeQueue[p] # <<>> /\ Head(writeQueue[p]).scope # t
          BY <2>2, <5>1 DEF Account, Running
        <5> QED
          BY <1>1, <1>2, <3>2, <5>1, <5>2, TailWaits
      <4> QED
        BY <4>1, <4>2
    <3>3. own[p][t] \subseteq Fields
      BY DEF HistoryTypes
    <3> QED
      BY <1>2, <3>1, <3>2, <3>3 DEF Accounted, Account
  <2> QED
    BY <2>1, <2>2
<1>11. \A q \in Processes \ {p} : writeQueue'[q] = writeQueue[q]
  BY <1>1, <1>8 DEF Types
<1> QED
  BY <1>4, <1>6, <1>7, <1>10, <1>11 DEF Account

LEMMA SetAccount ==
  ASSUME IInv, HistoryTypes, NEW p \in Processes, NEW s \in Scopes, NEW f \in Fields,
         Account(p), Set(p, s, f)
  PROVE  Account(p)' /\ HistoryTypes'
<1> DEFINE task == Task(s, settings'[p][s], modified'[p][s])
           queue == writeQueue[p]
<1>1. Types /\ queue \in Seq(Tasks)
  BY DEF IInv, Types
<1>2. /\ changes' = changes + 1 /\ changes' \in Nat
      /\ settings' = [settings EXCEPT ![p][s][f] = changes']
      /\ settings' \in [Processes -> [Scopes -> Contents]]
      /\ modified' = [modified EXCEPT ![p][s] = @ \union {f}]
      /\ modified' \in [Processes -> [Scopes -> SUBSET Fields]]
      /\ own' = [own EXCEPT ![p][s] = @ \union {f}]
      /\ UNCHANGED <<loadError, failed, saved, op, pc>> /\ pc[p] = "rest"
  BY <1>1 DEF Set, Types, Contents
<1>3. HistoryTypes'
  BY <1>2 DEF HistoryTypes
<1>4. Running(p)'
  BY <1>2 DEF Account, Running
<1>5. task \in Tasks
  BY <1>2, TaskType
<1>6. /\ task.scope = s /\ f \in task.fields /\ task.content = settings'[p][s]
  BY <1>1, <1>2, NoOpType DEF Task, Operations, Types
<1>7. /\ Append(queue, task) \in Seq(Tasks)
      /\ Len(Append(queue, task)) = Len(queue) + 1 /\ Len(queue) \in Nat
      /\ Append(queue, task)[Len(queue) + 1] = task
      /\ \A i \in 1..Len(queue) : Append(queue, task)[i] = queue[i]
  BY <1>1, <1>5
<1>8. writeQueue'[p] = IF loadError[p][s] THEN queue ELSE Append(queue, task)
  BY <1>1 DEF Set, Types
<1>9. ASSUME NEW t \in Scopes, NEW g \in Fields, ~(t = s /\ g = f), Waits(p, t, g)
      PROVE  Waits(p, t, g)'
  <2>1. settings'[p][t][g] = settings[p][t][g]
    BY <1>1, <1>2, <1>9 DEF Types, Contents
  <2>2. PICK i \in 1..Len(queue) :
          queue[i].scope = t /\ g \in queue[i].fields
          /\ queue[i].content[g] = settings[p][t][g]
    BY <1>9 DEF Waits
  <2>3. i \in 1..Len(writeQueue'[p]) /\ writeQueue'[p][i] = queue[i]
    BY <1>7, <1>8, <2>2
  <2> QED
    BY <2>1, <2>2, <2>3 DEF Waits
<1>10. ASSUME ~loadError[p][s]
       PROVE  Waits(p, s, f)'
  <2>1. Len(queue) + 1 \in 1..Len(writeQueue'[p]) /\ writeQueue'[p][Len(queue) + 1] = task
    BY <1>7, <1>8, <1>10
  <2> QED
    BY <1>6, <2>1 DEF Waits
<1>11. ASSUME NEW t \in Scopes
       PROVE  Accounted(p, t)'
  <2>1. Accounted(p, t) /\ (loadError[p][t] => failed[p][t])
    BY DEF Account, Accounted
  <2>2. ASSUME NEW g \in own'[p][t]
        PROVE  failed[p][t] \/ settings'[p][t][g] \in saved[t] \/ Waits(p, t, g)'
    <3>1. g \in Fields
      BY <1>3 DEF HistoryTypes
    <3>2. CASE t = s /\ g = f
      BY <1>10, <2>1, <3>2
    <3>3. CASE ~(t = s /\ g = f)
      <4>1. g \in own[p][t] /\ settings'[p][t][g] = settings[p][t][g]
        BY <1>1, <1>2, <2>2, <3>1, <3>3 DEF HistoryTypes, Types, Contents
      <4> QED
        BY <1>9, <2>1, <3>1, <3>3, <4>1 DEF Accounted
    <3> QED
      BY <3>2, <3>3
  <2> QED
    BY <1>2, <2>1, <2>2 DEF Accounted
<1> QED
  BY <1>3, <1>4, <1>11 DEF Account

\* What is written is the head of the queue; what waits behind it is left.
LEMMA WriteAccount ==
  ASSUME IInv, HistoryTypes, NEW p \in Processes, Account(p), Write(p)
  PROVE  Account(p)' /\ HistoryTypes' /\ \A s \in Scopes : saved[s] \subseteq saved'[s]
<1> DEFINE s == op[p].scope
<1>1. /\ Types /\ s \in Scopes /\ op[p].kind = "task" /\ op[p] \in Operations
      /\ pc[p] = "write"
  BY DEF IInv, Types, Operations, Queues, Write
<1>2. /\ saved' = [saved EXCEPT ![s] = @ \union {op[p].content[f] : f \in op[p].fields}]
      /\ op' = [op EXCEPT ![p] = NoOp]
      /\ writeQueue' = [writeQueue EXCEPT ![p] = Tail(@)]
      /\ UNCHANGED <<settings, loadError, failed, own>>
  BY DEF Write, Written, Done
<1>3. {op[p].content[f] : f \in op[p].fields} \subseteq Nat
  BY <1>1 DEF Operations, Contents
<1>4. /\ HistoryTypes' /\ \A t \in Scopes : saved[t] \subseteq saved'[t]
      /\ \A f \in op[p].fields : op[p].content[f] \in saved'[s]
  BY <1>1, <1>2, <1>3 DEF HistoryTypes
<1>5. Running(p)'
  BY <1>1, <1>2, NoOpType DEF Running, Types
<1>6. /\ writeQueue[p] # <<>> /\ writeQueue'[p] = Tail(writeQueue[p])
      /\ Head(writeQueue[p]).scope = s /\ Head(writeQueue[p]).fields = op[p].fields
      /\ Head(writeQueue[p]).content = op[p].content
  BY <1>1, <1>2 DEF Account, Running, Types
<1>7. ASSUME NEW t \in Scopes, NEW f \in Fields, Waits(p, t, f)
      PROVE  Waits(p, t, f)' \/ settings[p][t][f] \in saved'[t]
  <2>1. \/ Waits(p, t, f)'
        \/ t = s /\ f \in op[p].fields /\ op[p].content[f] = settings[p][t][f]
    BY <1>1, <1>2, <1>6, <1>7, TailWaits
  <2> QED
    BY <1>4, <2>1
<1>8. ASSUME NEW t \in Scopes
      PROVE  Accounted(p, t)'
  <2>1. own'[p][t] = own[p][t] /\ own[p][t] \subseteq Fields
    BY <1>2 DEF HistoryTypes
  <2>2. \A f \in own[p][t] :
          failed[p][t] \/ settings[p][t][f] \in saved'[t] \/ Waits(p, t, f)'
    BY <1>4, <1>7, <2>1 DEF Account, Accounted
  <2> QED
    BY <1>2, <2>1, <2>2 DEF Account, Accounted
<1> QED
  BY <1>4, <1>5, <1>8 DEF Account

\* A load takes over what the file holds, so nothing is the process's own.
LEMMA ReadAccount ==
  ASSUME IInv, HistoryTypes, NEW p \in Processes, Account(p), Read(p),
         Current(p).state # "broken"
  PROVE  /\ Account(p)' /\ HistoryTypes'
         /\ \A q \in Processes \ {p} :
              /\ Left(q) /\ writeQueue'[q] = writeQueue[q]
              /\ op'[q] = op[q] /\ pc'[q] = pc[q]
<1> DEFINE s == op[p].scope
<1>1. /\ Types /\ s \in Scopes /\ op[p].kind \in {"load", "task"}
      /\ pc[p] = "read"
  BY DEF IInv, Types, Operations, Queues, Read
<1>2. UNCHANGED <<writeQueue, failed, saved>>
  BY DEF Read, Loaded, memory
<1>3. CASE op[p].kind = "load"
  <2>1. /\ settings' = [settings EXCEPT ![p][s] = Current(p).content]
        /\ loadError' = [loadError EXCEPT ![p][s] = FALSE]
        /\ own' = [own EXCEPT ![p][s] = {}]
        /\ op' = [op EXCEPT ![p] = NoOp]
        /\ \E place \in {"start", "rest"} : pc' = [pc EXCEPT ![p] = place]
    BY <1>3 DEF Read, Loaded, Goto
  <2>2. HistoryTypes'
    BY <1>1, <1>2, <2>1 DEF HistoryTypes
  <2>3. \A q \in Processes \ {p} : Left(q) /\ op'[q] = op[q] /\ pc'[q] = pc[q]
    BY <1>1, <1>2, <2>1 DEF Left, Types, HistoryTypes
  <2>4. Running(p)'
    BY <1>1, <2>1, NoOpType DEF Running, Types
  <2>5. ASSUME NEW t \in Scopes
        PROVE  Accounted(p, t)'
    <3>1. CASE t = s
      BY <1>1, <2>1, <3>1 DEF Accounted, HistoryTypes
    <3>2. CASE t # s
      <4>1. /\ settings'[p][t] = settings[p][t] /\ own'[p][t] = own[p][t]
            /\ loadError'[p][t] = loadError[p][t]
        BY <1>1, <2>1, <3>2 DEF Types, HistoryTypes
      <4> QED
        BY <1>2, <4>1 DEF Accounted, Account, Waits
    <3> QED
      BY <3>1, <3>2
  <2> QED
    BY <1>2, <2>2, <2>3, <2>4, <2>5 DEF Account
<1>4. CASE op[p].kind = "task"
  <2>1. /\ \E next \in Contents : op' = [op EXCEPT ![p].next = next]
        /\ \E place \in {"truncate", "relock"} : pc' = [pc EXCEPT ![p] = place]
        /\ UNCHANGED <<settings, loadError, own>>
    BY <1>1, <1>4, MergedType, CurrentType DEF Read, Goto, memory
  <2>2. \A q \in Processes : Left(q)
    BY <1>2, <2>1 DEF Left
  <2>3. Running(p)'
    BY <1>1, <1>2, <2>1 DEF Account, Running, Types, Operations
  <2>4. \A q \in Processes \ {p} : op'[q] = op[q] /\ pc'[q] = pc[q]
    BY <1>1, <2>1 DEF Types
  <2>5. HistoryTypes'
    BY <1>2, <2>1 DEF HistoryTypes
  <2> QED
    BY <1>2, <2>2, <2>3, <2>4, <2>5, LeftAccounted DEF Account
<1> QED
  BY <1>1, <1>3, <1>4

LEMMA WithlockAccounts ==
  ASSUME SInv, NEW p \in Processes, Withlock(p)
  PROVE  HistoryTypes' /\ \A q \in Processes : Account(q)'
<1>1. Types /\ IInv /\ HistoryTypes /\ op[p].scope \in Scopes
  BY DEF SInv, IInv, Types, Operations
<1>2. CASE /\ Fails(p) /\ (Read(p) \/ LockFails(p) \/ WriteFails(p))
           /\ UNCHANGED <<own, saved>>
  BY <1>1, <1>2, FailsAccount, LeftAlone DEF SInv, Read, LockFails, WriteFails
<1>3. CASE Write(p)
  <2>1. \A q \in Processes \ {p} :
          /\ writeQueue'[q] = writeQueue[q] /\ op'[q] = op[q] /\ pc'[q] = pc[q]
    BY <1>1, <1>3 DEF Write, Done, Goto, Types
  <2>2. UNCHANGED <<settings, loadError, failed, own>>
    BY <1>3 DEF Write
  <2>3. /\ Account(p)' /\ HistoryTypes' /\ \A s \in Scopes : saved[s] \subseteq saved'[s]
    BY <1>1, <1>3, WriteAccount DEF SInv
  <2>4. \A q \in Processes : Left(q)
    BY <2>2, <2>3 DEF Left
  <2> QED
    BY <2>1, <2>3, <2>4, LeftAlone DEF SInv
<1>4. CASE Read(p) /\ Current(p).state # "broken"
  BY <1>1, <1>4, ReadAccount, LeftAlone DEF SInv
<1>5. CASE Start(p) \/ Look(p) \/ Lock(p) \/ Truncate(p)
  <2>1. /\ UNCHANGED <<settings, loadError, failed, own, saved, writeQueue>>
        /\ HistoryTypes'
    BY <1>1, <1>5 DEF Start, Look, Lock, Truncate, memory, history, HistoryTypes
  <2>2. \A q \in Processes : Left(q)
    BY <2>1 DEF Left
  <2>3. \A q \in Processes \ {p} : op'[q] = op[q] /\ pc'[q] = pc[q]
    BY <1>1, <1>5 DEF Start, Look, Lock, Truncate, Goto, Types
  <2>4. CASE Start(p)
    <3>1. pc'[p] = "look"
      BY <1>1, <2>4 DEF Start, Goto, Types
    <3>2. \/ \E s \in Scopes : op'[p] = Load(s)
          \/ op'[p] = Head(writeQueue[p]) /\ writeQueue[p] # <<>>
      BY <1>1, <2>4 DEF Start, Types
    <3>3. Running(p)'
      BY <2>1, <3>1, <3>2, LoadType DEF Running
    <3> QED
      BY <2>1, <2>2, <2>3, <3>3, LeftAccounted, LeftAlone DEF SInv, Account
  <2>5. CASE Look(p) \/ Lock(p) \/ Truncate(p)
    <3>1. /\ pc'[p] \notin {"start", "rest"} /\ pc[p] \notin {"start", "rest"}
          /\ op'[p].kind = op[p].kind /\ op'[p].scope = op[p].scope
          /\ op'[p].fields = op[p].fields /\ op'[p].content = op[p].content
      BY <1>1, <2>5 DEF Look, Lock, Truncate, Goto, Types, Operations
    <3>2. Running(p)'
      BY <2>1, <3>1 DEF SInv, Account, Running
    <3> QED
      BY <2>1, <2>2, <2>3, <3>2, LeftAccounted, LeftAlone DEF SInv, Account
  <2> QED
    BY <1>5, <2>4, <2>5
<1> QED
  BY <1>2, <1>3, <1>4, <1>5 DEF Withlock, Read, LockFails, WriteFails, history

LEMMA NextAccounts ==
  ASSUME SInv, [Next]_vars
  PROVE  SInv'
<1>1. Types /\ IInv /\ HistoryTypes
  BY DEF SInv, IInv
<1>2. IInv'
  BY <1>1, NextStep
<1>3. ASSUME NEW p \in Processes, Withlock(p)
      PROVE  SInv'
  BY <1>2, <1>3, WithlockAccounts DEF SInv
<1>4. ASSUME NEW p \in Processes, NEW s \in Scopes, NEW f \in Fields, Set(p, s, f)
      PROVE  SInv'
  <2>1. \A q \in Processes \ {p} :
          /\ writeQueue'[q] = writeQueue[q] /\ op'[q] = op[q] /\ pc'[q] = pc[q]
    BY <1>1, <1>4 DEF Set, Types
  <2>2. \A q \in Processes \ {p} : Left(q)
    BY <1>1, <1>4 DEF Set, Types, HistoryTypes, Left
  <2>3. Account(p)' /\ HistoryTypes'
    BY <1>1, <1>4, SetAccount DEF SInv
  <2> QED
    BY <1>2, <2>1, <2>2, <2>3, LeftAlone DEF SInv
<1>5. ASSUME NEW p \in Processes, Crash(p)
      PROVE  SInv'
  <2>1. \A q \in Processes \ {p} :
          /\ writeQueue'[q] = writeQueue[q] /\ op'[q] = op[q] /\ pc'[q] = pc[q]
    BY <1>1, <1>5 DEF Crash, Goto, Types
  <2>2. \A q \in Processes \ {p} : Left(q)
    BY <1>1, <1>5 DEF Crash, Types, HistoryTypes, Left
  <2>3. HistoryTypes'
    BY <1>1, <1>5 DEF Crash, HistoryTypes
  <2>4. /\ op'[p] = NoOp
        /\ \A s \in Scopes : loadError'[p][s] = FALSE /\ own'[p][s] = {}
    BY <1>1, <1>5 DEF Crash, Types, HistoryTypes
  <2>5. Account(p)'
    BY <2>4, NoOpType DEF Account, Running, Accounted
  <2> QED
    BY <1>2, <2>1, <2>2, <2>3, <2>5, LeftAlone DEF SInv
<1>6. CASE UNCHANGED <<memory, writeQueue, op, pc, own, saved>>
  <2>1. \A q \in Processes : Left(q)
    BY <1>6 DEF Left, memory
  <2>2. HistoryTypes'
    BY <1>1, <1>6 DEF HistoryTypes, memory
  <2> QED
    BY <1>2, <1>6, <2>1, <2>2, LeftAlone DEF SInv
<1> QED
  BY <1>3, <1>4, <1>5, <1>6
     DEF Next, Rest, Reload, Edit, vars, control, history

LEMMA InitSaved == Init => SInv
<1>1. ASSUME Init PROVE HistoryTypes
  BY <1>1 DEF Init, NoMemory, HistoryTypes
<1>2. ASSUME Init, NEW p \in Processes PROVE Account(p)
  BY <1>2, NoOpType DEF Init, NoMemory, Account, Running, Accounted
<1> QED
  BY <1>1, <1>2, InitStep DEF SInv

-----------------------------------------------------------------------------
(* A mark goes when its value is saved                                     *)
(*                                                                         *)
(* The values a process has marked, or has in its queue for a scope, are   *)
(* numbers of changes, and no two processes have one in common.            *)

Has(p, s, v) ==
  \/ \E f \in modified[p][s] : settings[p][s][f] = v
  \/ \E i \in 1..Len(writeQueue[p]) :
       writeQueue[p][i].scope = s
       /\ \E f \in writeQueue[p][i].fields : writeQueue[p][i].content[f] = v

Reloads ==
  \A p \in Processes :
    /\ reloading[p] \notin {{}, Scopes} =>
         pc[p] # "rest" /\ \A s \in Scopes : modified[p][s] = {}
    /\ op[p].kind = "load" => op[p].scope \in reloading[p]
    /\ op[p].kind = "task" => reloading[p] \in {{}, Scopes}

Bounded ==
  \A s \in Scopes :
    /\ \A v \in saved[s] : v <= changes
    /\ \A p \in Processes : \A v \in Nat : Has(p, s, v) => v <= changes

Apart ==
  \A p, q \in Processes : \A s \in Scopes : \A v \in Nat :
    p # q => ~(Has(p, s, v) /\ Has(q, s, v))

MInv == SInv /\ Reloads /\ Bounded /\ Apart /\ MarksAreUnsaved

\* What a step may do to the values of a process.
NoMore(p) ==
  \A s \in Scopes :
    /\ \A v \in Nat : Has(p, s, v)' => Has(p, s, v)
    /\ modified'[p][s] \subseteq modified[p][s]
    /\ \A f \in modified'[p][s] : settings'[p][s][f] = settings[p][s][f]

LEMMA NoMoreMarks ==
  ASSUME MInv, SInv', \A p \in Processes : NoMore(p), UNCHANGED saved,
         changes' >= changes
  PROVE  Bounded' /\ Apart' /\ MarksAreUnsaved'
<1>1. changes \in Nat /\ changes' \in Nat /\ \A s \in Scopes : saved[s] \subseteq Nat
  BY DEF MInv, SInv, IInv, Types, HistoryTypes
<1>2. Apart'
  BY DEF MInv, Apart, NoMore
<1>3. MarksAreUnsaved'
  BY DEF MInv, MarksAreUnsaved, NoMore
<1>4. Bounded'
  <2>1. ASSUME NEW s \in Scopes, NEW v \in saved'[s]
        PROVE  v <= changes'
    <3>1. v \in Nat /\ v <= changes
      BY <1>1, <2>1 DEF MInv, Bounded
    <3> QED
      BY <1>1, <3>1
  <2>2. ASSUME NEW s \in Scopes, NEW p \in Processes, NEW v \in Nat, Has(p, s, v)'
        PROVE  v <= changes'
    <3>1. v <= changes
      BY <2>2 DEF MInv, Bounded, NoMore
    <3> QED
      BY <1>1, <3>1
  <2> QED
    BY <2>1, <2>2 DEF Bounded
<1> QED
  BY <1>2, <1>3, <1>4

LEMMA SameHas ==
  ASSUME NEW p \in Processes, settings'[p] = settings[p], modified'[p] = modified[p],
         writeQueue'[p] = writeQueue[p]
  PROVE  NoMore(p)
BY DEF NoMore, Has

\* The queue loses its head, or its process loses everything.
LEMMA TailHas ==
  ASSUME Types, NEW p \in Processes, writeQueue[p] # <<>>,
         writeQueue'[p] = Tail(writeQueue[p]), settings'[p] = settings[p],
         \A s \in Scopes : modified'[p][s] \subseteq modified[p][s]
  PROVE  NoMore(p)
<1>1. writeQueue[p] \in Seq(Tasks)
  BY DEF Types
<1>2. /\ Len(Tail(writeQueue[p])) = Len(writeQueue[p]) - 1
      /\ Len(writeQueue[p]) \in Nat
      /\ \A j \in 1..Len(Tail(writeQueue[p])) :
           Tail(writeQueue[p])[j] = writeQueue[p][j + 1]
  BY <1>1
<1>3. ASSUME NEW s \in Scopes, NEW v \in Nat, Has(p, s, v)'
      PROVE  Has(p, s, v)
  <2>1. CASE \E f \in modified'[p][s] : settings'[p][s][f] = v
    BY <2>1 DEF Has
  <2>2. CASE ~\E f \in modified'[p][s] : settings'[p][s][f] = v
    <3>1. PICK j \in 1..Len(writeQueue'[p]) :
            writeQueue'[p][j].scope = s
            /\ \E f \in writeQueue'[p][j].fields : writeQueue'[p][j].content[f] = v
      BY <1>3, <2>2 DEF Has
    <3>2. j + 1 \in 1..Len(writeQueue[p]) /\ writeQueue'[p][j] = writeQueue[p][j + 1]
      BY <1>2, <3>1
    <3> QED
      BY <3>1, <3>2 DEF Has
  <2> QED
    BY <2>1, <2>2
<1> QED
  BY <1>3 DEF NoMore

\* A load that is over clears the marks first.
LEMMA LoadedMarks ==
  ASSUME MInv, NEW p \in Processes, op[p].kind = "load", Loaded(p, op[p].scope),
         \A q \in Processes \ {p} : settings'[q] = settings[q]
  PROVE  (\A q \in Processes : NoMore(q)) /\ Reloads'
<1> DEFINE s == op[p].scope
<1>1. /\ Types /\ s \in Scopes /\ s \in reloading[p]
      /\ modified \in [Processes -> [Scopes -> SUBSET Fields]]
  BY DEF MInv, SInv, IInv, Types, Operations, Reloads
<1>2. /\ writeQueue' = writeQueue /\ op' = [op EXCEPT ![p] = NoOp]
      /\ reloading' = [reloading EXCEPT ![p] = reloading[p] \ {s}]
      /\ modified' = [modified EXCEPT ![p] =
           IF reloading[p] = Scopes THEN [t \in Scopes |-> {}] ELSE modified[p]]
      /\ pc' = [pc EXCEPT ![p] = IF reloading[p] = {s} THEN "rest" ELSE "start"]
  BY DEF Loaded, Goto
<1>3. \A t \in Scopes : modified'[p][t] = {}
  BY <1>1, <1>2 DEF MInv, Reloads
<1>4. NoMore(p)
  BY <1>2, <1>3 DEF NoMore, Has
<1>5. ASSUME NEW q \in Processes, q # p
      PROVE  NoMore(q)
  <2>1. /\ modified'[q] = modified[q] /\ writeQueue'[q] = writeQueue[q]
        /\ settings'[q] = settings[q]
    BY <1>1, <1>2, <1>5
  <2> QED
    BY <2>1, SameHas
<1>6. Reloads'
  <2>1. /\ reloading'[p] = reloading[p] \ {s} /\ op'[p].kind = "none"
        /\ pc'[p] = IF reloading[p] = {s} THEN "rest" ELSE "start"
    BY <1>1, <1>2, NoOpType DEF Types
  <2>2. reloading'[p] \notin {{}, Scopes} => pc'[p] # "rest"
    BY <2>1
  <2>3. \A q \in Processes : q # p =>
          /\ reloading'[q] = reloading[q] /\ op'[q] = op[q] /\ pc'[q] = pc[q]
          /\ modified'[q] = modified[q]
    BY <1>1, <1>2 DEF Types
  <2> QED
    BY <1>3, <2>1, <2>2, <2>3 DEF MInv, Reloads
<1> QED
  BY <1>4, <1>5, <1>6

LEMMA DoneMarks ==
  ASSUME MInv, NEW p \in Processes, op[p].kind = "task", Done(p), UNCHANGED settings,
         pc[p] \notin {"start", "rest"},
         \/ UNCHANGED modified
         \/ modified' = [modified EXCEPT ![p][op[p].scope] = {}]
  PROVE  (\A q \in Processes : NoMore(q)) /\ Reloads'
<1>1. /\ Types /\ op[p].scope \in Scopes /\ writeQueue[p] # <<>>
  BY DEF MInv, SInv, IInv, Types, Operations, Queues
<1>2. /\ writeQueue' = [writeQueue EXCEPT ![p] = Tail(@)]
      /\ op' = [op EXCEPT ![p] = NoOp] /\ pc' = [pc EXCEPT ![p] = "rest"]
      /\ UNCHANGED reloading
  BY DEF Done, Goto
<1>3. /\ \A s \in Scopes : modified'[p][s] \subseteq modified[p][s]
      /\ \A q \in Processes : q # p => modified'[q] = modified[q]
  <2>1. modified \in [Processes -> [Scopes -> SUBSET Fields]]
    BY <1>1 DEF Types
  <2>2. CASE UNCHANGED modified
    BY <2>2
  <2>3. CASE modified' = [modified EXCEPT ![p][op[p].scope] = {}]
    BY <1>1, <2>1, <2>3
  <2> QED
    BY <2>2, <2>3
<1>4. NoMore(p)
  <2>1. writeQueue'[p] = Tail(writeQueue[p])
    BY <1>1, <1>2 DEF Types
  <2> QED
    BY <1>1, <1>3, <2>1, TailHas
<1>5. ASSUME NEW q \in Processes, q # p
      PROVE  NoMore(q)
  BY <1>1, <1>2, <1>3, <1>5, SameHas DEF Types
<1>6. Reloads'
  <2>1. reloading[p] \in {{}, Scopes}
    BY DEF MInv, Reloads
  <2>2. op'[p].kind = "none" /\ pc'[p] = "rest"
    BY <1>1, <1>2, NoOpType DEF Types
  <2>3. \A q \in Processes : q # p => op'[q] = op[q] /\ pc'[q] = pc[q]
    BY <1>1, <1>2 DEF Types
  <2> QED
    BY <1>2, <1>3, <2>1, <2>2, <2>3 DEF MInv, Reloads
<1> QED
  BY <1>4, <1>5, <1>6

LEMMA FailsMarks ==
  ASSUME MInv, NEW p \in Processes, pc[p] \notin {"start", "rest"}, Fails(p)
  PROVE  (\A q \in Processes : NoMore(q)) /\ Reloads'
<1>1. /\ Types /\ op[p].scope \in Scopes /\ op[p].kind \in {"load", "task"}
      /\ op[p].kind = "task" => writeQueue[p] # <<>>
  BY DEF MInv, SInv, IInv, Types, Operations, Queues
<1>2. CASE op[p].kind = "load"
  BY <1>2, LoadedMarks DEF Fails
<1>3. CASE op[p].kind = "task"
  <2>1. Done(p) /\ UNCHANGED <<modified, settings>>
    BY <1>3 DEF Fails
  <2> QED
    BY <1>1, <1>3, <2>1, DoneMarks
<1> QED
  BY <1>1, <1>2, <1>3

\* The new value is that of nobody, and every value in the task was marked.
LEMMA SetMarks ==
  ASSUME MInv, SInv', NEW p \in Processes, NEW s \in Scopes, NEW f \in Fields,
         Set(p, s, f)
  PROVE  Bounded' /\ Apart' /\ MarksAreUnsaved' /\ Reloads'
<1> DEFINE task == Task(s, settings'[p][s], modified'[p][s])
           queue == writeQueue[p]
<1>1. /\ Types /\ HistoryTypes /\ queue \in Seq(Tasks) /\ Len(queue) \in Nat
      /\ changes \in Nat
  BY DEF MInv, SInv, IInv, Types
<1>2. /\ changes' = changes + 1 /\ pc[p] = "rest"
      /\ settings' = [settings EXCEPT ![p][s][f] = changes']
      /\ modified' = [modified EXCEPT ![p][s] = @ \union {f}]
      /\ writeQueue' = IF loadError[p][s] THEN writeQueue
                       ELSE [writeQueue EXCEPT ![p] = Append(@, task)]
      /\ UNCHANGED <<saved, op, pc, reloading>>
  BY DEF Set
<1>3. /\ settings'[p][s][f] = changes + 1
      /\ \A t \in Scopes, g \in Fields :
           ~(t = s /\ g = f) => settings'[p][t][g] = settings[p][t][g]
      /\ \A t \in Scopes : t # s => modified'[p][t] = modified[p][t]
      /\ modified'[p][s] = modified[p][s] \union {f}
      /\ modified[p][s] \subseteq Fields
      /\ \A q \in Processes : q # p => /\ settings'[q] = settings[q]
                                      /\ modified'[q] = modified[q]
                                      /\ writeQueue'[q] = writeQueue[q]
  BY <1>1, <1>2 DEF Types, Contents
<1>4. /\ task.scope = s /\ task.fields = modified'[p][s]
      /\ task.content = settings'[p][s]
  BY NoOpType DEF Task, Operations
<1>5. ASSUME NEW t \in Scopes, NEW g \in modified'[p][t], settings'[p][t][g] # changes + 1
      PROVE  g \in modified[p][t] /\ settings'[p][t][g] = settings[p][t][g]
  <2>1. modified[p][t] \subseteq Fields /\ ~(t = s /\ g = f)
    BY <1>1, <1>3, <1>5 DEF Types
  <2>2. g \in modified[p][t]
    BY <1>3, <1>5, <2>1
  <2> QED
    BY <1>3, <2>1, <2>2
<1>6. ASSUME NEW t \in Scopes, NEW v \in Nat, Has(p, t, v)'
      PROVE  v = changes + 1 \/ Has(p, t, v)
  <2>1. CASE \E g \in modified'[p][t] : settings'[p][t][g] = v
    BY <1>5, <2>1 DEF Has
  <2>2. CASE ~\E g \in modified'[p][t] : settings'[p][t][g] = v
    <3>1. PICK i \in 1..Len(writeQueue'[p]) :
            writeQueue'[p][i].scope = t
            /\ \E g \in writeQueue'[p][i].fields : writeQueue'[p][i].content[g] = v
      BY <1>6, <2>2 DEF Has
    <3>2. CASE loadError[p][s]
      BY <1>2, <3>1, <3>2 DEF Has
    <3>3. CASE ~loadError[p][s]
      <4>1. task \in Tasks
        <5>1. settings'[p][s] \in Contents /\ modified'[p][s] \in SUBSET Fields
          BY DEF SInv, IInv, Types
        <5> QED
          BY <5>1, TaskType
      <4>2. writeQueue'[p] = Append(queue, task)
        BY <1>1, <1>2, <3>3 DEF Types
      <4>3. /\ Len(writeQueue'[p]) = Len(queue) + 1
            /\ writeQueue'[p][Len(queue) + 1] = task
            /\ \A j \in 1..Len(queue) : writeQueue'[p][j] = queue[j]
        BY <1>1, <4>1, <4>2
      <4>4. CASE i = Len(queue) + 1
        BY <1>4, <2>2, <3>1, <4>3, <4>4
      <4>5. CASE i # Len(queue) + 1
        <5>1. i \in 1..Len(queue) /\ writeQueue'[p][i] = queue[i]
          BY <1>1, <3>1, <4>3, <4>5
        <5> QED
          BY <3>1, <5>1 DEF Has
      <4> QED
        BY <4>4, <4>5
    <3> QED
      BY <3>2, <3>3
  <2> QED
    BY <2>1, <2>2
<1>7. ASSUME NEW q \in Processes, q # p
      PROVE  NoMore(q)
  BY <1>3, <1>7, SameHas
<1>8. \A q \in Processes, t \in Scopes, v \in Nat :
        Has(q, t, v)' => Has(q, t, v) \/ (q = p /\ v = changes + 1)
  BY <1>6, <1>7 DEF NoMore
<1>9. \A q \in Processes, t \in Scopes : ~Has(q, t, changes + 1)
  BY <1>1 DEF MInv, Bounded
<1>10. Bounded'
  <2>1. ASSUME NEW t \in Scopes, NEW v \in saved'[t]
        PROVE  v <= changes'
    <3>1. v \in Nat /\ v <= changes
      BY <1>1, <1>2, <2>1 DEF MInv, Bounded, HistoryTypes
    <3> QED
      BY <1>1, <1>2, <3>1
  <2>2. ASSUME NEW t \in Scopes, NEW q \in Processes, NEW v \in Nat, Has(q, t, v)'
        PROVE  v <= changes'
    <3>1. v <= changes \/ v = changes + 1
      BY <1>8, <2>2 DEF MInv, Bounded
    <3> QED
      BY <1>1, <1>2, <3>1
  <2> QED
    BY <2>1, <2>2 DEF Bounded
<1>11. Apart'
  BY <1>8, <1>9 DEF MInv, Apart
<1>12. MarksAreUnsaved'
  <2>1. changes + 1 \notin saved[s]
    BY <1>1 DEF MInv, Bounded
  <2>2. ASSUME NEW t \in Scopes, NEW g \in modified'[p][t]
        PROVE  settings'[p][t][g] \notin saved[t]
    <3>1. CASE settings'[p][t][g] # changes + 1
      BY <1>5, <2>2, <3>1 DEF MInv, MarksAreUnsaved
    <3>2. CASE settings'[p][t][g] = changes + 1
      BY <1>1, <3>2 DEF MInv, Bounded
    <3> QED
      BY <3>1, <3>2
  <2>3. ASSUME NEW q \in Processes, q # p, NEW t \in Scopes, NEW g \in modified'[q][t]
        PROVE  settings'[q][t][g] \notin saved[t]
    BY <1>3, <2>3 DEF MInv, MarksAreUnsaved
  <2> QED
    BY <1>2, <2>2, <2>3 DEF MarksAreUnsaved
<1>13. Reloads'
  <2>1. \A q \in Processes : q # p => modified'[q] = modified[q]
    BY <1>3
  <2> QED
    BY <1>2, <2>1 DEF MInv, Reloads
<1> QED
  BY <1>10, <1>11, <1>12, <1>13

\* What is saved was the writer's, so it is nobody else's.
LEMMA WriteMarks ==
  ASSUME MInv, SInv', NEW p \in Processes, Write(p)
  PROVE  Bounded' /\ Apart' /\ MarksAreUnsaved' /\ Reloads'
<1> DEFINE s == op[p].scope
<1>1. /\ Types /\ HistoryTypes /\ s \in Scopes /\ op[p].kind = "task"
      /\ op[p] \in Operations /\ pc[p] = "write" /\ changes \in Nat
  BY DEF MInv, SInv, IInv, Types, Operations, Queues, Write
<1>2. /\ saved' = [saved EXCEPT ![s] = @ \union {op[p].content[f] : f \in op[p].fields}]
      /\ modified' = [modified EXCEPT ![p][s] = {}]
      /\ Done(p) /\ UNCHANGED <<settings, changes>>
  BY DEF Write, Written, counts
<1>3. (\A q \in Processes : NoMore(q)) /\ Reloads'
  BY <1>1, <1>2, DoneMarks
<1>4. ASSUME NEW f \in op[p].fields
      PROVE  op[p].content[f] \in Nat /\ Has(p, s, op[p].content[f])
  <2>1. /\ writeQueue[p] \in Seq(Tasks) /\ writeQueue[p] # <<>>
        /\ Head(writeQueue[p]).scope = s /\ Head(writeQueue[p]).fields = op[p].fields
        /\ Head(writeQueue[p]).content = op[p].content
    BY <1>1 DEF MInv, SInv, Account, Running, Types
  <2>2. 1 \in 1..Len(writeQueue[p]) /\ Head(writeQueue[p]) = writeQueue[p][1]
    BY <2>1
  <2>3. op[p].content[f] \in Nat
    BY <1>1 DEF Operations, Contents
  <2> QED
    BY <2>1, <2>2, <2>3 DEF Has
<1>5. ASSUME NEW t \in Scopes, NEW v \in saved'[t]
      PROVE  v \in saved[t] \/ (t = s /\ v \in Nat /\ Has(p, s, v))
  BY <1>1, <1>2, <1>4, <1>5 DEF HistoryTypes
<1>6. Bounded'
  <2>1. \A t \in Scopes : \A v \in saved'[t] : v <= changes'
    BY <1>2, <1>5 DEF MInv, Bounded
  <2>2. \A t \in Scopes : \A q \in Processes : \A v \in Nat :
          Has(q, t, v)' => v <= changes'
    BY <1>2, <1>3 DEF MInv, Bounded, NoMore
  <2> QED
    BY <2>1, <2>2 DEF Bounded
<1>7. Apart'
  BY <1>3 DEF MInv, Apart, NoMore
<1>8. MarksAreUnsaved'
  <2>1. ASSUME NEW q \in Processes, NEW t \in Scopes, NEW f \in modified'[q][t]
        PROVE  settings'[q][t][f] \notin saved'[t]
    <3>1. /\ f \in modified[q][t] /\ settings'[q][t][f] = settings[q][t][f]
          /\ settings[q][t][f] \notin saved[t]
      BY <1>3, <2>1 DEF NoMore, MInv, MarksAreUnsaved
    <3>2. ~(q = p /\ t = s)
      BY <1>1, <1>2, <2>1 DEF Types
    <3>3. CASE t # s
      BY <1>5, <3>1, <3>3
    <3>4. CASE t = s
      <4>1. q # p
        BY <3>2, <3>4
      <4>2. Has(q, s, settings[q][s][f])
        BY <3>1, <3>4 DEF Has
      <4>3. ASSUME settings[q][s][f] \in Nat
            PROVE  ~Has(p, s, settings[q][s][f])
        BY <1>1, <4>1, <4>2, <4>3 DEF MInv, Apart
      <4> QED
        BY <1>5, <3>1, <3>4, <4>3
    <3> QED
      BY <3>3, <3>4
  <2> QED
    BY <2>1 DEF MarksAreUnsaved
<1> QED
  BY <1>3, <1>6, <1>7, <1>8

\* Every other step leaves the marks or clears them.
LEMMA OtherMarks ==
  ASSUME MInv, SInv', \A p \in Processes : NoMore(p), Reloads', UNCHANGED saved,
         changes' >= changes
  PROVE  MInv'
BY NoMoreMarks DEF MInv

LEMMA WithlockMarks ==
  ASSUME MInv, SInv', NEW p \in Processes, Withlock(p)
  PROVE  MInv'
<1>1. Types /\ IInv /\ op[p].scope \in Scopes /\ changes \in Nat
  BY DEF MInv, SInv, IInv, Types, Operations
<1>2. CASE Fails(p) /\ (Read(p) \/ LockFails(p) \/ WriteFails(p))
  <2>1. /\ pc[p] \notin {"start", "rest"} /\ UNCHANGED <<saved, changes>>
    BY <1>2 DEF Read, LockFails, WriteFails, counts, history
  <2> QED
    BY <1>1, <1>2, <2>1, FailsMarks, OtherMarks
<1>3. CASE Write(p)
  BY <1>3, WriteMarks DEF MInv
<1>4. CASE Read(p) /\ op[p].kind = "load" /\ Current(p).state # "broken"
  <2>1. /\ Loaded(p, op[p].scope) /\ UNCHANGED <<saved, changes>>
        /\ settings' = [settings EXCEPT ![p][op[p].scope] = Current(p).content]
    BY <1>4 DEF Read, counts
  <2>2. \A q \in Processes \ {p} : settings'[q] = settings[q]
    BY <1>1, <2>1 DEF Types
  <2> QED
    BY <1>1, <1>4, <2>1, <2>2, LoadedMarks, OtherMarks
<1>5. CASE /\ \/ Start(p) \/ Look(p) \/ Lock(p) \/ Truncate(p)
              \/ Read(p) /\ op[p].kind # "load" /\ Current(p).state # "broken"
  <2>1. UNCHANGED <<settings, modified, writeQueue, reloading, saved, changes>>
    BY <1>5 DEF Start, Look, Lock, Truncate, Read, memory, history, counts
  <2>2. \A q \in Processes : NoMore(q)
    BY <2>1, SameHas
  <2>3. \A q \in Processes : q # p => op'[q] = op[q] /\ pc'[q] = pc[q]
    BY <1>1, <1>5 DEF Start, Look, Lock, Truncate, Read, Goto, Types
  <2>4. CASE Start(p)
    <3>1. pc'[p] = "look" /\ pc[p] \in {"start", "rest"}
      BY <1>1, <2>4 DEF Start, Goto, Types
    <3>2. \/ \E s \in reloading[p] : op'[p] = Load(s)
          \/ /\ op'[p] = Head(writeQueue[p]) /\ writeQueue[p] # <<>> /\ pc[p] = "rest"
      BY <1>1, <2>4 DEF Start, Types
    <3>3. \/ op'[p].kind = "load" /\ op'[p].scope \in reloading[p]
          \/ op'[p].kind = "task" /\ reloading[p] \in {{}, Scopes}
      <4>1. CASE \E s \in reloading[p] : op'[p] = Load(s)
        <5>1. PICK s \in reloading[p] : op'[p] = Load(s)
          BY <4>1
        <5>2. s \in Scopes
          BY <1>1 DEF Types
        <5>3. Load(s).scope = s /\ Load(s).kind = "load"
          BY <5>2, NoOpType DEF Load, Operations
        <5> QED
          BY <5>1, <5>3
      <4>2. CASE op'[p] = Head(writeQueue[p]) /\ writeQueue[p] # <<>> /\ pc[p] = "rest"
        <5>1. writeQueue[p] \in Seq(Tasks)
          BY <1>1 DEF Types
        <5>2. Head(writeQueue[p]) \in Tasks
          BY <4>2, <5>1
        <5>3. reloading[p] \in {{}, Scopes}
          BY <4>2 DEF MInv, Reloads
        <5> QED
          BY <4>2, <5>2, <5>3 DEF Tasks
      <4> QED
        BY <3>2, <4>1, <4>2
    <3>4. Reloads'
      BY <2>1, <2>3, <3>1, <3>3 DEF MInv, Reloads
    <3> QED
      BY <1>1, <2>1, <2>2, <3>4, OtherMarks
  <2>5. CASE ~Start(p)
    <3>1. /\ op'[p].kind = op[p].kind /\ op'[p].scope = op[p].scope
          /\ pc'[p] # "rest"
      BY <1>1, <1>5, <2>5 DEF Look, Lock, Truncate, Read, Goto, Types, Operations
    <3>2. Reloads'
      BY <2>1, <2>3, <3>1 DEF MInv, Reloads
    <3> QED
      BY <1>1, <2>1, <2>2, <3>2, OtherMarks
  <2> QED
    BY <2>4, <2>5
<1> QED
  BY <1>2, <1>3, <1>4, <1>5 DEF Withlock, Read, LockFails, WriteFails

LEMMA NextMarks ==
  ASSUME MInv, [Next]_vars
  PROVE  MInv'
<1>1. Types /\ changes \in Nat
  BY DEF MInv, SInv, IInv, Types
<1>2. SInv'
  BY NextAccounts DEF MInv
<1>3. ASSUME NEW p \in Processes, Withlock(p)
      PROVE  MInv'
  BY <1>2, <1>3, WithlockMarks
<1>4. ASSUME NEW p \in Processes, NEW s \in Scopes, NEW f \in Fields, Set(p, s, f)
      PROVE  MInv'
  BY <1>2, <1>4, SetMarks DEF MInv
<1>5. ASSUME NEW p \in Processes, Crash(p)
      PROVE  MInv'
  <2>1. /\ modified'[p] = [t \in Scopes |-> {}] /\ writeQueue'[p] = <<>>
        /\ op'[p] = NoOp /\ reloading'[p] = Scopes
        /\ UNCHANGED <<saved, changes>>
        /\ \A q \in Processes : q # p =>
             /\ settings'[q] = settings[q] /\ modified'[q] = modified[q]
             /\ writeQueue'[q] = writeQueue[q] /\ op'[q] = op[q] /\ pc'[q] = pc[q]
             /\ reloading'[q] = reloading[q]
    BY <1>1, <1>5 DEF Crash, Goto, Types
  <2>2. NoMore(p)
    <3>1. \A s \in Scopes : modified'[p][s] = {}
      BY <2>1
    <3>2. 1..Len(writeQueue'[p]) = {}
      BY <2>1
    <3> QED
      BY <3>1, <3>2 DEF NoMore, Has
  <2>3. \A q \in Processes : NoMore(q)
    BY <2>1, <2>2, SameHas
  <2>4. Reloads'
    BY <2>1, NoOpType DEF MInv, Reloads
  <2> QED
    BY <1>1, <1>2, <2>1, <2>3, <2>4, OtherMarks
<1>6. ASSUME NEW p \in Processes, Reload(p)
      PROVE  MInv'
  <2>1. /\ UNCHANGED <<settings, modified, writeQueue, saved, changes, op, pc>>
        /\ reloading' = [reloading EXCEPT ![p] = Scopes] /\ reloading[p] = {}
    BY <1>6 DEF Reload, memory, history
  <2>2. \A q \in Processes : NoMore(q)
    BY <2>1, SameHas
  <2>3. Reloads'
    <3>1. \A q \in Processes : q # p => reloading'[q] = reloading[q]
      BY <1>1, <2>1 DEF Types
    <3>2. reloading'[p] = Scopes /\ op[p].kind # "load"
      <4>1. reloading'[p] = Scopes
        BY <1>1, <2>1 DEF Types
      <4>2. op[p].kind = "load" => op[p].scope \in reloading[p]
        BY DEF MInv, Reloads
      <4> QED
        BY <2>1, <4>1, <4>2
    <3> QED
      BY <2>1, <3>1, <3>2 DEF MInv, Reloads
  <2> QED
    BY <1>1, <1>2, <2>1, <2>2, <2>3, OtherMarks
<1>7. CASE UNCHANGED <<memory, writeQueue, saved, reloading, op, pc>> /\ changes' >= changes
  <2>1. \A q \in Processes : NoMore(q)
    BY <1>7, SameHas DEF memory
  <2>2. Reloads'
    BY <1>7 DEF MInv, Reloads, memory
  <2> QED
    BY <1>2, <1>7, <2>1, <2>2, OtherMarks
<1>8. CASE UNCHANGED vars
  <2>1. UNCHANGED <<memory, writeQueue, saved, reloading, op, pc, changes>>
    BY <1>8 DEF vars, control, counts, history
  <2> QED
    BY <1>1, <1>7, <2>1
<1>9. ASSUME NEW s \in Scopes, Edit(s)
      PROVE  MInv'
  <2>1. /\ UNCHANGED <<memory, writeQueue, saved, reloading, op, pc>>
        /\ changes' = changes + 1
    BY <1>9 DEF Edit, control
  <2> QED
    BY <1>1, <1>7, <2>1
<1> QED
  BY <1>3, <1>4, <1>5, <1>6, <1>8, <1>9 DEF Next, Rest

-----------------------------------------------------------------------------
(* The theorems *)

\* In every state the variables have their types, and a process that truncates
\* or writes a settings file holds its lock (withLock).
THEOREM TypesHold == Spec => []TypeOK
<1>1. IInv => TypeOK
  BY DEF IInv, Types, Places, Queues, Locking, TypeOK
<1> QED
  BY <1>1, Inductive, PTL

\* However many processes read, merge and write a settings file, and whenever
\* an editor saves it, the file holds each field's last new value, but for
\* fields the editor saved between the read and the write of a process and
\* those a queued write repeats over a later value, and unless the file's
\* first write was raced or a write was broken off (withLock,
\* persistScopedSettings).
THEOREM UpdatesAreNotLost == Spec => []NoLostUpdate
<1>1. IInv => NoLostUpdate
  BY DEF IInv
<1> QED
  BY <1>1, Inductive, PTL

\* No step of a manager changes a file that does not parse, but the write of
\* a process that had found no file, or had read it before an editor broke it.
THEOREM BrokenFilesAreKept == Spec => BrokenIsKept
<1> DEFINE Kept == \A s \in Scopes :
              file[s].state = "broken" /\ file'[s] # file[s] =>
                \/ changes' # changes
                \/ raced'[s]
                \/ \E p \in Processes : op[p].scope = s /\ missed[p].broken
<1>1. ASSUME IInv, [Next]_vars PROVE Kept
  <2>1. ASSUME NEW s \in Scopes, file[s].state = "broken", file'[s] # file[s],
               \A p \in Processes : op[p].scope = s => ~missed[p].broken
        PROVE  changes' # changes \/ raced'[s]
    <3>1. \A p \in Processes : op[p].scope \in Scopes
      BY <1>1 DEF IInv, Types, Operations
    <3>2. ASSUME NEW p \in Processes, op[p].scope = s
          PROVE  pc[p] # "write" /\ (pc[p] = "truncate" => ~op[p].found)
      BY <1>1, <2>1, <3>2 DEF IInv, Pending, PendingAt
    <3>3. ASSUME NEW p \in Processes, Withlock(p)
          PROVE  raced'[s]
      <4>1. ~Write(p)
        BY <1>1, <2>1, <3>1, <3>2 DEF IInv, Types, Write, Written
      <4>2. ~WriteFails(p)
        BY <1>1, <2>1, <3>1, <3>2 DEF IInv, Types, WriteFails
      <4>3. Truncate(p)
        BY <2>1, <3>3, <4>1, <4>2
           DEF Withlock, Start, Look, Lock, LockFails, Read
      <4>4. op[p].scope = s /\ ~op[p].found
        BY <1>1, <2>1, <3>1, <3>2, <4>3 DEF IInv, Types, Truncate
      <4> QED
        BY <1>1, <2>1, <4>3, <4>4 DEF IInv, Types, Truncate
    <3>4. ASSUME NEW p \in Processes, Crash(p)
          PROVE  FALSE
      BY <1>1, <2>1, <3>1, <3>2, <3>4 DEF IInv, Types, Crash
    <3>5. ASSUME NEW t \in Scopes, Edit(t)
          PROVE  changes' # changes
      BY <1>1, <3>5 DEF IInv, Types, Edit
    <3> QED
      BY <1>1, <2>1, <3>3, <3>4, <3>5
         DEF Next, Rest, Reload, Set, vars
  <2> QED
    BY <2>1
<1>2. IInv /\ [Next]_vars => [Kept]_vars
  BY <1>1
<1> QED
  BY <1>2, Inductive, PTL DEF Spec, BrokenIsKept

\* What a setter changed comes into the file or the process has recorded an
\* error for the scope, whatever the writes before it and the other
\* processes do (enqueueWrite, recordError, reload).
THEOREM SettingsAreSaved == Spec => []SetIsSaved
<1>1. Init => SInv
  BY InitSaved
<1>2. SInv /\ [Next]_vars => SInv'
  BY NextAccounts
<1>3. ASSUME SInv PROVE SetIsSaved
  <2>1. ASSUME NEW p \in Processes, NEW s \in Scopes, NEW f \in own[p][s],
               Idle(p), ~failed[p][s]
        PROVE  settings[p][s][f] \in saved[s]
    <3>1. ~Waits(p, s, f)
      BY <2>1 DEF Idle, Waits
    <3> QED
      BY <1>3, <2>1, <3>1 DEF SInv, Account, Accounted
  <2> QED
    BY <2>1 DEF SetIsSaved
<1> QED
  BY <1>1, <1>2, <1>3, PTL DEF Spec

\* However many processes set, write and reload, a field stays marked only
\* until its value is in the file (clearModifiedScope, reload).
THEOREM MarksGoWhenSaved == Spec => []MarksAreUnsaved
<1>1. Init => MInv
  <2>1. ASSUME Init
        PROVE  /\ \A p \in Processes, s \in Scopes : modified[p][s] = {}
               /\ \A p \in Processes : /\ writeQueue[p] = <<>> /\ op[p] = NoOp
                                       /\ reloading[p] = Scopes
               /\ \A s \in Scopes : saved[s] = {}
    BY <2>1 DEF Init, NoMemory
  <2>2. ASSUME Init, NEW p \in Processes, NEW s \in Scopes, NEW v
        PROVE  ~Has(p, s, v)
    <3>1. 1..Len(writeQueue[p]) = {}
      BY <2>1, <2>2
    <3> QED
      BY <2>1, <2>2, <3>1 DEF Has
  <2>3. ASSUME Init PROVE Bounded /\ Apart /\ MarksAreUnsaved /\ Reloads
    BY <2>1, <2>2, <2>3, NoOpType DEF Bounded, Apart, MarksAreUnsaved, Reloads
  <2> QED
    BY <2>3, InitSaved DEF MInv
<1>2. MInv /\ [Next]_vars => MInv'
  BY NextMarks
<1>3. MInv => MarksAreUnsaved
  BY DEF MInv
<1> QED
  BY <1>1, <1>2, <1>3, PTL DEF Spec
=============================================================================
