------------------------- MODULE FileMutationQueue -------------------------
(***************************************************************************)
(* withFileMutationQueue: the edit and write tools run one after the other *)
(* on the same file (coding-agent/src/core/tools/file-mutation-queue.ts).  *)
(*                                                                         *)
(* A call first joins one registration chain, whose links run one at a     *)
(* time: a link asks the file system for the real path (an await), then    *)
(* puts itself at the tail of the queue of that key.  After registration a *)
(* call waits for the tail it replaced, runs its mutation, and releases    *)
(* its successor.  The chained promise of a call resolves exactly when the *)
(* call has released it, since it is released only after what it waits for.*)
(*                                                                         *)
(* A file is known by its real path.  A path that is not its own real path *)
(* goes through a symbolic link.  A file may appear or disappear at any    *)
(* time: the mutations themselves create files.                            *)
(*                                                                         *)
(* A definition that nothing uses, just before another of the same         *)
(* parameters, is a faulty variant of it: what the properties must reject. *)
(***************************************************************************)
EXTENDS Naturals, Sequences, FiniteSets

CONSTANTS
  Ops,         \* calls of withFileMutationQueue
  Paths,       \* resolved paths
  Real,        \* the real path a path leads to
  NoOp,        \* no call
  MaxChanges   \* bound: files that appear or disappear by themselves

ASSUME PathsAssumption ==
  /\ Real \in [Paths -> Paths]
  /\ \A p \in Paths : Real[Real[p]] = Real[p]
ASSUME OpsAssumption == NoOp \notin Ops
ASSUME ChangesAssumption == MaxChanges \in Nat

VARIABLES
  path,     \* filePath of each call
  pc,       \* where each call is suspended
  chain,    \* registrations that have not finished, oldest first
  key,      \* mutation queue key of each call
  before,   \* the call whose chainedQueue is currentQueue
  queues,   \* fileMutationQueues: the call whose chainedQueue is the entry
  exists,   \* real paths of the files that exist
  order,    \* calls that were registered, in order
  changes

mutationsVars == <<path, pc, chain, key, before, queues, exists, order, changes>>

\* calling:    waiting for its turn in the registration chain
\* resolving:  realpath is pending
\* resolved:   realpath has answered
\* registered: waiting for the calls before it
\* running:    the mutation is in progress
\* done:       returned or threw; failed: realpath threw
States == {"new", "calling", "resolving", "resolved", "registered", "running",
           "done", "failed"}

Files == {Real[p] : p \in Paths}
Registering == {"calling", "resolving", "resolved"}
InQueue == {"registered", "running"}

MutationsTypeOK ==
  /\ path \in [Ops -> Paths]
  /\ pc \in [Ops -> States]
  /\ chain \in Seq(Ops)
  /\ key \in [Ops -> Paths]
  /\ before \in [Ops -> Ops \union {NoOp}]
  /\ queues \in [Paths -> Ops \union {NoOp}]
  /\ exists \subseteq Paths
  /\ order \in Seq(Ops)
  /\ changes \in Nat

MutationsInit ==
  /\ path \in [Ops -> Paths]
  /\ pc = [o \in Ops |-> "new"]
  /\ chain = <<>>
  /\ key = path
  /\ before = [o \in Ops |-> NoOp]
  /\ queues = [p \in Paths |-> NoOp]
  /\ exists \in SUBSET Files
  /\ order = <<>>
  /\ changes = 0

Moved(o, from, to) ==
  /\ pc[o] = from
  /\ pc' = [pc EXCEPT ![o] = to]

\* withFileMutationQueue is called: its registration joins the chain.
Call(o) ==
  /\ Moved(o, "new", "calling")
  /\ chain' = Append(chain, o)
  /\ UNCHANGED <<path, key, before, queues, exists, order, changes>>

\* The registration is started when the ones before it have settled.
CallsRealpath(o) ==
  /\ chain # <<>>
  /\ o = Head(chain)
  /\ Moved(o, "calling", "resolving")
  /\ UNCHANGED <<path, chain, key, before, queues, exists, order, changes>>

\* realpath answers; a missing path stands for itself.
Resolved(p) == IF Real[p] \in exists THEN Real[p] ELSE p

RealpathAnswers(o) ==
  /\ Moved(o, "resolving", "resolved")
  /\ key' = [key EXCEPT ![o] = Resolved(path[o])]
  /\ UNCHANGED <<path, chain, before, queues, exists, order, changes>>

\* realpath throws another error than ENOENT: the call rejects, the chain
\* goes on.
RealpathThrowsChainBroken(o) ==
  /\ Moved(o, "resolving", "failed")
  /\ UNCHANGED <<path, chain, key, before, queues, exists, order, changes>>

RealpathThrows(o) ==
  /\ Moved(o, "resolving", "failed")
  /\ chain' = Tail(chain)
  /\ UNCHANGED <<path, key, before, queues, exists, order, changes>>

\* The rest of the registration: the call becomes the tail of its queue.
RegisterUnqueued(o) ==
  /\ Moved(o, "resolved", "registered")
  /\ before' = [before EXCEPT ![o] = NoOp]
  /\ queues' = [queues EXCEPT ![key[o]] = o]
  /\ order' = Append(order, o)
  /\ chain' = Tail(chain)
  /\ UNCHANGED <<path, key, exists, changes>>

Register(o) ==
  /\ Moved(o, "resolved", "registered")
  /\ before' = [before EXCEPT ![o] = queues[key[o]]]
  /\ queues' = [queues EXCEPT ![key[o]] = o]
  /\ order' = Append(order, o)
  /\ chain' = Tail(chain)
  /\ UNCHANGED <<path, key, exists, changes>>

\* currentQueue has resolved: the mutation starts.
Ready(o) == before[o] # NoOp => pc[before[o]] = "done"

Start(o) ==
  /\ Ready(o)
  /\ Moved(o, "registered", "running")
  /\ UNCHANGED <<path, chain, key, before, queues, exists, order, changes>>

\* The mutation of a running call creates its file.
Create(o) ==
  /\ pc[o] = "running"
  /\ exists' = exists \union {Real[path[o]]}
  /\ UNCHANGED <<path, pc, chain, key, before, queues, order, changes>>

\* The mutation returns or throws; the entry goes if the call is the tail.
FinishKeepsEntry(o) ==
  /\ Moved(o, "running", "done")
  /\ UNCHANGED <<path, chain, key, before, queues, exists, order, changes>>

Finish(o) ==
  /\ Moved(o, "running", "done")
  /\ queues' = IF queues[key[o]] = o THEN [queues EXCEPT ![key[o]] = NoOp]
                                     ELSE queues
  /\ UNCHANGED <<path, chain, key, before, exists, order, changes>>

\* Another program creates or removes a file.
FileChanges ==
  /\ changes < MaxChanges
  /\ changes' = changes + 1
  /\ \E f \in Files :
       exists' = IF f \in exists THEN exists \ {f} ELSE exists \union {f}
  /\ UNCHANGED <<path, pc, chain, key, before, queues, order>>

Step(o) ==
  \/ CallsRealpath(o) \/ RealpathAnswers(o) \/ RealpathThrows(o)
  \/ Register(o) \/ Start(o) \/ Finish(o)

MutationsNext ==
  \/ \E o \in Ops : Call(o) \/ Step(o) \/ Create(o)
  \/ FileChanges

MutationsSpec == MutationsInit /\ [][MutationsNext]_mutationsVars

\* The file system answers, mutations end, and so do their awaits.
MutationsFairSpec == MutationsSpec /\ \A o \in Ops : WF_mutationsVars(Step(o))

-----------------------------------------------------------------------------
(* Properties *)

\* Mutations of the same key never overlap, whatever the order in which calls
\* are made, resolved, rejected and finished.
KeyExclusion ==
  \A o, p \in Ops :
    pc[o] = "running" /\ pc[p] = "running" /\ key[o] = key[p] => o = p

\* A queue has an entry exactly while it has an unfinished call, and the entry
\* is the newest: no call can slip past the others, and nothing leaks.
TailIsNewest ==
  \A k \in Paths :
    LET queued == {i \in 1..Len(order) :
                     key[order[i]] = k /\ pc[order[i]] \in InQueue}
    IN  IF queued = {} THEN queues[k] = NoOp
        ELSE \E i \in queued :
               queues[k] = order[i] /\ \A j \in queued : j <= i

\* Mutations of the same key start in the order of their registration.
FirstComeFirstServed ==
  \A i, j \in 1..Len(order) :
    /\ i < j
    /\ key[order[i]] = key[order[j]]
    /\ pc[order[j]] \in {"running", "done"}
    => pc[order[i]] = "done"

\* Every call ends, also when the registration of another one rejects.
CallsEnd == \A o \in Ops : pc[o] # "new" ~> pc[o] \in {"done", "failed"}
=============================================================================
