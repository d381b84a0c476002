--------------------------- MODULE SessionManager ---------------------------
(***************************************************************************)
(* The sessions of the applications                                        *)
(* (coding-agent/src/core/session-manager.ts, and the calls by which       *)
(* core/agent-session-runtime.ts replaces one session by another).         *)
(*                                                                         *)
(* A session is a tree of entries.  An append puts the entry in the memory *)
(* first and then in the file, which is created, whole, when the first     *)
(* answer is appended.  Every call is synchronous: what can come between   *)
(* are failures of the disk, which leave part of what was to be written    *)
(* and make the call throw, and the end of the process, which may leave    *)
(* part of it too.  A line that is not JSON is skipped by loading; a last  *)
(* line without its newline becomes one line with what is appended next.   *)
(*                                                                         *)
(* Entries that carry no message (model and thinking changes, names,       *)
(* custom data) are "setting", those that carry one of an extension or a   *)
(* bash execution "user".  A label is set or not.  Sessions that are not   *)
(* persisted do the same without the disk and are left out, as is the cwd. *)
(*                                                                         *)
(* A definition that nothing uses, just before another of the same         *)
(* parameters, is a faulty variant of it: what the properties must reject. *)
(***************************************************************************)
EXTENDS Naturals, Sequences, FiniteSets

CONSTANTS
  Plain,       \* the kinds of entries appended with nothing but a parent
  MaxEntries,  \* bound: entries appended or copied under a new id, together
               \* with the writes that failed
  MaxFiles,    \* bound: session files
  MaxMoves,    \* bound: moves of the leaf, summaries of them, and labels
  MaxFaults,   \* bound: writes that fail or end with the process
  OldLengths   \* how many entries a file of version 1 found at the start has

ASSUME SessionManagerBounds ==
  /\ {MaxEntries, MaxFiles, MaxMoves, MaxFaults} \subseteq Nat
  /\ MaxFiles # 0
  /\ OldLengths \subseteq Nat
  /\ Plain \subseteq {"user", "assistant", "setting"}

VARIABLES
  open,         \* a SessionManager is in use
  sessionFile,  \* the file it writes
  fileEntries,  \* its entries, without the header
  leafId,
  labels,       \* the keys of labelsById, in the order of insertion
  flushed,
  disk,         \* the session files
  drawn,        \* ids drawn
  named,        \* file names drawn
  acked,        \* for each file, the entries a call that returned put there
  tears,        \* for each file, the writes that left a part of a line
  beheaded,     \* files whose header was once left without its newline
  diverged,     \* a write of this session failed since it was opened
  moves, faults

memory  == <<open, sessionFile, fileEntries, leafId, labels, flushed>>
damage  == <<tears, beheaded, faults>>
history == <<acked, tears, beheaded, diverged>>
sessionsVars    == <<memory, disk, drawn, named, history, moves, faults>>

-----------------------------------------------------------------------------
(* Entries *)

Null == 0

Types == {"user", "assistant", "setting", "compaction", "branch_summary",
          "label", "session", "session_v1", "torn"}

\* ref is the first kept entry of a compaction or the target of a label.
Entry(id, type, parentId, ref, set) ==
  [id |-> id, type |-> type, parentId |-> parentId, ref |-> ref, set |-> set]

Entries == [id : Nat, type : Types, parentId : Nat, ref : Nat, set : BOOLEAN]

Header == Entry(Null, "session", Null, Null, FALSE)
OldHeader == Entry(Null, "session_v1", Null, Null, FALSE)
Torn == Entry(Null, "torn", Null, Null, FALSE)

IdsOf(s) == {s[i].id : i \in DOMAIN s}

\* The position of an entry, 0 when the parent is null or unknown.
Position(s, id) ==
  IF id \in IdsOf(s) THEN CHOOSE i \in DOMAIN s : s[i].id = id ELSE 0

\* The entries from the root to the one at a position (getBranch).
PathTo(s, id) ==
  LET path[i \in 0..Len(s)] ==
        IF i = 0 THEN <<>>
        ELSE Append(path[Position(s, s[i].parentId)], s[i])
  IN path[Position(s, id)]

\* The elements of a sequence at some of its positions, in order.
Picked(s, at) ==
  [n \in 1..Cardinality(at) |->
     s[CHOOSE i \in at : Cardinality({j \in at : j <= i}) = n]]

IsMessage(e) == e.type \in {"user", "assistant", "branch_summary"}

MessagesOf(s) == Picked(s, {i \in DOMAIN s : IsMessage(s[i])})

HasAssistant(s) == \E i \in DOMAIN s : s[i].type = "assistant"

FirstCompaction(path) ==
  LET at == {i \in DOMAIN path : path[i].type = "compaction"}
  IN IF at = {} THEN 0 ELSE CHOOSE i \in at : \A j \in at : i <= j

\* The index of the last compaction of a path, 0 without one.
LastCompaction(path) ==
  LET at == {i \in DOMAIN path : path[i].type = "compaction"}
  IN IF at = {} THEN 0 ELSE CHOOSE i \in at : \A j \in at : j <= i

\* The messages sent to the model.
ContextOf(path) ==
  LET c == LastCompaction(path)
      kept == IF c = 0 THEN 0 ELSE Position(SubSeq(path, 1, c - 1), path[c].ref)
  IN IF c = 0 THEN MessagesOf(path)
     ELSE <<path[c]>>
          \o (IF kept = 0 THEN <<>> ELSE MessagesOf(SubSeq(path, kept, c - 1)))
          \o MessagesOf(SubSeq(path, c + 1, Len(path)))

Context == ContextOf(PathTo(fileEntries, leafId))

Without(L, id) == Picked(L, {i \in DOMAIN L : L[i] # id})

LabelsAfter(L, e) ==
  IF e.type # "label" THEN L
  ELSE IF ~e.set THEN Without(L, e.ref)
  ELSE IF \E i \in DOMAIN L : L[i] = e.ref THEN L ELSE Append(L, e.ref)

LabelsOf(s) ==
  LET after[i \in 0..Len(s)] ==
        IF i = 0 THEN <<>> ELSE LabelsAfter(after[i - 1], s[i])
  IN after[Len(s)]

LastId(s) == IF s = <<>> THEN Null ELSE s[Len(s)].id

-----------------------------------------------------------------------------
(* Files *)

Absent == [there |-> FALSE, lines |-> <<>>, whole |-> TRUE]
Empty  == [there |-> TRUE, lines |-> <<>>, whole |-> TRUE]

\* What appending lines makes of a file.
Extended(f, lines) ==
  IF lines = <<>> THEN [f EXCEPT !.there = TRUE]
  ELSE [there |-> TRUE, whole |-> TRUE,
        lines |-> IF f.whole THEN f.lines \o lines
                  ELSE SubSeq(f.lines, 1, Len(f.lines) - 1) \o <<Torn>>
                       \o Tail(lines)]

\* What a write that ends early may leave: some of the lines, and perhaps
\* a part of the next one or all of it but the newline.
Partial(f, lines) ==
  UNION {LET g == Extended(f, SubSeq(lines, 1, k))
         IN {g} \union
            {[Extended(g, <<part>>) EXCEPT !.whole = FALSE] :
               part \in {Torn, lines[k + 1]}} :
         k \in 0..(Len(lines) - 1)}

\* loadEntriesFromFile: nothing, unless the first line is a header.
Loaded(f) ==
  LET read == Picked(f.lines, {i \in DOMAIN f.lines : f.lines[i] # Torn})
  IN IF read # <<>> /\ read[1].type \in {"session", "session_v1"}
       THEN read ELSE <<>>

\* migrateV1ToV2 on the entries below a header: ids in order, each entry
\* under the one before it, and the index of the first kept entry, which
\* counts the header, replaced by the id.
MigratedOffByOne(old) ==
  [i \in DOMAIN old |->
     [old[i] EXCEPT !.id = drawn + i,
                    !.parentId = IF i = 1 THEN Null ELSE drawn + i - 1,
                    !.ref = IF old[i].type = "compaction" /\ @ \in DOMAIN old
                              THEN drawn + @ + 1 ELSE Null]]

Migrated(old) ==
  [i \in DOMAIN old |->
     [old[i] EXCEPT !.id = drawn + i,
                    !.parentId = IF i = 1 THEN Null ELSE drawn + i - 1,
                    !.ref = IF old[i].type = "compaction" /\ @ \in DOMAIN old
                              THEN drawn + @ ELSE Null]]

\* A file of version 1 of n entries; a compaction keeps what follows the
\* first entry.
OldEntry(i, n) ==
  Entry(Null, CASE i = n /\ n > 2 -> "compaction" [] i % 2 = 1 -> "user"
              [] OTHER -> "assistant",
        Null, IF i = n /\ n > 2 THEN 2 ELSE Null, FALSE)

OldFile(n) ==
  IF n = 0 THEN Absent
  ELSE [there |-> TRUE, whole |-> TRUE,
        lines |-> <<OldHeader>> \o [i \in 1..n |-> OldEntry(i, n)]]

-----------------------------------------------------------------------------
SessionsTypeOK ==
  /\ open \in BOOLEAN /\ flushed \in BOOLEAN /\ diverged \in BOOLEAN
  /\ sessionFile \in 0..MaxFiles /\ named \in 0..MaxFiles
  /\ fileEntries \in Seq(Entries)
  /\ leafId \in 0..MaxEntries /\ drawn \in 0..MaxEntries
  /\ labels \in Seq(1..MaxEntries)
  /\ disk \in [1..MaxFiles ->
               [there : BOOLEAN, lines : Seq(Entries), whole : BOOLEAN]]
  /\ acked \in [1..MaxFiles -> SUBSET Entries]
  /\ tears \in [1..MaxFiles -> Nat]
  /\ beheaded \subseteq 1..MaxFiles
  /\ moves \in 0..MaxMoves /\ faults \in 0..MaxFaults

Forgotten ==
  /\ open' = FALSE /\ sessionFile' = 0 /\ fileEntries' = <<>>
  /\ leafId' = Null /\ labels' = <<>> /\ flushed' = FALSE
  /\ diverged' = FALSE

SessionsInit ==
  /\ open = FALSE /\ sessionFile = 0 /\ fileEntries = <<>>
  /\ leafId = Null /\ labels = <<>> /\ flushed = FALSE
  /\ \E n \in OldLengths :
       disk = [f \in 1..MaxFiles |-> IF f = 1 THEN OldFile(n) ELSE Absent]
  /\ named = 1 /\ drawn = 0
  /\ acked = [f \in 1..MaxFiles |-> {}]
  /\ tears = [f \in 1..MaxFiles |-> 0] /\ beheaded = {}
  /\ diverged = FALSE /\ moves = 0 /\ faults = 0

\* A SessionManager with these entries, written to this file.
Serving(f, s, saved) ==
  /\ open' = TRUE /\ sessionFile' = f /\ fileEntries' = s
  /\ leafId' = LastId(s) /\ labels' = LabelsOf(s) /\ flushed' = saved
  /\ diverged' = FALSE

-----------------------------------------------------------------------------
(* Writing *)

Written(f, base, lines) ==
  /\ disk' = [disk EXCEPT ![f] = Extended(base, lines)]
  /\ UNCHANGED damage

\* The write fails, or the process ends in the middle of it.
Broken(f, base, lines) ==
  /\ faults < MaxFaults /\ faults' = faults + 1
  /\ \E g \in Partial(base, lines) :
       /\ disk' = [disk EXCEPT ![f] = g]
       /\ tears' = [tears EXCEPT ![f] = IF g.whole THEN @ ELSE @ + 1]
       /\ beheaded' = IF g.lines = <<Header>> /\ ~g.whole
                        THEN beheaded \union {f} ELSE beheaded

\* A call that throws before the memory changed, or a process that ended.
ThrownOrEnded == UNCHANGED <<memory, diverged>> \/ Forgotten

LinesForLatest(s) ==
  IF flushed THEN <<s[Len(s)]>>
  ELSE IF HasAssistant(s) THEN <<Header, s[Len(s)]>> ELSE <<>>

LinesForAnswered(s) ==
  IF ~HasAssistant(s) THEN <<>>
  ELSE IF flushed THEN <<s[Len(s)]>> ELSE <<Header>> \o s

\* The lines _persist writes for the last of the entries s.
LinesFor(s) ==
  IF flushed THEN <<s[Len(s)]>>
  ELSE IF HasAssistant(s) THEN <<Header>> \o s ELSE <<>>

\* The file is created with "wx", which fails when it exists.
Exists(s) == ~flushed /\ HasAssistant(s) /\ disk[sessionFile].there

\* _appendEntry: the memory first.
InMemory(e) ==
  /\ fileEntries' = Append(fileEntries, e)
  /\ leafId' = e.id
  /\ UNCHANGED <<open, sessionFile>>

Saved(e) ==
  LET s == Append(fileEntries, e)
      lines == LinesFor(s)
  IN /\ ~Exists(s)
     /\ InMemory(e)
     /\ IF lines = <<>> THEN UNCHANGED <<disk, damage, flushed, acked>>
        ELSE /\ Written(sessionFile, disk[sessionFile], lines)
             /\ flushed' = TRUE
             /\ acked' = [acked EXCEPT ![sessionFile] =
                            @ \union IF flushed THEN {e}
                                     ELSE {s[i] : i \in DOMAIN s}]
     /\ labels' = LabelsAfter(labels, e)
     /\ UNCHANGED diverged

\* The append throws, with the entry in the memory; or the process ends.
NotSaved(e) ==
  LET s == Append(fileEntries, e)
  IN /\ LinesFor(s) # <<>>
     /\ \/ /\ Exists(s) /\ UNCHANGED <<disk, damage>>
        \/ /\ ~Exists(s)
           /\ Broken(sessionFile, disk[sessionFile], LinesFor(s))
     /\ \/ InMemory(e) /\ UNCHANGED <<labels, flushed>> /\ diverged' = TRUE
        \/ Forgotten
     /\ UNCHANGED acked

Appending(e) ==
  /\ open /\ drawn + faults < MaxEntries /\ drawn' = drawn + 1
  /\ Saved(e) \/ NotSaved(e)
  /\ UNCHANGED named

-----------------------------------------------------------------------------
(* Appends *)

NewEntry(type, parentId, ref, set) ==
  Entry(drawn + 1, type, parentId, ref, set)

AppendEntry ==
  /\ \E type \in Plain : Appending(NewEntry(type, leafId, Null, FALSE))
  /\ UNCHANGED moves

\* What compaction may keep from: nothing before what the last one kept.
KeepFrom ==
  LET path == PathTo(fileEntries, leafId)
      c == LastCompaction(path)
      kept == IF c = 0 THEN 1 ELSE Position(path, path[c].ref)
      start == IF kept = 0 THEN c + 1 ELSE kept
  IN IF path = <<>> \/ c = Len(path) THEN {}
     ELSE {path[i].id : i \in {j \in start..Len(path) :
                                path[j].type # "compaction"}}

AppendCompaction ==
  /\ \E ref \in KeepFrom :
       Appending(NewEntry("compaction", leafId, ref, FALSE))
  /\ UNCHANGED moves

Moving == moves < MaxMoves /\ moves' = moves + 1

AppendLabelChange ==
  /\ Moving
  /\ \E target \in IdsOf(fileEntries), set \in BOOLEAN :
       Appending(NewEntry("label", leafId, target, set))

BranchWithSummary ==
  /\ Moving
  /\ \E id \in IdsOf(fileEntries) \union {Null} :
       Appending(NewEntry("branch_summary", id, Null, FALSE))

\* branch and resetLeaf: nothing is written.
Branch ==
  /\ open /\ Moving
  /\ leafId' \in IdsOf(fileEntries) \union {Null}
  /\ UNCHANGED <<open, sessionFile, fileEntries, labels, flushed, disk, drawn,
                 named, history, faults>>

-----------------------------------------------------------------------------
(* Sessions *)

\* SessionManager.create and newSession: no file yet.
NewSession ==
  /\ named < MaxFiles /\ named' = named + 1
  /\ Serving(named + 1, <<>>, FALSE)
  /\ UNCHANGED <<disk, drawn, moves, acked, damage>>

\* Opens a path that does not exist: the file is made later.
OpenAbsent(f) ==
  /\ ~disk[f].there
  /\ Serving(f, <<>>, FALSE)
  /\ UNCHANGED <<disk, drawn, named, moves, acked, damage>>

\* Writes a header over a file that has none.
OpenInvalid(f) ==
  /\ disk[f].there /\ Loaded(disk[f]) = <<>>
  /\ \/ Written(f, Empty, <<Header>>) /\ Serving(f, <<>>, TRUE)
     \/ Broken(f, Empty, <<Header>>) /\ ThrownOrEnded
  /\ UNCHANGED <<drawn, named, moves, acked>>

\* Brings a file of version 1 up to date and writes it anew.
OpenOld(f) ==
  LET read == Loaded(disk[f])
      s == Migrated(Tail(read))
  IN /\ read # <<>> /\ read[1] = OldHeader
     /\ drawn + Len(s) <= MaxEntries /\ drawn' = drawn + Len(s)
     /\ \/ Written(f, Empty, <<Header>> \o s) /\ Serving(f, s, TRUE)
        \/ Broken(f, Empty, <<Header>> \o s) /\ ThrownOrEnded
     /\ UNCHANGED <<named, moves, acked>>

OpenCurrent(f) ==
  LET read == Loaded(disk[f])
  IN /\ read # <<>> /\ read[1] = Header
     /\ Serving(f, Tail(read), TRUE)
     /\ UNCHANGED <<disk, drawn, named, moves, acked, damage>>

\* The process starts with a session, or switches to it.
OpenSession ==
  \E f \in 1..named :
    OpenAbsent(f) \/ OpenInvalid(f) \/ OpenOld(f) \/ OpenCurrent(f)

\* The entries of a branched session: the path without its labels, and
\* below it a label entry for each entry of the path that has a label.
NoLabels(path) == Picked(path, {i \in DOMAIN path : path[i].type # "label"})

BranchedUnlabelled(s, id) == NoLabels(PathTo(s, id))

Branched(s, id) ==
  LET path == NoLabels(PathTo(s, id))
      set == LabelsOf(s)
      L == Picked(set, {i \in DOMAIN set : set[i] \in IdsOf(path)})
  IN path \o [i \in DOMAIN L |->
                Entry(drawn + i, "label",
                      IF i = 1 THEN LastId(path) ELSE drawn + i - 1,
                      L[i], TRUE)]

\* fork() reads the session's file anew and branches what it finds there;
\* without an answer on the path the file is not written yet.
Forked(id) ==
  LET read == Loaded(disk[sessionFile])
      s == Branched(Tail(read), id)
      new == named + 1
  IN /\ open /\ named < MaxFiles /\ named' = new
     /\ read # <<>> /\ id \in IdsOf(Tail(read))
     /\ drawn' = drawn + Cardinality({i \in DOMAIN s : s[i].id > drawn})
     /\ drawn' <= MaxEntries
     /\ IF HasAssistant(s)
          THEN \/ /\ Written(new, Absent, <<Header>> \o s)
                  /\ Serving(new, s, TRUE)
                  /\ acked' = [acked EXCEPT ![new] = {s[i] : i \in DOMAIN s}]
               \/ /\ Broken(new, Absent, <<Header>> \o s)
                  /\ ThrownOrEnded
                  /\ UNCHANGED acked
          ELSE Serving(new, s, FALSE) /\ UNCHANGED <<disk, acked, damage>>
     /\ UNCHANGED moves

Fork == \E id \in IdsOf(fileEntries) : Forked(id)

\* fork() on a file without a header writes one, and finds no entry.
ForkThrows ==
  /\ open /\ fileEntries # <<>>
  /\ disk[sessionFile].there /\ Loaded(disk[sessionFile]) = <<>>
  /\ \/ Written(sessionFile, Empty, <<Header>>) /\ UNCHANGED <<memory, diverged>>
     \/ Broken(sessionFile, Empty, <<Header>>) /\ ThrownOrEnded
  /\ UNCHANGED <<drawn, named, moves, acked>>

\* forkFrom copies another project's session line by line.
ForkFrom ==
  \E f \in 1..named :
    LET read == Loaded(disk[f])
        new == named + 1
    IN /\ ~open /\ named < MaxFiles /\ named' = new
       /\ read # <<>> /\ read[1] = Header
       /\ \/ Written(new, Absent, read) /\ Serving(new, Tail(read), TRUE)
          \/ Broken(new, Absent, read) /\ Forgotten
       /\ UNCHANGED <<drawn, moves, acked>>

\* The process ends between two calls.
EndProcess ==
  /\ open /\ Forgotten
  /\ UNCHANGED <<disk, drawn, named, moves, acked, damage>>

SessionsNext ==
  \/ AppendEntry \/ AppendCompaction \/ AppendLabelChange \/ BranchWithSummary
  \/ Branch
  \/ NewSession \/ OpenSession \/ Fork \/ ForkThrows \/ ForkFrom \/ EndProcess

SessionsSpec == SessionsInit /\ [][SessionsNext]_sessionsVars

-----------------------------------------------------------------------------
(* Properties *)

\* A file has one header, its first line, and no entry twice, whichever
\* way its lines came to be written (the comment on the duplicate header
\* in createBranchedSession).
OneHeader ==
  \A f \in 1..MaxFiles :
    LET read == Loaded(disk[f])
    IN \A i, j \in DOMAIN read :
         /\ i > 1 => read[i].type \notin {"session", "session_v1"}
         /\ read[1] = Header /\ read[i].id = read[j].id => i = j

\* A write that leaves a part of a line costs at most one entry whose call
\* returned, the next one to be appended, whatever is done with the
\* session afterwards; unless the line is the header, complete but for its
\* newline, which costs the session.
LossIsBounded ==
  \A f \in (1..MaxFiles) \ beheaded :
    LET read == Loaded(disk[f])
    IN Cardinality({e \in acked[f] : \A i \in DOMAIN read : read[i] # e})
         <= tears[f]

\* The file that an unsaved session is to be written to does not exist
\* yet, unless writing it failed: "wx" does not stop the session.
FreshFile ==
  open /\ ~flushed /\ disk[sessionFile].there =>
    diverged \/ faults > 0

\* What reopening the file gives is what the memory holds, but for the
\* leaf, unless a write failed (_persist against _buildIndex).
ReopenAgrees ==
  open /\ flushed /\ ~diverged /\ tears[sessionFile] = 0 =>
    /\ Loaded(disk[sessionFile]) = <<Header>> \o fileEntries
    /\ labels = LabelsOf(fileEntries)

\* The file can be read and written on, whatever failed in between, and holds
\* what the memory does.
FileIsSound == OneHeader /\ LossIsBounded /\ FreshFile /\ ReopenAgrees

\* No label is inside the path, and no compaction keeps from a label.
LabelsLast(path) ==
  /\ \A i, j \in DOMAIN path :
       i < j /\ path[i].type = "label" => path[j].type = "label"
  /\ \A i, j \in DOMAIN path :
       path[i].type = "compaction" /\ path[i].ref = path[j].id =>
         path[j].type # "label"

\* The context after a step.
NewContext == ContextOf(PathTo(fileEntries', leafId'))

KeepsContext(id) ==
  LET s == Tail(Loaded(disk[sessionFile]))
  IN /\ NewContext = ContextOf(PathTo(s, id))
     /\ {labels'[i] : i \in DOMAIN labels'} =
          {t \in {LabelsOf(s)[i] : i \in DOMAIN LabelsOf(s)} :
             t \in IdsOf(NoLabels(PathTo(s, id)))}

\* A fork sends the model what the session sent at the entry it was made
\* at, and keeps the labels of the path, when labels are only at the end.
ForkKeepsContext ==
  [][\A id \in IdsOf(fileEntries) :
       sessionFile' # sessionFile /\ open' /\ Forked(id)
         /\ LabelsLast(PathTo(Tail(Loaded(disk[sessionFile])), id))
       => KeepsContext(id)]_sessionsVars

\* A fork contains the path from the root to the entry it was made at
\* (the comment on createBranchedSession).
ForkKeepsPath ==
  [][\A id \in IdsOf(fileEntries) :
       sessionFile' # sessionFile /\ open' /\ Forked(id)
       => KeepsContext(id)]_sessionsVars

\* The new context is the summary and the last of the messages sent before.
TailKept ==
  LET old == MessagesOf(Context)
      e == fileEntries'[Len(fileEntries')]
      path == PathTo(fileEntries, leafId)
      kept == MessagesOf(SubSeq(path, Position(path, e.ref), Len(path)))
  IN /\ NewContext = <<e>> \o kept
     /\ \E k \in 0..Len(old) : kept = SubSeq(old, k + 1, Len(old))

\* A compaction takes nothing away but messages from the front: its
\* summary comes first, and every message from the first kept entry on,
\* also those an earlier compaction kept, is still sent, in order.
CompactionKeepsTail == [][AppendCompaction /\ open' => TailKept]_sessionsVars

\* The entries read are the path, and what the last compaction kept is the same.
PathKept(f) ==
  LET old == Tail(Loaded(disk[f]))
      path == PathTo(fileEntries', leafId')
      n == Len(old)
  IN /\ Len(path) = n
     /\ \A i \in 1..n : path[i].type = old[i].type
     /\ old[n].type = "compaction" =>
          NewContext = <<path[n]>> \o MessagesOf(SubSeq(path, old[n].ref, n - 1))

\* A session of version 1 is, once migrated, one path with its entries in
\* order, on which a compaction keeps what its index counted off.
MigrationKeepsContext ==
  [][\A f \in 1..named :
       open' /\ sessionFile' = f /\ leafId' # leafId /\ OpenOld(f)
       => PathKept(f)]_sessionsVars
=============================================================================
