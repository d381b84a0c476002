---------------------------- MODULE SessionTree ----------------------------
(***************************************************************************)
(* A session: an append-only tree of entries kept in memory and in a JSONL *)
(* file (agent/src/harness/session/session.ts and jsonl-storage.ts).       *)
(*                                                                         *)
(* An entry names its parent; the leaf is the entry the next one goes      *)
(* under.  Nothing locks the session: a call of append* asks for an id,    *)
(* then for the leaf, then writes a line, then updates the memory, with an *)
(* await after each, and another call may run during any of them.  moveTo  *)
(* writes an entry that redirects the leaf and then, perhaps, the summary  *)
(* of the branch that was left.  A write that fails and a crash may leave  *)
(* the start of a line in the file, or the line without its newline, which *)
(* the next line is then appended to.                                      *)
(*                                                                         *)
(* The in-memory storage is the same without the file: its appendEntry     *)
(* does at once what Write and Remember do here.  Messages, model changes, *)
(* compactions and the other entries the tree treats alike are "message".  *)
(* A label is set or not, its text is left out.  Checks that a target      *)
(* exists are made when the id is drawn, since entries never disappear.    *)
(*                                                                         *)
(* A definition that nothing uses, just before another of the same         *)
(* parameters, is a faulty variant of it: what the properties must reject. *)
(***************************************************************************)
EXTENDS Naturals, Sequences

CONSTANTS
  Writers,     \* calls that may be in progress at the same time
  MaxCalls,    \* bound: calls of append* and moveTo
  MaxWindows,  \* bound: stretches of time in which uuids start alike
  MaxFaults,   \* bound: writes that fail
  MaxCrashes   \* bound: crashes and orderly closings

ASSUME SessionBounds ==
  {MaxCalls, MaxWindows, MaxFaults, MaxCrashes} \subseteq Nat

VARIABLES
  phase,      \* "open", "closed", or "broken": open() threw
  file,       \* the lines after the header
  tail,       \* "cut" when the last line lacks its newline
  entries,    \* entries and byId
  leaf,       \* currentLeafId
  labels,     \* the keys of labelsById
  pc,         \* the await each call is suspended at
  draft,      \* the entry each call is building
  summarize,  \* TRUE when moveTo was given a summary
  window,     \* the current stretch of time
  fresh,      \* full uuids drawn so far
  acked,      \* entries whose call has returned
  calls, faults, crashes

memory == <<entries, leaf, labels>>
disk   == <<file, tail>>
ids    == <<window, fresh>>
bounds == <<calls, faults, crashes>>

vars == <<phase, memory, disk, pc, draft, summarize, ids, acked, bounds>>

-----------------------------------------------------------------------------
(* Entries *)

\* The first eight digits of a uuid, which count stretches of 65 seconds,
\* and a full uuid.
ShortId(w) == <<"short", w>>
FullId(n) == <<"full", n>>
Null == <<"null", 0>>

Entry(id, parent, kind, target, set) ==
  [id |-> id, parent |-> parent, kind |-> kind, target |-> target,
   set |-> set]

\* A line that is not JSON.
Torn == Entry(Null, Null, "torn", Null, FALSE)

IdsUpTo(w, n) == {ShortId(v) : v \in 1..w} \union {FullId(m) : m \in 1..n}
Ids == {"short", "full"} \X Nat
Kinds == {"message", "label", "leaf", "branch_summary", "torn"}
Entries == [id : Ids \union {Null}, parent : Ids \union {Null}, kind : Kinds,
            target : Ids \union {Null}, set : BOOLEAN]

Known == {entries[i].id : i \in 1..Len(entries)}

LeafAfter(e) == IF e.kind = "leaf" THEN e.target ELSE e.id

LabelsAfter(L, e) ==
  IF e.kind # "label" THEN L
  ELSE IF e.set THEN L \union {e.target} ELSE L \ {e.target}

-----------------------------------------------------------------------------
(* The file *)

\* Appending to a line that lacks its newline makes one line of two.
LinesWith(line) ==
  IF tail = "whole" THEN Append(file, line)
  ELSE [file EXCEPT ![Len(file)] = Torn]

\* What a write that does not finish leaves behind.
Damaged(e) ==
  \/ UNCHANGED disk
  \/ \E line \in {Torn, e} : file' = LinesWith(line) /\ tail' = "cut"

Loadable == \A i \in 1..Len(file) : file[i] # Torn

\* What loading finds.
LastId(s) == IF s = <<>> THEN Null ELSE s[Len(s)].id

LeafOf(s) == IF s = <<>> THEN Null ELSE LeafAfter(s[Len(s)])

LabelsOf(s) ==
  {s[i].target : i \in
    {j \in 1..Len(s) :
       /\ s[j].kind = "label" /\ s[j].set
       /\ \A k \in (j + 1)..Len(s) :
            ~(s[k].kind = "label" /\ s[k].target = s[j].target)}}

-----------------------------------------------------------------------------
TypeOK ==
  /\ phase \in {"open", "closed", "broken"}
  /\ file \in Seq(Entries)
  /\ tail \in {"whole", "cut"}
  /\ tail = "cut" => file # <<>>
  /\ entries \in Seq(Entries)
  /\ leaf \in Ids \union {Null}
  /\ labels \subseteq Ids \union {Null}
  /\ pc \in [Writers -> {"idle", "leaf", "write", "written", "summary"}]
  /\ draft \in [Writers -> Entries]
  /\ summarize \in [Writers -> BOOLEAN]
  /\ window \in Nat /\ fresh \in Nat
  /\ acked \subseteq Entries
  /\ calls \in Nat /\ faults \in Nat /\ crashes \in Nat

Init ==
  /\ phase = "open"
  /\ file = <<>> /\ tail = "whole"
  /\ entries = <<>> /\ leaf = Null /\ labels = {}
  /\ pc = [w \in Writers |-> "idle"]
  /\ draft = [w \in Writers |-> Torn]
  /\ summarize = [w \in Writers |-> FALSE]
  /\ window = 1 /\ fresh = 0
  /\ acked = {}
  /\ calls = 0 /\ faults = 0 /\ crashes = 0

-----------------------------------------------------------------------------
(* Calls *)

NewIdUnchecked == ShortId(window)

\* generateEntryId: a hundred tries begin with the same eight digits, unless
\* the time moves on meanwhile.
NewId ==
  IF ShortId(window) \notin Known THEN ShortId(window) ELSE FullId(fresh + 1)

Build(w, e) ==
  /\ draft' = [draft EXCEPT ![w] = e]
  /\ fresh' = fresh + 1
  /\ UNCHANGED window

At(w, place) == pc' = [pc EXCEPT ![w] = place]

\* The call returns or throws; its locals are gone.
Return(w) ==
  /\ At(w, "idle")
  /\ draft' = [draft EXCEPT ![w] = Torn]
  /\ summarize' = [summarize EXCEPT ![w] = FALSE]

Begin(w) ==
  /\ phase = "open" /\ pc[w] = "idle"
  /\ calls < MaxCalls
  /\ calls' = calls + 1
  /\ UNCHANGED <<phase, memory, disk, acked, faults, crashes>>

\* appendMessage and the others that differ in what the entry carries
AppendEntry(w) ==
  /\ Begin(w)
  /\ Build(w, Entry(NewId, Null, "message", Null, FALSE))
  /\ At(w, "leaf")
  /\ UNCHANGED summarize

AppendLabel(w) ==
  /\ Begin(w)
  /\ \E target \in Known, set \in BOOLEAN :
       Build(w, Entry(NewId, Null, "label", target, set))
  /\ At(w, "leaf")
  /\ UNCHANGED summarize

\* The leaf becomes the parent; getLeafId rejects a leaf that is no entry.
ReadLeaf(w) ==
  /\ pc[w] = "leaf"
  /\ IF leaf \in Known \union {Null}
       THEN /\ draft' = [draft EXCEPT ![w].parent = leaf]
            /\ At(w, "write") /\ UNCHANGED summarize
       ELSE Return(w)
  /\ UNCHANGED <<phase, memory, disk, ids, acked, bounds>>

\* moveTo and setLeafId reject a target that is no entry.
MoveTargets == Known \union {Null}

MoveTo(w) ==
  /\ Begin(w)
  /\ \E target \in MoveTargets :
       Build(w, Entry(NewId, leaf, "leaf", target, FALSE))
  /\ \E s \in BOOLEAN : summarize' = [summarize EXCEPT ![w] = s]
  /\ At(w, "write")

\* The summary goes under the entry moved to, whatever the leaf is by now.
BeginSummary(w) ==
  /\ pc[w] = "summary"
  /\ Build(w, Entry(NewId, draft[w].target, "branch_summary", Null, FALSE))
  /\ At(w, "write")
  /\ UNCHANGED <<phase, memory, disk, summarize, acked, bounds>>

Write(w) ==
  /\ pc[w] = "write"
  /\ file' = LinesWith(draft[w]) /\ tail' = "whole"
  /\ At(w, "written")
  /\ UNCHANGED <<phase, memory, draft, summarize, ids, acked, bounds>>

\* The memory follows only a write that succeeded.
Remember(w) ==
  /\ pc[w] = "written"
  /\ entries' = Append(entries, draft[w])
  /\ leaf' = LeafAfter(draft[w])
  /\ labels' = LabelsAfter(labels, draft[w])
  /\ acked' = acked \union {draft[w]}
  /\ IF draft[w].kind = "leaf" /\ summarize[w]
       THEN At(w, "summary") /\ UNCHANGED <<draft, summarize>>
       ELSE Return(w)
  /\ UNCHANGED <<phase, disk, ids, bounds>>

WriteFailsUnnoticed(w) ==
  /\ pc[w] = "write"
  /\ faults < MaxFaults /\ faults' = faults + 1
  /\ Damaged(draft[w])
  /\ At(w, "written")
  /\ UNCHANGED <<phase, memory, draft, summarize, ids, acked, calls, crashes>>

\* appendFile fails: the call throws and the memory stays as it was.
WriteFails(w) ==
  /\ pc[w] = "write"
  /\ faults < MaxFaults /\ faults' = faults + 1
  /\ Damaged(draft[w])
  /\ Return(w)
  /\ UNCHANGED <<phase, memory, ids, acked, calls, crashes>>

-----------------------------------------------------------------------------
(* The process and the time *)

Forget ==
  /\ entries' = <<>> /\ leaf' = Null /\ labels' = {}
  /\ pc' = [w \in Writers |-> "idle"]
  /\ draft' = [w \in Writers |-> Torn]
  /\ summarize' = [w \in Writers |-> FALSE]

\* The process ends, perhaps in the middle of a write.
Crash ==
  /\ phase = "open"
  /\ crashes < MaxCrashes /\ crashes' = crashes + 1
  /\ phase' = "closed"
  /\ \/ UNCHANGED disk
     \/ \E w \in Writers : pc[w] = "write" /\ Damaged(draft[w])
  /\ Forget
  /\ UNCHANGED <<ids, acked, calls, faults>>

Open ==
  /\ phase = "closed" /\ Loadable
  /\ phase' = "open"
  /\ entries' = file /\ leaf' = LeafOf(file) /\ labels' = LabelsOf(file)
  /\ UNCHANGED <<disk, pc, draft, summarize, ids, acked, bounds>>

\* A line that is not JSON makes open() throw.
OpenThrows ==
  /\ phase = "closed" /\ ~Loadable
  /\ phase' = "broken"
  /\ UNCHANGED <<memory, disk, pc, draft, summarize, ids, acked, bounds>>

Tick ==
  /\ window < MaxWindows /\ window' = window + 1
  /\ UNCHANGED <<phase, memory, disk, pc, draft, summarize, fresh, acked,
                 bounds>>

Step(w) ==
  \/ AppendEntry(w) \/ AppendLabel(w) \/ ReadLeaf(w)
  \/ MoveTo(w) \/ BeginSummary(w)
  \/ Write(w) \/ Remember(w) \/ WriteFails(w)

Next == (\E w \in Writers : Step(w)) \/ Crash \/ Open \/ OpenThrows \/ Tick

Spec == Init /\ [][Next]_vars

-----------------------------------------------------------------------------
(* Properties *)

\* No two entries of a session have the same id, although an id is drawn
\* from a clock that stands still and is checked one await before the entry
\* is there (generateEntryId).
UniqueIds ==
  \A i, j \in 1..Len(entries) : entries[i].id = entries[j].id => i = j

\* The parent of an entry is an earlier entry, also after moves, failures
\* and restarts: the walk of getPathToRoot ends.
PathsEnd ==
  \A i \in 1..Len(entries) :
    \/ entries[i].parent = Null
    \/ \E j \in 1..(i - 1) : entries[j].id = entries[i].parent

\* The entries are a tree: ids name one entry and walks to the root end.
TreeIsSound == UniqueIds /\ PathsEnd

Quiet == \A w \in Writers : pc[w] = "idle"

\* Between calls the memory is what loading the file would give, unless a
\* failed write damaged the file (loadJsonlStorage against appendEntry and
\* setLeafId).
ReopenAgrees ==
  phase = "open" /\ Quiet /\ Loadable /\ tail = "whole" =>
    <<entries, leaf, labels>> = <<file, LeafOf(file), LabelsOf(file)>>

\* An entry whose call returned is there as long as the session can be
\* opened, whatever failed or crashed since.
AckedSurvives ==
  phase = "open" => \A e \in acked : \E i \in 1..Len(entries) : entries[i] = e

\* The session is what its file holds, and the file holds what was appended.
FileKeepsSession == ReopenAgrees /\ AckedSurvives
=============================================================================
