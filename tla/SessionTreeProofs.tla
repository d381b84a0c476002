------------------------- MODULE SessionTreeProofs -------------------------
(***************************************************************************)
(* Theorems about SessionTree, for any number of calls, faults, crashes    *)
(* and stretches of time.                                                  *)
(*                                                                         *)
(* AckedSurvives holds for any number of concurrent calls: an entry that   *)
(* was acknowledged is in the file or the file cannot be loaded, and a     *)
(* file that cannot be loaded stays so.  The others hold when one call     *)
(* runs at a time.  Then a draft stays what it was made for until it is    *)
(* remembered (its id new, its parent the leaf), and a file that can be    *)
(* loaded and whose last line is complete is the memory, plus the draft    *)
(* that was written but not yet remembered.                                *)
(***************************************************************************)
EXTENDS SessionTree, TLAPS

\* One call at a time.
SerialWriters == \A v, w \in Writers : v = w

LEMMA EntryType ==
  ASSUME NEW id \in Ids \union {Null}, NEW parent \in Ids \union {Null},
         NEW kind \in Kinds, NEW target \in Ids \union {Null},
         NEW set \in BOOLEAN
  PROVE  Entry(id, parent, kind, target, set) \in Entries
BY DEF Entry, Entries

LEMMA IdTypes ==
  /\ \A n \in Nat : ShortId(n) \in Ids /\ FullId(n) \in Ids
  /\ \A n \in Nat : ShortId(n) # Null /\ FullId(n) # Null
  /\ \A m, n \in Nat : ShortId(m) # FullId(n)
  /\ \A m, n \in Nat : FullId(m) = FullId(n) => m = n
BY DEF ShortId, FullId, Ids, Null

LEMMA KindTypes ==
  /\ {"message", "label", "leaf", "branch_summary", "torn"} \subseteq Kinds
  /\ Torn \in Entries
<1>1. {"message", "label", "leaf", "branch_summary", "torn"} \subseteq Kinds
  BY DEF Kinds
<1>. QED  BY <1>1, EntryType DEF Torn

LEMMA EntryFields ==
  \A e \in Entries : /\ {e.id, e.parent, e.target} \subseteq Ids \union {Null}
                     /\ e.kind \in Kinds /\ e.set \in BOOLEAN
BY DEF Entries

LEMMA FoundTypes ==
  ASSUME NEW s \in Seq(Entries)
  PROVE  /\ LeafOf(s) \in Ids \union {Null}
         /\ LabelsOf(s) \subseteq Ids \union {Null}
         /\ {s[i].id : i \in 1..Len(s)} \subseteq Ids \union {Null}
<1>1. \A i \in 1..Len(s) : s[i] \in Entries
  OBVIOUS
<1>2. \A i \in 1..Len(s) : {s[i].id, s[i].target} \subseteq Ids \union {Null}
  BY <1>1, EntryFields
<1>3. s # <<>> => Len(s) \in 1..Len(s)
  OBVIOUS
<1>4. LeafOf(s) \in Ids \union {Null}
  BY <1>2, <1>3 DEF LeafOf, LeafAfter
<1>5. LabelsOf(s) \subseteq Ids \union {Null}
  BY <1>2 DEF LabelsOf
<1>. QED  BY <1>2, <1>4, <1>5

LEMMA NewIdType ==
  ASSUME TypeOK
  PROVE  NewId \in Ids /\ Known \subseteq Ids \union {Null}
<1>1. window \in Nat /\ fresh + 1 \in Nat /\ entries \in Seq(Entries)
  BY DEF TypeOK
<1>2. NewId \in Ids
  BY <1>1, IdTypes DEF NewId
<1>3. Known \subseteq Ids \union {Null}
  BY <1>1, FoundTypes DEF Known
<1>. QED  BY <1>2, <1>3

LEMMA TypeStep ==
  ASSUME TypeOK, [Next]_vars
  PROVE  TypeOK'
<1>. USE DEF TypeOK, memory, disk, ids, bounds
<1>e. /\ Torn \in Entries /\ Null \in Ids \union {Null}
      /\ NewId \in Ids /\ Known \subseteq Ids \union {Null}
  BY NewIdType, KindTypes
<1>d. \A e \in Entries : LeafAfter(e) \in Ids \union {Null}
  BY EntryFields DEF LeafAfter
<1>f. \A line \in Entries : LinesWith(line) \in Seq(Entries)
                              /\ LinesWith(line) # <<>>
  <2>1. SUFFICES ASSUME NEW line \in Entries
                 PROVE  LinesWith(line) \in Seq(Entries)
                          /\ LinesWith(line) # <<>>
    OBVIOUS
  <2>2. CASE tail = "whole"
    BY <2>2 DEF LinesWith
  <2>3. CASE tail = "cut"
    <3>1. Len(file) \in 1..Len(file)
      BY <2>3
    <3>. QED  BY <1>e, <2>3, <3>1 DEF LinesWith
  <2>. QED  BY <2>2, <2>3
<1>1. CASE UNCHANGED vars
  BY <1>1 DEF vars
<1>b. ASSUME NEW w \in Writers, NEW e \in Entries, Build(w, e)
      PROVE  draft' \in [Writers -> Entries] /\ window' \in Nat /\ fresh' \in Nat
  BY <1>b DEF Build
<1>r. ASSUME NEW w \in Writers, Return(w)
      PROVE  /\ draft' \in [Writers -> Entries]
             /\ summarize' \in [Writers -> BOOLEAN]
             /\ pc' \in [Writers -> {"idle", "leaf", "write", "written",
                                     "summary"}]
  BY <1>r, <1>e DEF Return, At
<1>g. ASSUME NEW e \in Entries, Damaged(e)
      PROVE  file' \in Seq(Entries) /\ tail' \in {"whole", "cut"}
               /\ (tail' = "cut" => file' # <<>>)
  BY <1>g, <1>e, <1>f DEF Damaged
<1>2. ASSUME NEW w \in Writers, Step(w)
      PROVE  TypeOK'
  <2>1. CASE AppendEntry(w)
    <3>1. Entry(NewId, Null, "message", Null, FALSE) \in Entries
      BY <1>e, EntryType, KindTypes
    <3>2. draft' \in [Writers -> Entries] /\ window' \in Nat /\ fresh' \in Nat
      BY <2>1, <3>1, <1>b DEF AppendEntry
    <3>3. Begin(w) /\ At(w, "leaf") /\ UNCHANGED summarize
      BY <2>1 DEF AppendEntry
    <3>. QED  BY <3>2, <3>3 DEF Begin, At
  <2>2. CASE AppendLabel(w)
    <3>1. \A t \in Known, s \in BOOLEAN :
            Entry(NewId, Null, "label", t, s) \in Entries
      BY <1>e, EntryType, KindTypes
    <3>2. draft' \in [Writers -> Entries] /\ window' \in Nat /\ fresh' \in Nat
      BY <2>2, <3>1, <1>b DEF AppendLabel
    <3>3. Begin(w) /\ At(w, "leaf") /\ UNCHANGED summarize
      BY <2>2 DEF AppendLabel
    <3>. QED  BY <3>2, <3>3 DEF Begin, At
  <2>3. CASE ReadLeaf(w)
    <3>1. CASE leaf \in Known \union {Null}
      <4>0. [draft[w] EXCEPT !.parent = leaf] \in Entries
        BY DEF Entries
      <4>1. draft' \in [Writers -> Entries]
        BY <2>3, <3>1, <4>0 DEF ReadLeaf
      <4>. QED  BY <2>3, <3>1, <4>1 DEF ReadLeaf, At
    <3>2. CASE ~(leaf \in Known \union {Null})
      BY <2>3, <3>2, <1>r DEF ReadLeaf
    <3>. QED  BY <3>1, <3>2
  <2>4. CASE MoveTo(w)
    <3>1. \A t \in MoveTargets : Entry(NewId, leaf, "leaf", t, FALSE) \in Entries
      BY <1>e, EntryType, KindTypes DEF MoveTargets
    <3>2. draft' \in [Writers -> Entries] /\ window' \in Nat /\ fresh' \in Nat
      BY <2>4, <3>1, <1>b DEF MoveTo
    <3>3. Begin(w) /\ At(w, "write")
            /\ summarize' \in [Writers -> BOOLEAN]
      BY <2>4 DEF MoveTo
    <3>. QED  BY <3>2, <3>3 DEF Begin, At
  <2>5. CASE BeginSummary(w)
    <3>0. draft[w].target \in Ids \union {Null}
      BY EntryFields
    <3>1. Entry(NewId, draft[w].target, "branch_summary", Null, FALSE)
            \in Entries
      BY <3>0, <1>e, EntryType, KindTypes
    <3>2. draft' \in [Writers -> Entries] /\ window' \in Nat /\ fresh' \in Nat
      BY <2>5, <3>1, <1>b DEF BeginSummary
    <3>3. /\ At(w, "write")
          /\ UNCHANGED <<phase, memory, disk, summarize, acked, bounds>>
      BY <2>5 DEF BeginSummary
    <3>. QED  BY <3>2, <3>3 DEF At
  <2>6. CASE Write(w)
    BY <2>6, <1>f DEF Write, At
  <2>7. CASE Remember(w)
    <3>1. draft[w] \in Entries
      OBVIOUS
    <3>2. entries' \in Seq(Entries) /\ leaf' \in Ids \union {Null}
            /\ acked' \subseteq Entries
      BY <2>7, <3>1, <1>d DEF Remember
    <3>3. labels' \subseteq Ids \union {Null}
      BY <2>7, <3>1, EntryFields DEF Remember, LabelsAfter
    <3>4. /\ draft' \in [Writers -> Entries]
          /\ summarize' \in [Writers -> BOOLEAN]
          /\ pc' \in [Writers -> {"idle", "leaf", "write", "written",
                                  "summary"}]
      BY <2>7, <1>r DEF Remember, At
    <3>. QED  BY <2>7, <3>2, <3>3, <3>4 DEF Remember
  <2>8. CASE WriteFails(w)
    BY <2>8, <1>g, <1>r DEF WriteFails
  <2>. QED  BY <1>2, <2>1, <2>2, <2>3, <2>4, <2>5, <2>6, <2>7, <2>8 DEF Step
<1>3. CASE Crash
  <2>1. /\ file' \in Seq(Entries) /\ tail' \in {"whole", "cut"}
        /\ (tail' = "cut" => file' # <<>>)
    BY <1>3, <1>g DEF Crash
  <2>. QED  BY <1>3, <1>e, <2>1 DEF Crash, Forget
<1>4. CASE Open
  <2>. QED  BY <1>4, FoundTypes DEF Open
<1>5. CASE OpenThrows
  BY <1>5 DEF OpenThrows
<1>6. CASE Tick
  BY <1>6 DEF Tick
<1>. QED  BY <1>1, <1>2, <1>3, <1>4, <1>5, <1>6 DEF Next

\* Every variable keeps its type.
THEOREM TypeCorrect == Spec => []TypeOK
<1>1. Init => TypeOK
  BY KindTypes DEF Init, TypeOK
<1>2. TypeOK /\ [Next]_vars => TypeOK'
  BY TypeStep
<1>. QED  BY <1>1, <1>2, PTL DEF Spec

-----------------------------------------------------------------------------
(* What a write does to a file that can be loaded *)

LEMMA LinesKept ==
  ASSUME TypeOK, NEW line \in Entries, file' = LinesWith(line), Loadable'
  PROVE  /\ Loadable /\ tail = "whole" /\ file' = Append(file, line)
         /\ line # Torn
<1>0. file \in Seq(Entries) /\ Torn \in Entries
  BY KindTypes DEF TypeOK
<1>1. tail = "whole"
  <2>1. SUFFICES ASSUME tail = "cut"  PROVE FALSE
    BY DEF TypeOK
  <2>2. Len(file) \in 1..Len(file)
    BY <2>1 DEF TypeOK
  <2>3. file' = [file EXCEPT ![Len(file)] = Torn]
    BY <2>1 DEF LinesWith
  <2>4. Len(file') = Len(file) /\ file'[Len(file)] = Torn
    BY <1>0, <2>2, <2>3
  <2>. QED  BY <2>2, <2>4 DEF Loadable
<1>2. file' = Append(file, line)
  BY <1>1 DEF LinesWith
<1>3. /\ Len(file') = Len(file) + 1
      /\ file'[Len(file) + 1] = line
      /\ \A i \in 1..Len(file) : file'[i] = file[i] /\ i \in 1..Len(file')
  BY <1>0, <1>2
<1>4. Len(file) + 1 \in 1..Len(file')
  BY <1>0, <1>3
<1>. QED  BY <1>1, <1>2, <1>3, <1>4 DEF Loadable

LEMMA DamageKept ==
  ASSUME TypeOK, NEW e \in Entries, Damaged(e), Loadable'
  PROVE  \/ UNCHANGED disk
         \/ Loadable /\ tail = "whole" /\ tail' = "cut" /\ file' = Append(file, e)
<1>1. CASE UNCHANGED disk
  BY <1>1
<1>2. CASE \E line \in {Torn, e} : file' = LinesWith(line) /\ tail' = "cut"
  <2>1. PICK line \in {Torn, e} : file' = LinesWith(line) /\ tail' = "cut"
    BY <1>2
  <2>2. line \in Entries
    BY KindTypes
  <2>. QED  BY <2>1, <2>2, LinesKept
<1>. QED  BY <1>1, <1>2 DEF Damaged

-----------------------------------------------------------------------------
(* Acknowledged entries, for any number of concurrent calls *)

\* A file that can be loaded has the line.
Holds(f, e) ==
  (\A i \in 1..Len(f) : f[i] # Torn) => \E i \in 1..Len(f) : f[i] = e

AckInv ==
  /\ \A w \in Writers : pc[w] = "written" => Holds(file, draft[w])
  /\ \A e \in acked : Holds(file, e)
  /\ AckedSurvives

LEMMA KeptAppend ==
  ASSUME TypeOK, NEW line \in Entries, file' = LinesWith(line)
  PROVE  /\ Holds(file', line)
         /\ \A e \in Entries : Holds(file, e) => Holds(file', e)
<1>1. SUFFICES ASSUME Loadable'
               PROVE  /\ \E i \in 1..Len(file') : file'[i] = line
                      /\ \A e \in Entries : Holds(file, e) =>
                           \E i \in 1..Len(file') : file'[i] = e
  BY DEF Holds, Loadable
<1>2. Loadable /\ file' = Append(file, line)
  BY <1>1, LinesKept
<1>3. file \in Seq(Entries)
  BY DEF TypeOK
<1>4. /\ Len(file) + 1 \in 1..Len(file') /\ file'[Len(file) + 1] = line
      /\ \A i \in 1..Len(file) : file'[i] = file[i] /\ i \in 1..Len(file')
  BY <1>2, <1>3
<1>. QED  BY <1>2, <1>4 DEF Holds, Loadable

LEMMA KeptDamage ==
  ASSUME TypeOK, NEW d \in Entries, Damaged(d)
  PROVE  \A e \in Entries : Holds(file, e) => Holds(file', e)
<1>1. CASE UNCHANGED disk
  BY <1>1 DEF disk
<1>2. CASE \E line \in {Torn, d} : file' = LinesWith(line) /\ tail' = "cut"
  <2>1. PICK line \in {Torn, d} : file' = LinesWith(line) /\ tail' = "cut"
    BY <1>2
  <2>2. line \in Entries
    BY KindTypes
  <2>. QED  BY <2>1, <2>2, KeptAppend
<1>. QED  BY <1>1, <1>2 DEF Damaged

LEMMA AckStep ==
  ASSUME TypeOK, AckInv, [Next]_vars
  PROVE  AckInv'
<1>. USE DEF AckInv, memory, disk, ids, bounds
<1>t. /\ \A w \in Writers : draft[w] \in Entries
      /\ acked \subseteq Entries /\ entries \in Seq(Entries)
      /\ pc \in [Writers -> {"idle", "leaf", "write", "written", "summary"}]
  BY DEF TypeOK
<1>u. ASSUME UNCHANGED file
      PROVE  \A e \in Entries : Holds(file, e) => Holds(file', e)
  BY <1>u
<1>1. CASE UNCHANGED vars
  BY <1>1 DEF vars, AckedSurvives
<1>s. ASSUME NEW w \in Writers, UNCHANGED <<phase, memory, acked>>,
             \A e \in Entries : Holds(file, e) => Holds(file', e),
             \A v \in Writers : pc'[v] = "written" =>
               pc[v] = "written" /\ draft'[v] = draft[v]
      PROVE  AckInv'
  <2>1. \A v \in Writers : pc'[v] = "written" => Holds(file', draft'[v])
    BY <1>s, <1>t DEF Holds
  <2>2. \A e \in acked' : Holds(file', e)
    BY <1>s, <1>t
  <2>3. AckedSurvives'
    BY <1>s DEF AckedSurvives
  <2>. QED  BY <2>1, <2>2, <2>3 DEF Holds
<1>2. ASSUME NEW w \in Writers, Step(w)
      PROVE  AckInv'
  <2>1. CASE AppendEntry(w) \/ AppendLabel(w) \/ MoveTo(w)
    <3>1. /\ UNCHANGED <<phase, entries, leaf, labels, file, acked>>
          /\ \E e : draft' = [draft EXCEPT ![w] = e]
          /\ At(w, "leaf") \/ At(w, "write")
      BY <2>1 DEF AppendEntry, AppendLabel, MoveTo, Begin, Build
    <3>2. \A v \in Writers : pc'[v] = "written" =>
            pc[v] = "written" /\ draft'[v] = draft[v]
      BY <3>1, <1>t DEF At, TypeOK
    <3>. QED  BY <3>1, <3>2, <1>s, <1>u
  <2>2. CASE ReadLeaf(w) \/ BeginSummary(w)
    <3>1. /\ UNCHANGED <<phase, entries, leaf, labels, file, acked>>
          /\ \/ At(w, "write") /\ \E e : draft' = [draft EXCEPT ![w] = e]
             \/ Return(w)
      BY <2>2, <1>t DEF ReadLeaf, BeginSummary, Build, TypeOK
    <3>2. \A v \in Writers : pc'[v] = "written" =>
            pc[v] = "written" /\ draft'[v] = draft[v]
      BY <3>1, <1>t DEF At, Return, TypeOK
    <3>. QED  BY <3>1, <3>2, <1>s, <1>u
  <2>3. CASE Write(w)
    <3>1. Holds(file', draft[w]) /\ \A e \in Entries : Holds(file, e) => Holds(file', e)
      BY <2>3, <1>t, KeptAppend DEF Write
    <3>2. /\ UNCHANGED <<phase, memory, draft, acked>>
          /\ pc' = [pc EXCEPT ![w] = "written"]
      BY <2>3 DEF Write, At
    <3>3. \A v \in Writers : pc'[v] = "written" => Holds(file', draft'[v])
      BY <3>1, <3>2, <1>t DEF Holds
    <3>4. \A e \in acked' : Holds(file', e)
      BY <3>1, <3>2, <1>t
    <3>5. AckedSurvives'
      BY <3>2 DEF AckedSurvives
    <3>. QED  BY <3>3, <3>4, <3>5 DEF Holds
  <2>4. CASE Remember(w)
    <3>1. /\ UNCHANGED <<phase, file>>
          /\ entries' = Append(entries, draft[w])
          /\ acked' = acked \union {draft[w]}
      BY <2>4 DEF Remember
    <3>0. \A v \in Writers : pc'[v] = "written" =>
            pc[v] = "written" /\ draft'[v] = draft[v]
      <4>1. \/ At(w, "summary") /\ UNCHANGED draft
            \/ Return(w)
        BY <2>4 DEF Remember
      <4>. QED  BY <4>1, <1>t DEF At, Return, TypeOK
    <3>2. \A e \in Entries : Holds(file, e) => Holds(file', e)
      BY <3>1, <1>u
    <3>3. \A v \in Writers : pc'[v] = "written" => Holds(file', draft'[v])
      BY <3>0, <3>1, <3>2, <1>t
    <3>4. \A e \in acked' : Holds(file', e)
      BY <3>1, <3>2, <1>t, <2>4 DEF Remember
    <3>5. /\ Len(entries) + 1 \in 1..Len(entries')
          /\ entries'[Len(entries) + 1] = draft[w]
          /\ \A i \in 1..Len(entries) :
               entries'[i] = entries[i] /\ i \in 1..Len(entries')
      BY <3>1, <1>t
    <3>6. AckedSurvives'
      BY <3>1, <3>5 DEF AckedSurvives
    <3>. QED  BY <3>3, <3>4, <3>6 DEF Holds
  <2>5. CASE WriteFails(w)
    <3>1. \A e \in Entries : Holds(file, e) => Holds(file', e)
      BY <2>5, <1>t, KeptDamage DEF WriteFails
    <3>. QED  BY <2>5, <3>1, <1>s, <1>t DEF WriteFails, Return, At
  <2>. QED  BY <1>2, <2>1, <2>2, <2>3, <2>4, <2>5 DEF Step
<1>3. CASE Crash
  <2>1. \A e \in Entries : Holds(file, e) => Holds(file', e)
    BY <1>3, <1>t, <1>u, KeptDamage DEF Crash
  <2>2. /\ \A v \in Writers : pc'[v] = "idle"
        /\ phase' = "closed" /\ UNCHANGED acked
    BY <1>3 DEF Crash, Forget
  <2>3. \A e \in acked' : Holds(file', e)
    BY <2>1, <2>2, <1>t
  <2>. QED  BY <2>2, <2>3 DEF AckedSurvives, Holds
<1>4. CASE Open
  <2>1. /\ Loadable /\ UNCHANGED <<file, pc, draft, acked>>
        /\ entries' = file
    BY <1>4 DEF Open
  <2>2. AckedSurvives'
    BY <2>1 DEF AckedSurvives, Holds, Loadable
  <2>3. \A e \in Entries : Holds(file, e) => Holds(file', e)
    BY <2>1, <1>u
  <2>4. \A v \in Writers : pc'[v] = "written" => Holds(file', draft'[v])
    BY <2>1, <2>3, <1>t DEF Holds
  <2>5. \A e \in acked' : Holds(file', e)
    BY <2>1, <2>3, <1>t
  <2>. QED  BY <2>2, <2>4, <2>5 DEF Holds
<1>5. CASE OpenThrows \/ Tick
  BY <1>5, <1>u, <1>t DEF OpenThrows, Tick, AckedSurvives
<1>. QED  BY <1>1, <1>2, <1>3, <1>4, <1>5 DEF Next

\* An acknowledged entry is there whenever the session is open, whatever
\* wrote at the same time, failed or crashed (appendEntry).
THEOREM Durability == Spec => []AckedSurvives
<1>1. Init => AckInv
  BY DEF Init, AckInv, AckedSurvives
<1>2. TypeOK /\ AckInv /\ [Next]_vars => AckInv'
  BY AckStep
<1>3. AckInv => AckedSurvives
  BY DEF AckInv
<1>. QED  BY <1>1, <1>2, <1>3, TypeCorrect, PTL DEF Spec

-----------------------------------------------------------------------------
(* One call at a time: what may be appended to what *)

Unique(s) == \A i, j \in 1..Len(s) : s[i].id = s[j].id => i = j

Chained(s) ==
  \A i \in 1..Len(s) :
    s[i].parent = IF i = 1 THEN Null ELSE LeafAfter(s[i - 1])

\* A move leads to an earlier entry.
Backward(s) ==
  \A i \in 1..Len(s) : s[i].kind = "leaf" =>
    \/ s[i].target = Null
    \/ \E j \in 1..(i - 1) : s[j].id = s[i].target

\* Full ids in use are not above the counter.
Counted(s, n) == \A i \in 1..Len(s) : \A m \in Nat : s[i].id = FullId(m) => m <= n

Sound(s) == Unique(s) /\ Chained(s) /\ Backward(s)

New(s, e) == \A i \in 1..Len(s) : s[i].id # e.id

\* Entry e may come after the entries of s.
Fits(s, e) ==
  /\ New(s, e)
  /\ e.parent = LeafOf(s)
  /\ e.kind = "leaf" =>
       e.target = Null \/ \E j \in 1..Len(s) : s[j].id = e.target

LEMMA AppendFacts ==
  ASSUME NEW s \in Seq(Entries), NEW e \in Entries
  PROVE  /\ Append(s, e) \in Seq(Entries)
         /\ Len(Append(s, e)) = Len(s) + 1 /\ Len(s) \in Nat
         /\ Append(s, e)[Len(s) + 1] = e
         /\ \A i \in 1..Len(s) : Append(s, e)[i] = s[i]
         /\ Append(s, e) # <<>>
OBVIOUS

LEMMA LeafAppend ==
  ASSUME NEW s \in Seq(Entries), NEW e \in Entries
  PROVE  LeafOf(Append(s, e)) = LeafAfter(e)
BY AppendFacts DEF LeafOf

LEMMA LabelsAppend ==
  ASSUME NEW s \in Seq(Entries), NEW e \in Entries
  PROVE  LabelsOf(Append(s, e)) = LabelsAfter(LabelsOf(s), e)
<1> DEFINE t == Append(s, e)
           Is(u, i, x) == u[i].kind = "label" /\ u[i].target = x
           Last(u, i) == /\ u[i].kind = "label" /\ u[i].set
                         /\ \A k \in (i + 1)..Len(u) :
                              ~(u[k].kind = "label" /\ u[k].target = u[i].target)
<1>0. /\ Len(t) = Len(s) + 1 /\ Len(s) \in Nat /\ t[Len(s) + 1] = e
      /\ \A i \in 1..Len(s) : t[i] = s[i]
  BY AppendFacts
<1>1. \A x : x \in LabelsOf(t) <=> \E i \in 1..Len(t) : Last(t, i) /\ x = t[i].target
  BY DEF LabelsOf
<1>2. \A x : x \in LabelsOf(s) <=> \E i \in 1..Len(s) : Last(s, i) /\ x = s[i].target
  BY DEF LabelsOf
<1> HIDE DEF t
<1>3. \A i \in 1..Len(s) :
        Last(t, i) <=> Last(s, i) /\ ~(e.kind = "label" /\ e.target = s[i].target)
  <2>1. SUFFICES ASSUME NEW i \in 1..Len(s)
                 PROVE  Last(t, i) <=> /\ Last(s, i)
                                       /\ ~(e.kind = "label" /\ e.target = s[i].target)
    OBVIOUS
  <2>2. (i + 1)..Len(t) = ((i + 1)..Len(s)) \union {Len(s) + 1}
    BY <1>0
  <2>3. \A k \in (i + 1)..Len(s) : t[k] = s[k]
    BY <1>0
  <2>4. t[i] = s[i]
    BY <1>0
  <2>. QED  BY <1>0, <2>2, <2>3, <2>4
<1>4. Last(t, Len(s) + 1) <=> e.kind = "label" /\ e.set
  BY <1>0
<1>5. 1..Len(t) = (1..Len(s)) \union {Len(s) + 1}
  BY <1>0
<1>6. \A x : x \in LabelsOf(t) <=>
        \/ x \in LabelsOf(s) /\ ~(e.kind = "label" /\ e.target = x)
        \/ e.kind = "label" /\ e.set /\ x = e.target
  BY <1>0, <1>1, <1>2, <1>3, <1>4, <1>5
<1>7. \A x : x \in LabelsAfter(LabelsOf(s), e) <=>
        \/ x \in LabelsOf(s) /\ ~(e.kind = "label" /\ e.target = x)
        \/ e.kind = "label" /\ e.set /\ x = e.target
  BY DEF LabelsAfter
<1>. QED  BY <1>6, <1>7 DEF t

LEMMA SoundAppend ==
  ASSUME NEW s \in Seq(Entries), NEW e \in Entries, Sound(s), Fits(s, e)
  PROVE  Sound(Append(s, e))
<1> DEFINE t == Append(s, e)
<1>0. /\ Len(t) = Len(s) + 1 /\ Len(s) \in Nat /\ t[Len(s) + 1] = e
      /\ \A i \in 1..Len(s) : t[i] = s[i]
      /\ 1..Len(t) = (1..Len(s)) \union {Len(s) + 1}
  BY AppendFacts
<1> HIDE DEF t
<1>1. Unique(t)
  BY <1>0 DEF Unique, Sound, Fits, New
<1>2. Chained(t)
  <2>1. SUFFICES ASSUME NEW i \in 1..Len(t)
                 PROVE  t[i].parent = IF i = 1 THEN Null ELSE LeafAfter(t[i - 1])
    BY DEF Chained
  <2>2. CASE i \in 1..Len(s)
    <3>1. i # 1 => i - 1 \in 1..Len(s)
      BY <1>0, <2>2
    <3>. QED  BY <1>0, <2>2, <3>1 DEF Sound, Chained
  <2>3. CASE i = Len(s) + 1
    <3>1. t[i].parent = LeafOf(s)
      BY <1>0, <2>3 DEF Fits
    <3>2. CASE s = <<>>
      BY <1>0, <2>3, <3>1, <3>2 DEF LeafOf
    <3>3. CASE s # <<>>
      <4>1. Len(s) \in 1..Len(s)
        BY <3>3
      <4>2. i - 1 = Len(s) /\ i # 1
        BY <1>0, <2>3, <4>1
      <4>. QED  BY <1>0, <3>1, <3>3, <4>1, <4>2 DEF LeafOf
    <3>. QED  BY <3>2, <3>3
  <2>. QED  BY <1>0, <2>2, <2>3
<1>3. Backward(t)
  <2>1. SUFFICES ASSUME NEW i \in 1..Len(t), t[i].kind = "leaf",
                        t[i].target # Null
                 PROVE  \E j \in 1..(i - 1) : t[j].id = t[i].target
    BY DEF Backward
  <2>2. CASE i \in 1..Len(s)
    <3>1. PICK j \in 1..(i - 1) : s[j].id = s[i].target
      BY <1>0, <2>1, <2>2 DEF Sound, Backward
    <3>2. j \in 1..Len(s)
      BY <1>0, <2>2
    <3>. QED  BY <1>0, <2>2, <3>1, <3>2
  <2>3. CASE i = Len(s) + 1
    <3>1. PICK j \in 1..Len(s) : s[j].id = e.target
      BY <1>0, <2>1, <2>3 DEF Fits
    <3>2. i - 1 = Len(s)
      BY <1>0, <2>3
    <3>. QED  BY <1>0, <2>3, <3>1, <3>2
  <2>. QED  BY <1>0, <2>2, <2>3
<1>. QED  BY <1>1, <1>2, <1>3 DEF Sound, t

\* The leaf is an entry.
LEMMA LeafIsKnown ==
  ASSUME NEW s \in Seq(Entries), Sound(s)
  PROVE  LeafOf(s) = Null \/ \E j \in 1..Len(s) : s[j].id = LeafOf(s)
<1>1. CASE s = <<>>
  BY <1>1 DEF LeafOf
<1>2. CASE s # <<>>
  <2>1. Len(s) \in 1..Len(s) /\ LeafOf(s) = LeafAfter(s[Len(s)])
    BY <1>2 DEF LeafOf
  <2>2. CASE s[Len(s)].kind # "leaf"
    BY <2>1, <2>2 DEF LeafAfter
  <2>3. CASE s[Len(s)].kind = "leaf" /\ s[Len(s)].target # Null
    <3>1. PICK j \in 1..(Len(s) - 1) : s[j].id = s[Len(s)].target
      BY <2>1, <2>3 DEF Sound, Backward
    <3>2. j \in 1..Len(s)
      BY <2>1
    <3>. QED  BY <2>1, <2>3, <3>1, <3>2 DEF LeafAfter
  <2>. QED  BY <2>1, <2>2, <2>3 DEF LeafAfter
<1>. QED  BY <1>1, <1>2

-----------------------------------------------------------------------------
(* One call at a time: the inductive invariant *)

MemoryInv ==
  /\ Sound(entries) /\ Counted(entries, fresh)
  /\ leaf = LeafOf(entries)
  /\ labels = LabelsOf(entries)

FileInv == Loadable => Sound(file) /\ Counted(file, fresh)

DraftOK(w) ==
  /\ pc[w] # "idle" => phase = "open"
  /\ pc[w] \in {"leaf", "write", "written"} =>
       /\ New(entries, draft[w])
       /\ \A m \in Nat : draft[w].id = FullId(m) => m <= fresh
  /\ pc[w] = "leaf" => draft[w].kind # "leaf"
  /\ pc[w] \in {"write", "written"} => Fits(entries, draft[w])
  /\ pc[w] = "summary" => draft[w].kind = "leaf" /\ draft[w].target = leaf
  /\ pc[w] = "written" =>
       tail = "whole" /\ (Loadable => file = Append(entries, draft[w]))

DraftInv == \A w \in Writers : DraftOK(w)

AgreeInv ==
  /\ phase = "open" /\ Loadable /\ tail = "whole"
  /\ \A w \in Writers : pc[w] # "written"
  => file = entries

SerialInv == MemoryInv /\ FileInv /\ DraftInv /\ AgreeInv

\* A new id is in use nowhere.
LEMMA NewIdIsNew ==
  ASSUME TypeOK, SerialInv
  PROVE  /\ \A i \in 1..Len(entries) : entries[i].id # NewId
         /\ \A m \in Nat : NewId = FullId(m) => m <= fresh + 1
<1>1. CASE ShortId(window) \notin Known
  BY <1>1, IdTypes DEF NewId, Known, TypeOK
<1>2. CASE ShortId(window) \in Known
  <2>1. NewId = FullId(fresh + 1) /\ fresh \in Nat
    BY <1>2 DEF NewId, TypeOK
  <2>2. \A i \in 1..Len(entries) : entries[i].id # FullId(fresh + 1)
    BY <2>1 DEF SerialInv, MemoryInv, Counted
  <2>. QED  BY <2>1, <2>2, IdTypes
<1>. QED  BY <1>1, <1>2

LEMMA CountedMore ==
  ASSUME TypeOK, NEW s \in Seq(Entries), Counted(s, fresh),
         fresh' = fresh \/ fresh' = fresh + 1
  PROVE  Counted(s, fresh')
<1>1. fresh \in Nat
  BY DEF TypeOK
<1>. QED  BY <1>1 DEF Counted

LEMMA CountedAppend ==
  ASSUME NEW s \in Seq(Entries), NEW e \in Entries, NEW n \in Nat,
         Counted(s, n), \A m \in Nat : e.id = FullId(m) => m <= n
  PROVE  Counted(Append(s, e), n)
<1>1. 1..Len(Append(s, e)) = (1..Len(s)) \union {Len(s) + 1}
  BY AppendFacts
<1>. QED  BY <1>1, AppendFacts DEF Counted

\* Calls that draw an id: the memory and the file stay, the draft is new.
LEMMA DrawStep ==
  ASSUME TypeOK, SerialInv, SerialWriters, NEW w \in Writers, NEW e \in Entries,
         UNCHANGED <<phase, entries, leaf, labels, file, tail>>,
         Build(w, e), phase = "open", pc[w] # "written",
         pc' = [pc EXCEPT ![w] = "leaf"] \/ pc' = [pc EXCEPT ![w] = "write"],
         e.id = NewId,
         pc'[w] = "leaf" => e.kind # "leaf",
         pc'[w] = "write" =>
           /\ e.parent = leaf
           /\ e.kind = "leaf" => e.target \in Known \union {Null}
  PROVE  SerialInv'
<1>t. /\ entries \in Seq(Entries) /\ file \in Seq(Entries) /\ fresh \in Nat
      /\ draft \in [Writers -> Entries]
      /\ pc \in [Writers -> {"idle", "leaf", "write", "written", "summary"}]
  BY DEF TypeOK
<1>1. fresh' = fresh + 1 /\ draft' = [draft EXCEPT ![w] = e]
  BY DEF Build
<1>2. MemoryInv'
  BY <1>t, <1>1, CountedMore DEF SerialInv, MemoryInv
<1>3. FileInv'
  BY <1>t, <1>1, CountedMore DEF SerialInv, FileInv, Loadable
<1>4. draft'[w] = e /\ pc'[w] \in {"leaf", "write"}
  BY <1>t, <1>1
<1>5. New(entries, e) /\ \A m \in Nat : e.id = FullId(m) => m <= fresh'
  BY <1>1, NewIdIsNew DEF New
<1>6. pc'[w] = "write" => Fits(entries, e)
  BY <1>4, <1>5 DEF Fits, Known, SerialInv, MemoryInv
<1>7. DraftOK(w)'
  BY <1>4, <1>5, <1>6 DEF DraftOK
<1>8. DraftInv'
  BY <1>7 DEF DraftInv, SerialWriters
<1>9. AgreeInv'
  <2>1. \A v \in Writers : pc[v] # "written"
    BY DEF SerialWriters
  <2>. QED  BY <2>1 DEF SerialInv, AgreeInv, Loadable
<1>. QED  BY <1>2, <1>3, <1>8, <1>9 DEF SerialInv

\* A write that is cut short, by a failure or by a crash.
LEMMA DamageSound ==
  ASSUME TypeOK, SerialInv, SerialWriters, NEW w \in Writers, pc[w] = "write",
         Damaged(draft[w]), fresh' = fresh
  PROVE  FileInv' /\ (UNCHANGED disk \/ tail' = "cut")
<1>t. /\ entries \in Seq(Entries) /\ file \in Seq(Entries) /\ fresh \in Nat
      /\ draft[w] \in Entries
  BY DEF TypeOK
<1>1. UNCHANGED disk \/ tail' = "cut"
  BY DEF Damaged
<1>2. ASSUME Loadable'
      PROVE  Sound(file') /\ Counted(file', fresh')
  <2>1. CASE UNCHANGED disk
    BY <2>1, <1>2 DEF SerialInv, FileInv, disk, Loadable
  <2>2. CASE Loadable /\ tail = "whole" /\ file' = Append(file, draft[w])
    <3>1. \A v \in Writers : pc[v] # "written"
      BY DEF SerialWriters
    <3>2. /\ DraftOK(w) /\ MemoryInv
      BY DEF SerialInv, DraftInv
    <3>3. file = entries
      BY <2>2, <3>1, <3>2 DEF SerialInv, AgreeInv, DraftOK
    <3>4. Fits(entries, draft[w])
      BY <3>2 DEF DraftOK
    <3>5. Sound(file')
      BY <1>t, <2>2, <3>2, <3>3, <3>4, SoundAppend DEF MemoryInv
    <3>6. Counted(file', fresh)
      BY <1>t, <2>2, <3>2, <3>3, CountedAppend DEF MemoryInv, DraftOK
    <3>. QED  BY <3>5, <3>6
  <2>. QED  BY <1>t, <1>2, <2>1, <2>2, DamageKept
<1>. QED  BY <1>1, <1>2 DEF FileInv

LEMMA SerialStep ==
  ASSUME TypeOK, SerialInv, SerialWriters, [Next]_vars
  PROVE  SerialInv'
<1>t. /\ entries \in Seq(Entries) /\ file \in Seq(Entries) /\ fresh \in Nat
      /\ draft \in [Writers -> Entries]
      /\ pc \in [Writers -> {"idle", "leaf", "write", "written", "summary"}]
  BY DEF TypeOK
<1>1. CASE UNCHANGED vars
  BY <1>1 DEF vars, memory, disk, ids, SerialInv, MemoryInv, FileInv, DraftInv,
              DraftOK, AgreeInv, Loadable
<1>2. ASSUME NEW w \in Writers, Step(w)
      PROVE  SerialInv'
  <2>w. /\ DraftOK(w) /\ MemoryInv /\ FileInv /\ AgreeInv
        /\ \A v \in Writers : v = w
    BY DEF SerialInv, DraftInv, SerialWriters
  <2>1. CASE AppendEntry(w)
    <3>1. Entry(NewId, Null, "message", Null, FALSE) \in Entries
      BY NewIdType, KindTypes, EntryType
    <3>2. /\ UNCHANGED <<phase, entries, leaf, labels, file, tail>>
          /\ phase = "open" /\ pc[w] # "written"
          /\ pc' = [pc EXCEPT ![w] = "leaf"]
      BY <2>1 DEF AppendEntry, Begin, At, memory, disk
    <3>3. Build(w, Entry(NewId, Null, "message", Null, FALSE))
      BY <2>1 DEF AppendEntry
    <3>. QED  BY <1>t, <3>1, <3>2, <3>3, DrawStep DEF Entry
  <2>2. CASE AppendLabel(w)
    <3>1. PICK target \in Known, set \in BOOLEAN :
            Build(w, Entry(NewId, Null, "label", target, set))
      BY <2>2 DEF AppendLabel
    <3>2. Entry(NewId, Null, "label", target, set) \in Entries
      BY NewIdType, KindTypes, EntryType
    <3>3. /\ UNCHANGED <<phase, entries, leaf, labels, file, tail>>
          /\ phase = "open" /\ pc[w] # "written"
          /\ pc' = [pc EXCEPT ![w] = "leaf"]
      BY <2>2 DEF AppendLabel, Begin, At, memory, disk
    <3>. QED  BY <1>t, <3>1, <3>2, <3>3, DrawStep DEF Entry
  <2>3. CASE ReadLeaf(w)
    <3>1. leaf \in Known \union {Null}
      BY <1>t, <2>w, LeafIsKnown DEF MemoryInv, Known
    <3>2. /\ pc[w] = "leaf" /\ pc' = [pc EXCEPT ![w] = "write"]
          /\ draft' = [draft EXCEPT ![w].parent = leaf]
          /\ UNCHANGED <<phase, entries, leaf, labels, file, tail, fresh>>
      BY <2>3, <3>1 DEF ReadLeaf, At, memory, disk, ids
    <3>3. /\ draft'[w].parent = leaf /\ draft'[w].id = draft[w].id
          /\ draft'[w].kind = draft[w].kind /\ pc'[w] = "write"
      BY <1>t, <3>2 DEF Entries
    <3>4. Fits(entries, draft'[w]) /\ New(entries, draft'[w])
      BY <2>w, <3>2, <3>3 DEF DraftOK, MemoryInv, Fits, New
    <3>5. DraftOK(w)'
      BY <2>w, <3>2, <3>3, <3>4 DEF DraftOK
    <3>6. MemoryInv' /\ FileInv'
      BY <2>w, <3>2 DEF MemoryInv, FileInv, Loadable
    <3>7. AgreeInv'
      BY <2>w, <3>2 DEF AgreeInv, Loadable
    <3>. QED  BY <2>w, <3>5, <3>6, <3>7 DEF SerialInv, DraftInv
  <2>4. CASE MoveTo(w)
    <3>1. PICK target \in MoveTargets :
            Build(w, Entry(NewId, leaf, "leaf", target, FALSE))
      BY <2>4 DEF MoveTo
    <3>2. Entry(NewId, leaf, "leaf", target, FALSE) \in Entries
      BY NewIdType, KindTypes, EntryType DEF MoveTargets, TypeOK
    <3>3. /\ UNCHANGED <<phase, entries, leaf, labels, file, tail>>
          /\ phase = "open" /\ pc[w] # "written"
          /\ pc' = [pc EXCEPT ![w] = "write"]
      BY <2>4 DEF MoveTo, Begin, At, memory, disk
    <3>4. pc'[w] = "write"
      BY <1>t, <3>3
    <3>. QED  BY <1>t, <3>1, <3>2, <3>3, <3>4, DrawStep DEF Entry, MoveTargets
  <2>5. CASE BeginSummary(w)
    <3> DEFINE e == Entry(NewId, draft[w].target, "branch_summary", Null, FALSE)
    <3>1. e \in Entries
      BY <1>t, NewIdType, KindTypes, EntryType, EntryFields
    <3>2. /\ UNCHANGED <<phase, entries, leaf, labels, file, tail>>
          /\ pc[w] = "summary" /\ Build(w, e)
          /\ pc' = [pc EXCEPT ![w] = "write"]
      BY <2>5 DEF BeginSummary, At, memory, disk
    <3>3. phase = "open" /\ draft[w].target = leaf
      BY <2>w, <3>2 DEF DraftOK
    <3>4. e.id = NewId /\ e.parent = leaf /\ e.kind = "branch_summary"
      BY <3>3 DEF Entry
    <3>5. pc'[w] = "write"
      BY <1>t, <3>2
    <3> HIDE DEF e
    <3>. QED  BY <3>1, <3>2, <3>3, <3>4, <3>5, DrawStep
  <2>6. CASE Write(w)
    <3>1. /\ pc[w] = "write" /\ pc' = [pc EXCEPT ![w] = "written"]
          /\ file' = LinesWith(draft[w]) /\ tail' = "whole"
          /\ UNCHANGED <<phase, entries, leaf, labels, draft, fresh>>
      BY <2>6 DEF Write, At, memory, ids
    <3>2. /\ pc'[w] = "written" /\ draft[w] \in Entries
          /\ \A v \in Writers : pc[v] # "written"
      BY <1>t, <2>w, <3>1
    <3>3. phase = "open" /\ Fits(entries, draft[w])
      BY <2>w, <3>1 DEF DraftOK
    <3>4. Loadable' => file' = Append(entries, draft[w])
      BY <2>w, <3>1, <3>2, <3>3, LinesKept DEF AgreeInv
    <3>5. Loadable' => Sound(file') /\ Counted(file', fresh)
      BY <1>t, <2>w, <3>1, <3>2, <3>3, <3>4, SoundAppend, CountedAppend
         DEF MemoryInv, DraftOK
    <3>6. FileInv'
      BY <3>1, <3>5 DEF FileInv
    <3>7. DraftOK(w)'
      BY <2>w, <3>1, <3>2, <3>4 DEF DraftOK
    <3>8. MemoryInv' /\ AgreeInv'
      BY <2>w, <3>1, <3>2 DEF MemoryInv, AgreeInv
    <3>. QED  BY <2>w, <3>6, <3>7, <3>8 DEF SerialInv, DraftInv
  <2>7. CASE Remember(w)
    <3>1. /\ pc[w] = "written" /\ entries' = Append(entries, draft[w])
          /\ leaf' = LeafAfter(draft[w])
          /\ labels' = LabelsAfter(labels, draft[w])
          /\ UNCHANGED <<phase, file, tail, fresh>>
          /\ \/ /\ draft[w].kind = "leaf"
                /\ pc' = [pc EXCEPT ![w] = "summary"] /\ draft' = draft
             \/ pc' = [pc EXCEPT ![w] = "idle"]
      BY <2>7 DEF Remember, Return, At, disk, ids
    <3>2. draft[w] \in Entries
      BY <1>t
    <3>3. /\ Fits(entries, draft[w]) /\ phase = "open"
          /\ Loadable => file = entries'
      BY <2>w, <3>1 DEF DraftOK
    <3>4. MemoryInv'
      BY <1>t, <2>w, <3>1, <3>2, <3>3, SoundAppend, CountedAppend, LeafAppend,
         LabelsAppend DEF MemoryInv, DraftOK
    <3>5. FileInv' /\ AgreeInv'
      BY <2>w, <3>1, <3>3 DEF FileInv, AgreeInv, Loadable
    <3>6. pc'[w] \in {"idle", "summary"}
      BY <1>t, <3>1
    <3>7. DraftOK(w)'
      <4>1. CASE pc'[w] = "idle"
        BY <4>1 DEF DraftOK
      <4>2. CASE pc'[w] = "summary"
        <5>1. draft' = draft /\ draft[w].kind = "leaf"
          BY <1>t, <3>1, <4>2
        <5>. QED  BY <3>1, <3>3, <4>2, <5>1 DEF DraftOK, LeafAfter
      <4>. QED  BY <3>6, <4>1, <4>2
    <3>. QED  BY <2>w, <3>4, <3>5, <3>7 DEF SerialInv, DraftInv
  <2>8. CASE WriteFails(w)
    <3>1. /\ pc[w] = "write" /\ Damaged(draft[w])
          /\ pc' = [pc EXCEPT ![w] = "idle"]
          /\ UNCHANGED <<phase, entries, leaf, labels, fresh>>
      BY <2>8 DEF WriteFails, Return, At, memory, ids
    <3>2. FileInv' /\ (UNCHANGED <<file, tail>> \/ tail' = "cut")
      BY <3>1, DamageSound DEF disk
    <3>3. pc'[w] = "idle" /\ pc[w] # "written"
      BY <1>t, <3>1
    <3>4. DraftOK(w)'
      BY <3>3 DEF DraftOK
    <3>5. MemoryInv' /\ AgreeInv'
      BY <2>w, <3>1, <3>2, <3>3 DEF MemoryInv, AgreeInv, Loadable
    <3>. QED  BY <2>w, <3>2, <3>4, <3>5 DEF SerialInv, DraftInv
  <2>. QED  BY <1>2, <2>1, <2>2, <2>3, <2>4, <2>5, <2>6, <2>7, <2>8 DEF Step
<1>3. CASE Crash
  <2>1. /\ phase' = "closed" /\ fresh' = fresh
        /\ entries' = <<>> /\ leaf' = Null /\ labels' = {}
        /\ \A w \in Writers : pc'[w] = "idle"
    BY <1>3 DEF Crash, Forget, ids
  <2>2. FileInv'
    <3>1. CASE UNCHANGED disk
      BY <2>1, <3>1 DEF SerialInv, FileInv, disk, Loadable
    <3>2. CASE \E w \in Writers : pc[w] = "write" /\ Damaged(draft[w])
      BY <2>1, <3>2, DamageSound
    <3>. QED  BY <1>3, <3>1, <3>2 DEF Crash
  <2>3. MemoryInv'
    BY <2>1 DEF MemoryInv, Sound, Unique, Chained, Backward, Counted, LeafOf,
                LabelsOf
  <2>4. DraftInv' /\ AgreeInv'
    BY <2>1 DEF DraftInv, DraftOK, AgreeInv
  <2>. QED  BY <2>2, <2>3, <2>4 DEF SerialInv
<1>4. CASE Open
  <2>1. /\ Loadable /\ phase = "closed" /\ entries' = file
        /\ leaf' = LeafOf(file) /\ labels' = LabelsOf(file)
        /\ UNCHANGED <<file, tail, pc, draft, fresh>>
    BY <1>4 DEF Open, disk, ids
  <2>2. \A w \in Writers : pc[w] = "idle"
    BY <1>t, <2>1 DEF SerialInv, DraftInv, DraftOK
  <2>3. MemoryInv' /\ FileInv'
    BY <2>1 DEF SerialInv, FileInv, MemoryInv, Loadable
  <2>4. DraftInv' /\ AgreeInv'
    BY <2>1, <2>2 DEF DraftInv, DraftOK, AgreeInv
  <2>. QED  BY <2>3, <2>4 DEF SerialInv
<1>5. CASE OpenThrows
  <2>1. /\ phase = "closed" /\ phase' = "broken"
        /\ UNCHANGED <<entries, leaf, labels, file, tail, pc, draft, fresh>>
    BY <1>5 DEF OpenThrows, memory, disk, ids
  <2>2. \A w \in Writers : pc[w] = "idle"
    BY <1>t, <2>1 DEF SerialInv, DraftInv, DraftOK
  <2>. QED  BY <2>1, <2>2 DEF SerialInv, MemoryInv, FileInv, DraftInv, DraftOK,
                              AgreeInv, Loadable
<1>6. CASE Tick
  BY <1>6 DEF Tick, memory, disk, SerialInv, MemoryInv, FileInv, DraftInv,
              DraftOK, AgreeInv, Loadable
<1>. QED  BY <1>1, <1>2, <1>3, <1>4, <1>5, <1>6 DEF Next

LEMMA SerialInit ==
  ASSUME Init
  PROVE  SerialInv
BY DEF Init, SerialInv, MemoryInv, FileInv, DraftInv, DraftOK, AgreeInv, Sound,
       Unique, Chained, Backward, Counted, LeafOf, LabelsOf, Loadable

\* With one call at a time the memory is sound (ids, branch, labels), it is
\* what the file gives, and a draft fits under the leaf.
THEOREM Serial == ASSUME SerialWriters PROVE Spec => []SerialInv
<1>1. Init => SerialInv
  BY SerialInit
<1>2. TypeOK /\ SerialInv /\ [Next]_vars => SerialInv'
  BY SerialStep
<1>. QED  BY <1>1, <1>2, TypeCorrect, PTL DEF Spec

\* With one call at a time no id is ever given twice, across restarts and
\* failed writes, although ids are drawn from a clock that may stand still.
THEOREM NoIdTwice == ASSUME SerialWriters PROVE Spec => []UniqueIds
<1>1. SerialInv => UniqueIds
  BY DEF SerialInv, MemoryInv, Sound, Unique, UniqueIds
<1>. QED  BY <1>1, Serial, PTL

\* With one call at a time parents are earlier entries, so every walk to the
\* root ends.
THEOREM WalksEnd == ASSUME SerialWriters PROVE Spec => []PathsEnd
<1>1. TypeOK /\ SerialInv => PathsEnd
  <2>1. SUFFICES ASSUME TypeOK, SerialInv, NEW i \in 1..Len(entries),
                        entries[i].parent # Null
                 PROVE  \E j \in 1..(i - 1) : entries[j].id = entries[i].parent
    BY DEF PathsEnd
  <2>2. i # 1 /\ entries[i].parent = LeafAfter(entries[i - 1])
    BY <2>1 DEF SerialInv, MemoryInv, Sound, Chained
  <2>3. i - 1 \in 1..Len(entries) /\ i - 1 \in 1..(i - 1)
    BY <2>1, <2>2 DEF TypeOK
  <2>4. CASE entries[i - 1].kind # "leaf"
    BY <2>2, <2>3, <2>4 DEF LeafAfter
  <2>5. CASE entries[i - 1].kind = "leaf"
    <3>1. PICK j \in 1..((i - 1) - 1) : entries[j].id = entries[i].parent
      BY <2>1, <2>2, <2>3, <2>5
         DEF SerialInv, MemoryInv, Sound, Backward, LeafAfter
    <3>2. j \in 1..(i - 1)
      BY <2>3
    <3>. QED  BY <3>1, <3>2
  <2>. QED  BY <2>4, <2>5
<1>. QED  BY <1>1, Serial, TypeCorrect, PTL

\* With one call at a time the entries are a tree with unique ids, whatever
\* is moved, fails, crashes or is reopened.
THEOREM TreeStaysSound == ASSUME SerialWriters PROVE Spec => []TreeIsSound
BY NoIdTwice, WalksEnd, PTL DEF TreeIsSound

\* With one call at a time the memory is what loading the file gives, unless
\* a failed write damaged the file.
THEOREM MemoryIsFile == ASSUME SerialWriters PROVE Spec => []ReopenAgrees
<1>1. SerialInv => ReopenAgrees
  BY DEF SerialInv, MemoryInv, AgreeInv, ReopenAgrees, Quiet
<1>. QED  BY <1>1, Serial, PTL

\* With one call at a time the session is what its file holds, and the file
\* holds what was appended, whatever failed or crashed.
THEOREM SessionIsKept == ASSUME SerialWriters PROVE Spec => []FileKeepsSession
BY MemoryIsFile, Durability, PTL DEF FileKeepsSession
=============================================================================
