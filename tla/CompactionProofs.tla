-------------------------- MODULE CompactionProofs --------------------------
(***************************************************************************)
(* Two results, for any entries, answers, budgets and bounds.              *)
(*                                                                         *)
(* A compaction that stands on the branch it was prepared on is sound.     *)
(* One half of the argument looks at one branch: what a preparation        *)
(* summarises is what its cut takes out and no compaction took out before, *)
(* the summary before it is passed on unless all of that is the beginning  *)
(* of one turn, and the cut is where the budget is reached                 *)
(* (PreparationIs).  The other looks at how branches change: ids grow      *)
(* along a branch, so an id that is no larger than that of a common entry  *)
(* is found at the same place, or nowhere, on both (PositionStays), and a  *)
(* compaction is judged by nothing behind the entry it was prepared on     *)
(* (SoundnessStays).  The operators are repeated here with the branch as a *)
(* parameter, so that two branches can be compared.                        *)
(*                                                                         *)
(* In a request every call has its result right behind its answer.  Along  *)
(* a branch results stand behind the answer that waits for them            *)
(* (BatchesOf), and what a compaction keeps parts none from its answer     *)
(* (NothingSplit), so the context has no stray result (ContextIsComplete). *)
(* What is sent for it is a recursive function, which exists because there *)
(* is no smallest number at which it would fail (SentExists), and after    *)
(* each message all is paired, or the results of the last answer are       *)
(* coming (UpTo).                                                          *)
(***************************************************************************)
EXTENDS Compaction, TLAPS, FiniteSetTheorems, WellFoundedInduction

Messages == {"user", "bashExecution", "custom_message", "branch_summary"}

Calls == Nat \X Nat

Plains == [id : Nat, type : Messages \union {"setting"}]
AllAnswers ==
  [id : Nat, type : {"assistant"}, failed : BOOLEAN, calls : Seq(Calls)]
Results == [id : Nat, type : {"toolResult"}, call : Calls]

\* A compaction keeps from an entry no later than the last it was prepared on.
Summaries ==
  {e \in [id : Nat, type : {"compaction"}, kept : Nat, told : SUBSET Nat,
          files : SUBSET Calls, budget : Budgets, upTo : Nat] :
     e.kept <= e.upTo /\ e.upTo < e.id}

Entries == Plains \union AllAnswers \union Results \union Summaries

Preparations ==
  {m \in [kept : Nat, told : SUBSET Nat, files : SUBSET Calls,
          budget : Budgets, upTo : Nat] : m.kept <= m.upTo}

Types ==
  /\ branch \in Seq(Entries)
  /\ pending \in Seq(Calls)
  /\ prepared \in Preparations \union {None}
  /\ drawn \in Nat

\* The ids grow along the branch.
Grows(b) ==
  \A i, j \in 1..Len(b) : i < j => b[i].id < b[j].id

Drawn ==
  /\ Grows(branch)
  /\ \A i \in 1..Len(branch) : branch[i].id <= drawn
  /\ prepared # None => prepared.upTo <= drawn

-----------------------------------------------------------------------------
(* Least and greatest positions *)

LEMMA GreatestIs ==
  ASSUME NEW n \in Nat, NEW S \in SUBSET (1..n), S # {}
  PROVE  Greatest(S) \in S /\ \A j \in S : j <= Greatest(S)
<1> DEFINE T == {n - i : i \in S}
<1>1. T \subseteq Nat /\ T # {}
  <2>1. \A i \in S : n - i \in Nat
    OBVIOUS
  <2> QED BY <2>1
<1>2. PICK x \in T : \A y \in T : ~(<<y, x>> \in OpToRel(<, Nat))
  <2> HIDE DEF T
  <2> QED BY <1>1, WFMin, NatLessThanWellFounded
<1>3. \A y \in T : x <= y
  <2> SUFFICES ASSUME NEW y \in T, y < x PROVE FALSE
    BY <1>1
  <2>1. <<y, x>> \in OpToRel(<, Nat)
    BY <1>1 DEF OpToRel
  <2> QED BY <1>2, <2>1
<1>4. PICK i \in S : x = n - i
  BY <1>2
<1>5. \A j \in S : x <= n - j
  BY <1>3
<1>6. \A j \in S : j <= i
  BY <1>4, <1>5
<1> QED
  BY <1>6 DEF Greatest

LEMMA LeastIs ==
  ASSUME NEW n \in Nat, NEW S \in SUBSET (1..n), S # {}
  PROVE  Least(S) \in S /\ \A j \in S : Least(S) <= j
<1>1. S \subseteq Nat
  OBVIOUS
<1>2. PICK x \in S : \A y \in S : ~(<<y, x>> \in OpToRel(<, Nat))
  BY <1>1, WFMin, NatLessThanWellFounded
<1>3. \A y \in S : x <= y
  <2> SUFFICES ASSUME NEW y \in S, y < x PROVE FALSE
    BY <1>1
  <2>1. <<y, x>> \in OpToRel(<, Nat)
    BY <1>1 DEF OpToRel
  <2> QED BY <1>2, <2>1
<1> QED
  BY <1>3 DEF Least

-----------------------------------------------------------------------------
(* The operators of Compaction, over any branch *)

PositionIn(b, id) ==
  IF \E i \in DOMAIN b : b[i].id = id
  THEN CHOOSE i \in DOMAIN b : b[i].id = id ELSE 0

CompactionsOf(b) == {i \in DOMAIN b : b[i].type = "compaction"}

BeforeIn(b, n) ==
  LET earlier == {i \in CompactionsOf(b) : i < n}
  IN IF earlier = {} THEN 0 ELSE Greatest(earlier)

MessagesFrom(b, first, last) == {i \in first..last : HasMessage(b[i])}

SizeOf(b, first, last) == Cardinality({i \in first..last : IsMessage(b[i])})

FilesOf(b, S) ==
  UNION {{b[i].calls[k] : k \in DOMAIN b[i].calls} :
           i \in {j \in S : b[j].type = "assistant"}}

\* What a compaction newly hides that keeps from position k: after compaction
\* p, which keeps from h.
HiddenOf(b, p, h, k) ==
  IF p = 0 THEN MessagesFrom(b, 1, k - 1)
  ELSE IF h \notin 1..(p - 1) THEN {i \in MessagesFrom(b, 1, k - 1) : i > p}
  ELSE MessagesFrom(b, 1, k - 1) \ MessagesFrom(b, 1, h - 1)

CutsTurnOf(b, S, k) ==
  /\ S # {}
  /\ \A i \in Least(S)..k : StartsTurn(b[i]) <=> i = Least(S)

CoversOf(b, m, p, S, k) ==
  /\ {b[i].id : i \in S} \subseteq m.told
  /\ p = 0 \/ CutsTurnOf(b, S, k) \/ b[p].told \subseteq m.told

TracksOf(b, m, p, S) ==
  /\ FilesOf(b, S) \subseteq m.files
  /\ p = 0 \/ b[p].files \subseteq m.files

FitsOf(b, m, S, k, l) ==
  /\ (\E i \in S : b[i].type # "toolResult")
       => SizeOf(b, k, l) <= m.budget \/ SizeOf(b, k, l) = 1
  /\ \A i \in S :
       IsMessage(b[i]) /\ SizeOf(b, i, l) <= m.budget
         => b[i].type = "toolResult"

\* Compaction m, prepared up to position l, keeps from k.
IsSound(b, m, p, h, k, l) ==
  /\ CoversOf(b, m, p, HiddenOf(b, p, h, k), k)
  /\ TracksOf(b, m, p, HiddenOf(b, p, h, k))
  /\ FitsOf(b, m, HiddenOf(b, p, h, k), k, l)

KeptBy(b, p) == IF p = 0 THEN 0 ELSE PositionIn(b, b[p].kept)

SoundIn(b, m, p) ==
  IsSound(b, m, p, KeptBy(b, p), PositionIn(b, m.kept), PositionIn(b, m.upTo))

CompactionsAreSound(b) ==
  \A c \in CompactionsOf(b) :
    PositionIn(b, b[c].upTo) \in 1..(c - 1)
      => SoundIn(b, b[c], BeforeIn(b, c))

LEMMA SoundnessOfBranch == CompactionIsSound <=> CompactionsAreSound(branch)
<1>1. Compactions = CompactionsOf(branch)
  BY DEF Compactions, CompactionsOf
<1>2. \A n : CompactionBefore(n) = BeforeIn(branch, n)
  BY <1>1 DEF CompactionBefore, BeforeIn
<1>3. \A id : Position(id) = PositionIn(branch, id)
  BY DEF Position, PositionIn
<1>4. \A x, y : Size(x, y) = SizeOf(branch, x, y)
  BY DEF Size, SizeOf
<1>5. \A S : Files(S) = FilesOf(branch, S)
  BY DEF Files, FilesOf
<1> DEFINE P(c) == BeforeIn(branch, c)
           K(c) == PositionIn(branch, branch[c].kept)
           L(c) == PositionIn(branch, branch[c].upTo)
<1>6. \A c : Hidden(c) = MessagesFrom(branch, 1, K(c) - 1)
  BY <1>3 DEF Hidden, MessagesFrom
<1>7. \A c : NewlyHidden(c) = HiddenOf(branch, P(c), KeptBy(branch, P(c)), K(c))
  BY <1>2, <1>3, <1>6 DEF NewlyHidden, HiddenOf, KeptBy, Mislaid
<1>8. \A c : CutsFirstTurn(c) <=> CutsTurnOf(branch, NewlyHidden(c), K(c))
  BY <1>3 DEF CutsFirstTurn, CutsTurnOf
<1>9. \A c : Covers(c)
               <=> CoversOf(branch, branch[c], P(c), NewlyHidden(c), K(c))
  BY <1>2, <1>8 DEF Covers, CoversOf, IdsOf
<1>10. \A c : TracksFiles(c)
                <=> TracksOf(branch, branch[c], P(c), NewlyHidden(c))
  BY <1>2, <1>5 DEF TracksFiles, TracksOf
<1>11. \A c : Fits(c) <=> FitsOf(branch, branch[c], NewlyHidden(c), K(c), L(c))
  BY <1>3, <1>4 DEF Fits, FitsOf
<1>12. \A c : (Covers(c) /\ TracksFiles(c) /\ Fits(c))
                <=> SoundIn(branch, branch[c], P(c))
  BY <1>7, <1>9, <1>10, <1>11 DEF SoundIn, IsSound
<1> QED
  BY <1>1, <1>3, <1>12 DEF CompactionIsSound, CompactionsAreSound, InPlace

-----------------------------------------------------------------------------
(* Branches that agree up to a position *)

Agree(b, d, n) ==
  /\ n <= Len(b) /\ n <= Len(d)
  /\ \A i \in 1..n : b[i] = d[i]

\* An entry is where its id is, and nowhere else.
LEMMA PositionIs ==
  ASSUME NEW b \in Seq(Entries), Grows(b), NEW i \in 1..Len(b)
  PROVE  PositionIn(b, b[i].id) = i
<1>1. \A j \in 1..Len(b) : b[j].id \in Nat
  BY DEF Entries, Plains, AllAnswers, Results, Summaries
<1>2. \A j \in 1..Len(b) : b[j].id = b[i].id => j = i
  BY <1>1 DEF Grows
<1> QED
  BY <1>2 DEF PositionIn

LEMMA PositionIsIn ==
  ASSUME NEW b \in Seq(Entries), NEW id
  PROVE  /\ PositionIn(b, id) \in 0..Len(b)
         /\ PositionIn(b, id) # 0 => b[PositionIn(b, id)].id = id
BY DEF PositionIn

\* An id no larger than one of the common entries has the same position.
LEMMA PositionStays ==
  ASSUME NEW b \in Seq(Entries), NEW d \in Seq(Entries), Grows(b), Grows(d),
         NEW n \in Nat, Agree(b, d, n),
         NEW i \in 1..n, NEW id \in Nat, id <= b[i].id
  PROVE  PositionIn(d, id) = PositionIn(b, id) /\ PositionIn(b, id) <= i
<1>1. /\ \A j \in 1..Len(b) : b[j].id \in Nat
      /\ \A j \in 1..Len(d) : d[j].id \in Nat
  BY DEF Entries, Plains, AllAnswers, Results, Summaries
<1>2. \A j \in 1..Len(b) : b[j].id = id => j <= i
  <2>1. /\ i \in 1..Len(b) /\ b[i].id \in Nat
        /\ \A j \in 1..Len(b) : i < j => b[i].id < b[j].id
    BY <1>1 DEF Grows, Agree
  <2>2. SUFFICES ASSUME NEW j \in 1..Len(b), b[j].id = id, i < j PROVE FALSE
    OBVIOUS
  <2> QED BY <2>1, <2>2
<1>3. \A j \in 1..Len(d) : d[j].id = id => j <= i
  <2>1. /\ i \in 1..Len(d) /\ d[i] = b[i] /\ d[i].id \in Nat
        /\ \A j \in 1..Len(d) : i < j => d[i].id < d[j].id
    BY <1>1 DEF Grows, Agree
  <2>2. SUFFICES ASSUME NEW j \in 1..Len(d), d[j].id = id, i < j PROVE FALSE
    OBVIOUS
  <2> QED BY <2>1, <2>2
<1>4. CASE PositionIn(b, id) # 0
  <2>1. PICK j \in 1..Len(b) : j = PositionIn(b, id) /\ b[j].id = id
    BY <1>4, PositionIsIn
  <2>2. j \in 1..n /\ d[j].id = id /\ j \in 1..Len(d)
    BY <2>1, <1>2 DEF Agree
  <2>3. PositionIn(d, d[j].id) = j
    BY <2>2, PositionIs
  <2> QED BY <2>1, <2>2, <2>3, <1>2
<1>5. CASE PositionIn(b, id) = 0
  <2>1. SUFFICES ASSUME PositionIn(d, id) # 0 PROVE FALSE
    BY <1>5
  <2>2. PICK j \in 1..Len(d) : d[j].id = id
    BY <2>1, PositionIsIn
  <2>3. j \in 1..n /\ b[j].id = id /\ j \in 1..Len(b)
    BY <2>2, <1>3 DEF Agree
  <2>4. PositionIn(b, b[j].id) = j
    BY <2>3, PositionIs
  <2> QED BY <2>3, <2>4, <1>5
<1> QED
  BY <1>4, <1>5

LEMMA BeforeIs ==
  ASSUME NEW b \in Seq(Entries), NEW n \in Nat
  PROVE  /\ BeforeIn(b, n) \in 0..Len(b)
         /\ BeforeIn(b, n) # 0 =>
              BeforeIn(b, n) < n /\ b[BeforeIn(b, n)].type = "compaction"
         /\ \A i \in 1..Len(b) :
              i < n /\ b[i].type = "compaction" =>
                i <= BeforeIn(b, n) /\ BeforeIn(b, n) # 0
<1> DEFINE earlier == {i \in CompactionsOf(b) : i < n}
<1>1. earlier \in SUBSET (1..Len(b)) /\ Len(b) \in Nat
  BY DEF CompactionsOf
<1>2. \A i \in earlier : i < n /\ b[i].type = "compaction"
  BY DEF CompactionsOf
<1>3. \A i \in 1..Len(b) : i < n /\ b[i].type = "compaction" => i \in earlier
  BY DEF CompactionsOf
<1>4. CASE earlier = {}
  BY <1>1, <1>3, <1>4 DEF BeforeIn
<1>5. CASE earlier # {}
  <2>1. /\ Greatest(earlier) \in earlier
        /\ \A j \in earlier : j <= Greatest(earlier)
    <3> HIDE DEF earlier
    <3> QED BY <1>1, <1>5, GreatestIs
  <2>2. BeforeIn(b, n) = Greatest(earlier)
    BY <1>5 DEF BeforeIn
  <2>3. BeforeIn(b, n) \in 1..Len(b)
    BY <1>1, <2>1, <2>2
  <2> HIDE DEF earlier
  <2> QED BY <1>2, <1>3, <2>1, <2>2, <2>3
<1> QED
  BY <1>4, <1>5

LEMMA BeforeStays ==
  ASSUME NEW b \in Seq(Entries), NEW d \in Seq(Entries), NEW n \in Nat,
         Agree(b, d, n), NEW x \in Nat, NEW y \in Nat,
         \A i \in 1..Len(b) : b[i].type = "compaction" =>
           (i < x <=> i <= n /\ i < y),
         \A i \in 1..Len(d) : d[i].type = "compaction" /\ i < y => i <= n
  PROVE  BeforeIn(b, x) = BeforeIn(d, y)
<1>1. \A i \in CompactionsOf(b) : i < x => i \in CompactionsOf(d) /\ i < y
  BY DEF CompactionsOf, Agree
<1>2. \A i \in CompactionsOf(d) : i < y => i \in CompactionsOf(b) /\ i < x
  BY DEF CompactionsOf, Agree
<1>3. {i \in CompactionsOf(b) : i < x} = {i \in CompactionsOf(d) : i < y}
  BY <1>1, <1>2
<1> QED
  BY <1>3 DEF BeforeIn

\* What a compaction is judged by are the entries it was prepared on.
LEMMA SoundnessStays ==
  ASSUME NEW b \in Seq(Entries), NEW d \in Seq(Entries),
         NEW n \in Nat, Agree(b, d, n),
         NEW m, NEW p \in 0..n, NEW h \in 0..n, NEW k \in 0..n, NEW l \in 0..n
  PROVE  IsSound(b, m, p, h, k, l) <=> IsSound(d, m, p, h, k, l)
<1>1. \A i \in 1..n : b[i] = d[i]
  BY DEF Agree
<1>2. \A x \in 0..n : MessagesFrom(b, 1, x - 1) = MessagesFrom(d, 1, x - 1)
  BY <1>1 DEF MessagesFrom
<1>3. HiddenOf(b, p, h, k) = HiddenOf(d, p, h, k)
  BY <1>2 DEF HiddenOf
<1> DEFINE S == HiddenOf(b, p, h, k)
<1>4. S \subseteq 1..(k - 1)
  BY DEF HiddenOf, MessagesFrom
<1>5. S \subseteq 1..n
  BY <1>4
<1> HIDE DEF S
<1>6. {b[i].id : i \in S} = {d[i].id : i \in S}
  BY <1>1, <1>5
<1>7. CutsTurnOf(b, S, k) <=> CutsTurnOf(d, S, k)
  <2>1. SUFFICES ASSUME S # {} PROVE CutsTurnOf(b, S, k) <=> CutsTurnOf(d, S, k)
    BY DEF CutsTurnOf
  <2>2. Least(S) \in S
    BY <1>5, <2>1, LeastIs
  <2>3. Least(S) \in 1..n
    BY <2>2, <1>5
  <2>4. \A i \in Least(S)..k : b[i] = d[i]
    BY <1>1, <2>3
  <2> QED BY <2>4 DEF CutsTurnOf
<1>8. CoversOf(b, m, p, S, k) <=> CoversOf(d, m, p, S, k)
  <2>1. p # 0 => b[p] = d[p]
    BY <1>1
  <2> QED BY <1>6, <1>7, <2>1 DEF CoversOf
<1>9. TracksOf(b, m, p, S) <=> TracksOf(d, m, p, S)
  <2>1. p # 0 => b[p] = d[p]
    BY <1>1
  <2> DEFINE A == {j \in S : b[j].type = "assistant"}
             F(e) == {e.calls[c] : c \in DOMAIN e.calls}
  <2>2. A = {j \in S : d[j].type = "assistant"} /\ \A i \in A : b[i] = d[i]
    BY <1>1, <1>5
  <2>3. {F(b[i]) : i \in A} = {F(d[i]) : i \in A}
    <3> HIDE DEF A, F
    <3> QED BY <2>2
  <2>4. FilesOf(b, S) = FilesOf(d, S)
    <3>1. FilesOf(b, S) = UNION {F(b[i]) : i \in A}
      BY DEF FilesOf
    <3>2. FilesOf(d, S) = UNION {F(d[i]) : i \in A}
      BY <2>2 DEF FilesOf
    <3> QED BY <2>3, <3>1, <3>2
  <2> QED BY <2>1, <2>4 DEF TracksOf
<1>10. \A x \in 1..n : SizeOf(b, x, l) = SizeOf(d, x, l)
  <2>1. SUFFICES ASSUME NEW x \in 1..n PROVE SizeOf(b, x, l) = SizeOf(d, x, l)
    OBVIOUS
  <2>2. {i \in x..l : IsMessage(b[i])} = {i \in x..l : IsMessage(d[i])}
    BY <1>1, <2>1
  <2> QED BY <2>2 DEF SizeOf
<1>11. FitsOf(b, m, S, k, l) <=> FitsOf(d, m, S, k, l)
  <2>1. \A i \in S : b[i] = d[i]
    BY <1>1, <1>5
  <2>2. \A i \in S : SizeOf(b, i, l) = SizeOf(d, i, l)
    BY <1>5, <1>10
  <2>3. S # {} => SizeOf(b, k, l) = SizeOf(d, k, l)
    <3>1. SUFFICES ASSUME NEW i \in S PROVE SizeOf(b, k, l) = SizeOf(d, k, l)
      OBVIOUS
    <3>2. k \in 1..n
      BY <1>4, <3>1
    <3> QED BY <1>10, <3>2
  <2> QED BY <2>1, <2>2, <2>3 DEF FitsOf
<1> QED
  BY <1>3, <1>8, <1>9, <1>11 DEF IsSound, S

-----------------------------------------------------------------------------
(* Sizes *)

LEMMA SizeIs ==
  ASSUME NEW i \in Int, NEW last \in Int
  PROVE  /\ IsFiniteSet({j \in i..last : IsMessage(branch[j])})
         /\ Size(i, last) \in Nat
<1>1. IsFiniteSet(i..last)
  BY FS_Interval
<1>2. IsFiniteSet({j \in i..last : IsMessage(branch[j])})
  BY <1>1, FS_Subset
<1> QED
  BY <1>2, FS_CardinalityType DEF Size

LEMMA SizeOfMessage ==
  ASSUME NEW i \in Int, NEW last \in Int, i <= last, IsMessage(branch[i])
  PROVE  Size(i, last) = Size(i + 1, last) + 1
<1> DEFINE T == {j \in (i + 1)..last : IsMessage(branch[j])}
<1>1. i \notin T
  OBVIOUS
<1>2. {j \in i..last : IsMessage(branch[j])} = T \union {i}
  OBVIOUS
<1>3. IsFiniteSet(T)
  BY SizeIs
<1>4. Cardinality(T \union {i}) = Cardinality(T) + 1
  <2> HIDE DEF T
  <2> QED BY <1>1, <1>3, FS_AddElement
<1> QED
  BY <1>2, <1>4 DEF Size

LEMMA SizeOfNoMessage ==
  ASSUME NEW i \in Int, NEW j \in Int, NEW last \in Int, i <= j,
         \A x \in i..(j - 1) : x <= last => ~IsMessage(branch[x])
  PROVE  Size(i, last) = Size(j, last)
<1>1. {x \in i..last : IsMessage(branch[x])}
        = {x \in j..last : IsMessage(branch[x])}
  OBVIOUS
<1> QED
  BY <1>1 DEF Size

LEMMA SizeShrinks ==
  ASSUME NEW i \in Int, NEW j \in Int, NEW last \in Int, i <= j
  PROVE  Size(j, last) <= Size(i, last)
<1> DEFINE S == {x \in i..last : IsMessage(branch[x])}
           T == {x \in j..last : IsMessage(branch[x])}
<1>1. T \in SUBSET S
  OBVIOUS
<1>2. IsFiniteSet(S)
  BY SizeIs
<1>3. Cardinality(T) <= Cardinality(S)
  <2> HIDE DEF S, T
  <2> QED BY <1>1, <1>2, FS_Subset
<1> QED
  BY <1>3 DEF Size

-----------------------------------------------------------------------------
(* The cut *)

\* The budget is reached exactly, or with the newest message.
LEMMA BudgetPointIs ==
  ASSUME NEW last \in Nat, NEW first \in 1..last, NEW budget \in Nat,
         BudgetPoint(first, last, budget) # 0
  PROVE  LET r == BudgetPoint(first, last, budget)
         IN /\ r \in first..last
            /\ IsMessage(branch[r])
            /\ Size(r, last) >= budget
            /\ Size(r, last) <= budget \/ Size(r, last) = 1
<1> DEFINE over == {i \in first..last :
                      IsMessage(branch[i]) /\ Size(i, last) >= budget}
           r == Greatest(over)
<1>1. over # {} /\ BudgetPoint(first, last, budget) = r
  BY DEF BudgetPoint
<1>2. over \in SUBSET (1..last)
  OBVIOUS
<1>3. r \in over /\ \A j \in over : j <= r
  <2> HIDE DEF over
  <2> QED BY <1>1, <1>2, GreatestIs
<1>4. /\ r \in first..last /\ IsMessage(branch[r]) /\ Size(r, last) >= budget
      /\ \A i \in first..last :
           i > r /\ IsMessage(branch[i]) => ~(Size(i, last) >= budget)
  BY <1>3
<1> HIDE DEF r, over
<1>5. Size(r, last) = Size(r + 1, last) + 1
  BY <1>4, SizeOfMessage
<1>6. Size(r, last) <= budget \/ Size(r, last) = 1
  <2> DEFINE later == {i \in (r + 1)..last : IsMessage(branch[i])}
  <2>1. later \in SUBSET (1..last)
    BY <1>4
  <2>2. CASE later = {}
    <3>1. Size(r + 1, last) = 0
      BY <2>2, FS_EmptySet DEF Size
    <3> QED BY <1>5, <3>1
  <2>3. CASE later # {}
    <3> DEFINE x == Least(later)
    <3>1. x \in later /\ \A j \in later : x <= j
      <4> HIDE DEF later
      <4> QED BY <2>1, <2>3, LeastIs
    <3>2. /\ x \in (r + 1)..last /\ IsMessage(branch[x])
          /\ \A j \in (r + 1)..last : IsMessage(branch[j]) => x <= j
      BY <3>1
    <3> HIDE DEF x, later
    <3>3. Size(r + 1, last) = Size(x, last)
      <4>1. \A j \in (r + 1)..(x - 1) : ~IsMessage(branch[j])
        BY <1>4, <3>2
      <4>2. r + 1 \in Int /\ x \in Int /\ r + 1 <= x
        BY <1>4, <3>2
      <4> QED BY <4>1, <4>2, SizeOfNoMessage
    <3>4. ~(Size(x, last) >= budget)
      BY <1>4, <3>2
    <3>5. Size(x, last) \in Nat
      <4>1. x \in Int /\ last \in Int
        BY <1>4, <3>2
      <4> QED BY <4>1, SizeIs
    <3> QED BY <1>5, <3>3, <3>4, <3>5
  <2> QED BY <2>2, <2>3
<1> QED
  BY <1>1, <1>4, <1>6

LEMMA CutPointIs ==
  ASSUME NEW last \in Nat, NEW first \in 1..last, NEW budget \in Nat,
         ValidCutPoints(first, last) # {}
  PROVE  LET q == CutPoint(first, last, budget)
             r == BudgetPoint(first, last, budget)
             points == ValidCutPoints(first, last)
         IN /\ q \in points
            /\ \/ \A i \in points : q <= i
               \/ r # 0 /\ q >= r /\ \A i \in points : i >= r => q <= i
<1> DEFINE q == CutPoint(first, last, budget)
           r == BudgetPoint(first, last, budget)
           points == ValidCutPoints(first, last)
           within == {i \in points : r # 0 /\ i >= r}
<1>1. points \in SUBSET (1..last)
  BY DEF ValidCutPoints
<1>2. within \in SUBSET (1..last)
  BY <1>1
<1>3. q = IF within # {} THEN Least(within) ELSE Least(points)
  BY DEF CutPoint
<1>4. CASE within # {}
  <2>1. q \in within /\ \A j \in within : q <= j
    <3> HIDE DEF within, q
    <3> QED BY <1>2, <1>3, <1>4, LeastIs
  <2>2. q \in points /\ r # 0 /\ q >= r /\ \A i \in points : i >= r => q <= i
    <3> HIDE DEF q, r, points
    <3> QED BY <2>1
  <2> QED BY <2>2
<1>5. CASE within = {}
  <2>1. q \in points /\ \A j \in points : q <= j
    <3>1. points # {}
      OBVIOUS
    <3> HIDE DEF within, q, points
    <3> QED BY <1>1, <1>3, <1>5, <3>1, LeastIs
  <2> QED BY <2>1
<1> QED
  BY <1>4, <1>5

\* What a cut hides and keeps.
LEMMA FirstKeptIs ==
  ASSUME NEW last \in Nat, NEW first \in 1..last, NEW budget \in Nat
  PROVE  LET cut == FirstKept(first, last, budget)
         IN /\ cut \in first..last
            /\ FitsOf(branch, [budget |-> budget],
                      MessagesFrom(branch, first, cut - 1), cut, last)
<1> DEFINE points == ValidCutPoints(first, last)
           cut == FirstKept(first, last, budget)
           S == MessagesFrom(branch, first, cut - 1)
           q == CutPoint(first, last, budget)
           r == BudgetPoint(first, last, budget)
<1> SUFFICES /\ cut \in first..last
             /\ FitsOf(branch, [budget |-> budget], S, cut, last)
  OBVIOUS
<1>1. CASE points = {}
  <2>1. cut = first
    BY <1>1 DEF FirstKept
  <2>2. S = {}
    BY <2>1 DEF MessagesFrom
  <2> QED BY <2>1, <2>2 DEF FitsOf
<1>2. CASE points # {}
  <2>1. q \in first..last /\ q \in points
    BY <1>2, CutPointIs DEF ValidCutPoints
  <2>2. \/ \A i \in points : q <= i
        \/ r # 0 /\ q >= r /\ \A i \in points : i >= r => q <= i
    BY <1>2, CutPointIs
  <2> DEFINE before ==
               {i \in first..q : \A j \in i..(q - 1) :
                  ~IsMessage(branch[j]) /\ branch[j].type # "compaction"}
  <2>3. cut = Least(before)
    BY <1>2 DEF FirstKept, WithSettings
  <2>4. before \in SUBSET (1..last)
    BY <2>1
  <2>5. q \in before
    BY <2>1
  <2>6. cut \in before
    <3> HIDE DEF before, cut, q
    <3> QED BY <2>3, <2>4, <2>5, LeastIs
  <2>7. cut \in first..q /\ \A j \in cut..(q - 1) : ~IsMessage(branch[j])
    BY <2>6
  <2>8. \A i \in S : /\ i \in first..last /\ i < q
                     /\ branch[i].type # "toolResult" => i \in points
    BY <2>1, <2>7 DEF MessagesFrom, ValidCutPoints
  <2>9. Size(cut, last) = Size(q, last)
    <3> HIDE DEF cut, q
    <3>1. cut \in Int /\ q \in Int /\ cut <= q
      BY <2>1, <2>7
    <3> QED BY <2>7, <3>1, SizeOfNoMessage
  <2>10. CASE \A i \in points : q <= i
    <3>1. \A i \in S : branch[i].type = "toolResult"
      <4>1. SUFFICES ASSUME NEW i \in S, i \in points PROVE FALSE
        BY <2>8
      <4>2. i < q /\ q <= i /\ i \in Int /\ q \in Int
        <5> HIDE DEF S, points, q
        <5> QED BY <2>1, <2>8, <2>10, <4>1
      <4> QED BY <4>2
    <3>2. cut \in first..last
      BY <2>1, <2>7
    <3> HIDE DEF S, cut
    <3> QED BY <3>1, <3>2 DEF FitsOf
  <2>11. CASE r # 0 /\ q >= r /\ \A i \in points : i >= r => q <= i
    <3>1. /\ r \in first..last /\ IsMessage(branch[r])
          /\ Size(r, last) >= budget
          /\ Size(r, last) <= budget \/ Size(r, last) = 1
      BY <2>11, BudgetPointIs
    <3>2. q \in first..last /\ q >= r /\ \A i \in points : i >= r => q <= i
      BY <2>1, <2>11
    <3>3. cut \in first..last /\ cut <= q
      BY <2>1, <2>7
    <3> HIDE DEF S, cut, q, r, points
    <3>4. /\ Size(q, last) \in Nat /\ Size(r, last) \in Nat
          /\ Size(q, last) <= Size(r, last)
      <4>1. q \in Int /\ r \in Int /\ r <= q /\ last \in Int
        BY <3>1, <3>2
      <4> QED BY <4>1, SizeIs, SizeShrinks
    <3>5. (\E i \in S : branch[i].type # "toolResult")
            => Size(cut, last) <= budget \/ Size(cut, last) = 1
      <4>1. Size(q, last) <= budget \/ Size(q, last) <= 1
        BY <3>1, <3>4
      <4>2. Size(q, last) # 0 \/ Size(q, last) <= budget
        BY <3>4
      <4> QED BY <2>9, <3>4, <4>1, <4>2
    <3>6. ASSUME NEW i \in S, IsMessage(branch[i]), Size(i, last) <= budget
          PROVE  branch[i].type = "toolResult"
      <4>1. SUFFICES ASSUME i \in points PROVE FALSE
        BY <2>8
      <4>2. i \in first..last /\ i < q
        BY <2>8
      <4>3. i < r
        BY <3>1, <3>2, <4>1, <4>2
      <4>4. Size(i, last) = Size(i + 1, last) + 1
        BY <3>6, <4>2, SizeOfMessage
      <4>5. Size(r, last) <= Size(i + 1, last)
        <5>1. i + 1 \in Int /\ r \in Int /\ i + 1 <= r
          BY <3>1, <4>2, <4>3
        <5> QED BY <5>1, SizeShrinks
      <4>6. Size(i + 1, last) \in Nat
        <5>1. i + 1 \in Int /\ last \in Int
          BY <4>2
        <5> QED BY <5>1, SizeIs
      <4> QED BY <3>1, <3>4, <3>6, <4>4, <4>5, <4>6
    <3>7. \A i \in Int : Size(i, last) = SizeOf(branch, i, last)
      BY DEF Size, SizeOf
    <3>8. \A i \in S : i \in Int
      BY <2>8
    <3>9. cut \in Int
      BY <3>3
    <3> QED BY <3>3, <3>5, <3>6, <3>7, <3>8, <3>9 DEF FitsOf
  <2> QED BY <2>2, <2>10, <2>11
<1> QED
  BY <1>1, <1>2

-----------------------------------------------------------------------------
(* The preparation *)

LEMMA TurnStartIs ==
  ASSUME NEW first \in Nat \ {0}, NEW cut \in Nat, NEW last \in Nat
  PROVE  LET turn == SplitAt(first, cut, last)
         IN turn # 0 =>
              /\ turn \in first..cut
              /\ StartsTurn(branch[turn])
              /\ \A i \in (turn + 1)..cut : ~StartsTurn(branch[i])
<1> DEFINE starts == {i \in first..cut : StartsTurn(branch[i])}
           turn == SplitAt(first, cut, last)
<1> SUFFICES ASSUME turn # 0
             PROVE  /\ turn \in first..cut
                    /\ StartsTurn(branch[turn])
                    /\ \A i \in (turn + 1)..cut : ~StartsTurn(branch[i])
  OBVIOUS
<1>1. starts # {} /\ turn = Greatest(starts)
  BY DEF SplitAt, TurnStart
<1>2. starts \in SUBSET (1..cut)
  OBVIOUS
<1>3. turn \in starts /\ \A j \in starts : j <= turn
  <2> HIDE DEF starts, turn
  <2> QED BY <1>1, <1>2, GreatestIs
<1>4. turn \in first..cut /\ StartsTurn(branch[turn])
  <2> HIDE DEF turn
  <2> QED BY <1>3
<1>5. \A i \in first..cut : StartsTurn(branch[i]) => i <= turn
  <2> HIDE DEF turn
  <2> QED BY <1>3
<1> HIDE DEF turn, starts
<1> QED
  BY <1>4, <1>5

LEMMA FilesAre ==
  ASSUME NEW b \in Seq(Entries), NEW S \in SUBSET (1..Len(b))
  PROVE  FilesOf(b, S) \subseteq Calls
<1> SUFFICES ASSUME NEW file \in FilesOf(b, S) PROVE file \in Calls
  OBVIOUS
<1>1. PICK i \in S : /\ b[i].type = "assistant"
                     /\ \E c \in DOMAIN b[i].calls : file = b[i].calls[c]
  BY DEF FilesOf
<1>2. b[i] \in Entries
  OBVIOUS
<1>3. b[i] \in AllAnswers
  BY <1>1, <1>2 DEF Entries, Plains, Results, Summaries, Messages
<1>4. b[i].calls \in Seq(Calls)
  BY <1>3 DEF AllAnswers
<1> QED
  BY <1>1, <1>4

LEMMA SummaryIs ==
  ASSUME NEW b \in Seq(Entries), NEW c \in 1..Len(b), b[c].type = "compaction"
  PROVE  b[c] \in Summaries
BY DEF Entries, Plains, AllAnswers, Results, Messages

\* What is summarised is what is taken out, and the earlier summary is passed
\* on unless all that is taken out begins one turn.
LEMMA PreparationIs ==
  ASSUME branch \in Seq(Entries), Grows(branch), NEW budget \in Budgets,
         branch # <<>>, branch[Len(branch)].type # "compaction"
  PROVE  LET m == Preparation(budget)
         IN /\ m \in Preparations
            /\ m.upTo = branch[Len(branch)].id
            /\ SoundIn(branch, m, BeforeIn(branch, Len(branch) + 1))
<1> DEFINE last == Len(branch)
           p == BeforeIn(branch, last + 1)
           h == KeptBy(branch, p)
           first == BoundaryStart(p)
           cut == FirstKept(first, last, budget)
           turn == SplitAt(first, cut, last)
           history == MessagesOf(first, (IF turn = 0 THEN cut ELSE turn) - 1)
           prefix == IF turn = 0 THEN {} ELSE MessagesOf(turn, cut - 1)
           m == Preparation(budget)
           S == MessagesFrom(branch, first, cut - 1)
<1>1. last \in Nat \ {0}
  OBVIOUS
<1>2. /\ \A id : Position(id) = PositionIn(branch, id)
      /\ \A n : CompactionBefore(n) = BeforeIn(branch, n)
      /\ \A T : Files(T) = FilesOf(branch, T)
  <2>1. Compactions = CompactionsOf(branch)
    BY DEF Compactions, CompactionsOf
  <2> QED
    BY <2>1 DEF Position, PositionIn, CompactionBefore, BeforeIn, Files, FilesOf
<1>3. p \in 0..last /\ (p # 0 => p < last /\ branch[p] \in Summaries)
  <2>1. /\ p \in 0..last
        /\ p # 0 => p < last + 1 /\ branch[p].type = "compaction"
    <3>1. last + 1 \in Nat
      OBVIOUS
    <3> QED BY <3>1, BeforeIs
  <2>2. p # 0 => p # last
    BY <2>1
  <2>3. p # 0 => branch[p] \in Summaries
    BY <2>1, SummaryIs
  <2> QED BY <2>1, <2>2, <2>3
<1>4. h \in Nat /\ (h # 0 => p # 0 /\ h < p)
  <2>1. CASE p = 0
    BY <2>1 DEF KeptBy
  <2>2. CASE p # 0
    <3>1. h = PositionIn(branch, branch[p].kept)
      BY <2>2 DEF KeptBy
    <3>2. h \in 0..last /\ (h # 0 => branch[h].id = branch[p].kept)
      BY <3>1, PositionIsIn
    <3>3. /\ branch[p].id \in Nat /\ branch[p].kept \in Nat
          /\ branch[p].kept < branch[p].id
      BY <1>3, <2>2 DEF Summaries
    <3>4. h # 0 => h < p
      <4>1. SUFFICES ASSUME h # 0, h >= p PROVE FALSE
        BY <1>3, <3>2
      <4>2. h = p \/ branch[p].id < branch[h].id
        BY <1>3, <2>2, <3>2, <4>1 DEF Grows
      <4> QED BY <3>2, <3>3, <4>1, <4>2
    <3> QED BY <2>2, <3>2, <3>4
  <2> QED BY <2>1, <2>2
<1>5. first = IF p = 0 THEN 1 ELSE IF h # 0 THEN h ELSE p + 1
  BY <1>2 DEF BoundaryStart, KeptBy
<1>6. first \in 1..last
  <2> HIDE DEF first, p, h
  <2> QED BY <1>1, <1>3, <1>4, <1>5
<1>7. budget \in Nat
  BY CompactionAssumption
<1>8. /\ cut \in first..last
      /\ FitsOf(branch, [budget |-> budget], S, cut, last)
  <2> HIDE DEF first
  <2> QED BY <1>1, <1>6, <1>7, FirstKeptIs
<1>9. turn # 0 => /\ turn \in first..cut
                  /\ StartsTurn(branch[turn])
                  /\ \A i \in (turn + 1)..cut : ~StartsTurn(branch[i])
  <2>1. first \in Nat \ {0} /\ cut \in Nat /\ last \in Nat
    <3> HIDE DEF first, cut
    <3> QED BY <1>6, <1>8
  <2> HIDE DEF first, cut
  <2> QED BY <2>1, TurnStartIs
<1>10. /\ m.kept = branch[cut].id
       /\ m.told = {branch[i].id : i \in history \union prefix}
            \union (IF p # 0 /\ TellsEarlier(history, prefix)
                    THEN branch[p].told ELSE {})
       /\ m.files = FilesOf(branch, history \union prefix)
            \union (IF p # 0 THEN branch[p].files ELSE {})
       /\ m.budget = budget
       /\ m.upTo = branch[last].id
       /\ m = [kept |-> m.kept, told |-> m.told, files |-> m.files,
               budget |-> m.budget, upTo |-> m.upTo]
  <2>1. CompactionBefore(last + 1) = p
    BY <1>2
  <2> HIDE DEF p
  <2>2. m = [kept |-> branch[cut].id,
             told |-> IdsOf(history \union prefix)
                \union (IF p # 0 /\ TellsEarlier(history, prefix)
                        THEN branch[p].told ELSE {}),
             files |-> Files(history \union prefix)
                 \union (IF p # 0 THEN branch[p].files ELSE {}),
             budget |-> budget,
             upTo |-> branch[last].id]
    BY <2>1 DEF Preparation
  <2> HIDE DEF m, cut, history, prefix, last
  <2> QED BY <2>2, <1>2 DEF IdsOf
<1> HIDE DEF m
<1>11. history
         = MessagesFrom(branch, first, (IF turn = 0 THEN cut ELSE turn) - 1)
  BY DEF MessagesOf, MessagesFrom
<1>12. prefix = IF turn = 0 THEN {} ELSE MessagesFrom(branch, turn, cut - 1)
  BY DEF MessagesOf, MessagesFrom
<1> HIDE DEF turn, cut, first, history, prefix, h, p
<1>13. history \union prefix = S
  BY <1>6, <1>8, <1>9, <1>11, <1>12 DEF MessagesFrom
<1>14. HiddenOf(branch, p, h, cut) = S
  <2>1. CASE p = 0
    BY <2>1, <1>5 DEF HiddenOf
  <2>2. CASE p # 0 /\ h = 0
    <3>1. first = p + 1 /\ h \notin 1..(p - 1)
      BY <2>2, <1>5
    <3>2. HiddenOf(branch, p, h, cut)
            = {i \in MessagesFrom(branch, 1, cut - 1) : i > p}
      BY <2>2, <3>1 DEF HiddenOf
    <3> QED BY <1>3, <3>1, <3>2 DEF MessagesFrom
  <2>3. CASE p # 0 /\ h # 0
    <3>1. first = h /\ h \in 1..(p - 1)
      BY <2>3, <1>3, <1>4, <1>5
    <3>2. HiddenOf(branch, p, h, cut)
            = MessagesFrom(branch, 1, cut - 1) \ MessagesFrom(branch, 1, h - 1)
      BY <2>3, <3>1 DEF HiddenOf
    <3> QED BY <1>8, <3>1, <3>2 DEF MessagesFrom
  <2> QED BY <2>1, <2>2, <2>3
<1>15. CoversOf(branch, m, p, S, cut)
  <2>1. {branch[i].id : i \in S} \subseteq m.told
    BY <1>10, <1>13
  <2>2. ASSUME p # 0, ~(branch[p].told \subseteq m.told)
        PROVE  CutsTurnOf(branch, S, cut)
    <3>1. history = {} /\ prefix # {}
      BY <1>10, <2>2 DEF TellsEarlier
    <3>2. turn # 0 /\ prefix = MessagesFrom(branch, turn, cut - 1) /\ S = prefix
      BY <1>12, <1>13, <3>1
    <3>3. HasMessage(branch[turn])
      BY <1>9, <3>2 DEF StartsTurn, HasMessage, IsMessage
    <3>4. turn \in S /\ \A i \in S : turn <= i
      BY <1>6, <1>8, <1>9, <3>1, <3>2, <3>3 DEF MessagesFrom
    <3>5. S \in SUBSET (1..last)
      BY <1>6, <1>8 DEF MessagesFrom
    <3>6. Least(S) \in S /\ \A i \in S : Least(S) <= i
      <4> HIDE DEF S
      <4> QED BY <1>1, <3>4, <3>5, LeastIs
    <3>7. Least(S) = turn
      <4> HIDE DEF S
      <4> QED BY <3>4, <3>5, <3>6
    <3>8. \A i \in turn..cut : StartsTurn(branch[i]) <=> i = turn
      BY <1>6, <1>8, <1>9, <3>2
    <3> HIDE DEF S
    <3> QED BY <3>4, <3>7, <3>8 DEF CutsTurnOf
  <2> HIDE DEF S
  <2> QED BY <2>1, <2>2 DEF CoversOf
<1>16. TracksOf(branch, m, p, S)
  <2> HIDE DEF S
  <2> QED BY <1>10, <1>13 DEF TracksOf
<1>17. FitsOf(branch, m, S, cut, last)
  <2> HIDE DEF S
  <2> QED BY <1>8, <1>10 DEF FitsOf
<1>18. PositionIn(branch, m.kept) = cut /\ PositionIn(branch, m.upTo) = last
  <2>1. cut \in 1..Len(branch) /\ last \in 1..Len(branch)
    BY <1>1, <1>6, <1>8
  <2>2. /\ PositionIn(branch, branch[cut].id) = cut
        /\ PositionIn(branch, branch[last].id) = last
    <3> HIDE DEF last
    <3> QED BY <2>1, PositionIs
  <2> QED BY <1>10, <2>2
<1>19. SoundIn(branch, m, p)
  <2>1. IsSound(branch, m, p, h, cut, last)
    <3> HIDE DEF S, last
    <3> QED BY <1>14, <1>15, <1>16, <1>17 DEF IsSound
  <2> QED BY <1>18, <2>1 DEF SoundIn, h
<1>20. m \in Preparations
  <2>1. \A i \in 1..last : branch[i].id \in Nat
    BY DEF Entries, Plains, AllAnswers, Results, Summaries
  <2>2. cut \in 1..last /\ S \subseteq 1..last
    BY <1>6, <1>8 DEF MessagesFrom
  <2>3. m.kept \in Nat /\ m.upTo \in Nat /\ m.kept <= m.upTo
    <3>1. branch[cut].id <= branch[last].id
      BY <1>1, <2>1, <2>2 DEF Grows
    <3> QED BY <1>1, <1>10, <2>1, <2>2, <3>1
  <2>4. p # 0 => branch[p].told \subseteq Nat /\ branch[p].files \subseteq Calls
    BY <1>3 DEF Summaries
  <2>5. m.told \subseteq Nat
    <3> HIDE DEF S, last
    <3> QED BY <1>10, <1>13, <2>1, <2>2, <2>4
  <2>6. m.files \subseteq Calls
    <3>1. FilesOf(branch, S) \subseteq Calls
      <4> HIDE DEF S
      <4> QED BY <2>2, FilesAre
    <3> HIDE DEF S
    <3> QED BY <1>10, <1>13, <2>4, <3>1
  <2> QED BY <1>10, <2>3, <2>5, <2>6 DEF Preparations
<1> QED
  BY <1>10, <1>19, <1>20 DEF m, p

-----------------------------------------------------------------------------
(* The invariant *)

\* The compaction whose summary is asked for is sound where it was prepared,
\* and no other comes after it, as long as the branch still holds that place.
PreparedIsSound ==
  prepared # None /\ PositionIn(branch, prepared.upTo) # 0 =>
    /\ \A i \in CompactionsOf(branch) : i < PositionIn(branch, prepared.upTo)
    /\ SoundIn(branch, prepared, BeforeIn(branch, Len(branch) + 1))

IInv == Types /\ Drawn /\ CompactionsAreSound(branch) /\ PreparedIsSound

\* A step leaves n entries of the branch and appends one at most, with a new
\* id.
Edits(b, d, n) ==
  /\ Agree(b, d, n)
  /\ Len(d) \in n..(n + 1)
  /\ d \in Seq(Entries)
  /\ Grows(d)

\* Soundness does not depend on what comes later.
LEMMA SoundnessStaysIn ==
  ASSUME NEW b \in Seq(Entries), NEW d \in Seq(Entries), Grows(b), Grows(d),
         NEW n \in Nat, Agree(b, d, n),
         NEW m, m.kept \in Nat, m.upTo \in Nat, m.kept <= m.upTo,
         NEW i \in 1..n, m.upTo <= b[i].id,
         NEW p \in 0..n, p # 0 => b[p].type = "compaction"
  PROVE  /\ PositionIn(d, m.upTo) = PositionIn(b, m.upTo)
         /\ SoundIn(b, m, p) <=> SoundIn(d, m, p)
<1>1. /\ PositionIn(d, m.upTo) = PositionIn(b, m.upTo)
      /\ PositionIn(b, m.upTo) <= i
  BY PositionStays
<1>2. b[i].id \in Nat
  <2>1. b[i] \in Entries
    BY DEF Agree
  <2> QED BY <2>1 DEF Entries, Plains, AllAnswers, Results, Summaries
<1>3. /\ PositionIn(d, m.kept) = PositionIn(b, m.kept)
      /\ PositionIn(b, m.kept) <= i
  <2>1. m.kept <= b[i].id
    BY <1>2
  <2> QED BY <2>1, PositionStays
<1>4. KeptBy(d, p) = KeptBy(b, p) /\ KeptBy(b, p) \in 0..n
  <2>1. CASE p = 0
    BY <2>1 DEF KeptBy
  <2>2. CASE p # 0
    <3>1. p \in 1..n /\ b[p] = d[p] /\ p \in 1..Len(b)
      BY <2>2 DEF Agree
    <3>2. b[p] \in Summaries
      BY <2>2, <3>1, SummaryIs
    <3>3. b[p].kept \in Nat /\ b[p].kept <= b[p].id
      BY <3>2 DEF Summaries
    <3>4. /\ PositionIn(d, b[p].kept) = PositionIn(b, b[p].kept)
          /\ PositionIn(b, b[p].kept) <= p
      BY <3>1, <3>3, PositionStays
    <3>5. PositionIn(b, b[p].kept) \in 0..Len(b)
      BY PositionIsIn
    <3> QED BY <2>2, <3>1, <3>4, <3>5 DEF KeptBy
  <2> QED BY <2>1, <2>2
<1>5. PositionIn(b, m.kept) \in 0..n /\ PositionIn(b, m.upTo) \in 0..n
  <2>1. /\ PositionIn(b, m.kept) \in 0..Len(b)
        /\ PositionIn(b, m.upTo) \in 0..Len(b)
    BY PositionIsIn
  <2> QED BY <1>1, <1>3, <2>1
<1> DEFINE k == PositionIn(b, m.kept)
           l == PositionIn(b, m.upTo)
<1>6. IsSound(b, m, p, KeptBy(b, p), k, l)
        <=> IsSound(d, m, p, KeptBy(b, p), k, l)
  BY <1>4, <1>5, SoundnessStays
<1> QED
  BY <1>1, <1>3, <1>4, <1>6 DEF SoundIn

\* So the compactions on the branch stay sound ...
LEMMA CompactionsStaySound ==
  ASSUME NEW b \in Seq(Entries), Grows(b), CompactionsAreSound(b),
         NEW n \in Nat, NEW d, Edits(b, d, n),
         Len(d) = n + 1 /\ d[n + 1].type = "compaction"
           /\ PositionIn(d, d[n + 1].upTo) \in 1..n
           => SoundIn(d, d[n + 1], BeforeIn(d, n + 1))
  PROVE  CompactionsAreSound(d)
<1>1. d \in Seq(Entries) /\ Grows(d) /\ Agree(b, d, n) /\ Len(d) \in n..(n + 1)
  BY DEF Edits
<1> SUFFICES ASSUME NEW c \in CompactionsOf(d),
                    PositionIn(d, d[c].upTo) \in 1..(c - 1)
             PROVE  SoundIn(d, d[c], BeforeIn(d, c))
  BY DEF CompactionsAreSound
<1>2. c \in 1..Len(d) /\ d[c].type = "compaction"
  BY <1>1 DEF CompactionsOf
<1>3. CASE c = n + 1
  <2>1. Len(d) = n + 1
    BY <1>1, <1>2, <1>3
  <2> QED BY <1>2, <1>3, <2>1
<1>4. CASE c # n + 1
  <2>1. c \in 1..n /\ b[c] = d[c] /\ c \in 1..Len(b) /\ c \in Nat
    BY <1>1, <1>2, <1>4 DEF Agree
  <2>2. b[c] \in Summaries /\ c \in CompactionsOf(b)
    BY <1>2, <2>1, SummaryIs DEF CompactionsOf
  <2>3. /\ b[c].kept \in Nat /\ b[c].upTo \in Nat /\ b[c].kept <= b[c].upTo
        /\ b[c].upTo <= b[c].id
    BY <2>2 DEF Summaries
  <2>4. BeforeIn(b, c) = BeforeIn(d, c)
    <3>1. \A i \in 1..Len(b) :
            b[i].type = "compaction" => (i < c <=> i <= n /\ i < c)
      BY <2>1
    <3>2. \A i \in 1..Len(d) : d[i].type = "compaction" /\ i < c => i <= n
      BY <2>1
    <3> QED BY <1>1, <2>1, <3>1, <3>2, BeforeStays
  <2>5. /\ BeforeIn(b, c) \in 0..n
        /\ BeforeIn(b, c) # 0 => b[BeforeIn(b, c)].type = "compaction"
    <3>1. /\ BeforeIn(b, c) \in 0..Len(b)
          /\ BeforeIn(b, c) # 0 =>
               BeforeIn(b, c) < c /\ b[BeforeIn(b, c)].type = "compaction"
      BY <2>1, BeforeIs
    <3> QED BY <2>1, <3>1
  <2>6. /\ PositionIn(d, b[c].upTo) = PositionIn(b, b[c].upTo)
        /\ SoundIn(b, b[c], BeforeIn(b, c)) <=> SoundIn(d, b[c], BeforeIn(b, c))
    BY <1>1, <2>1, <2>3, <2>5, SoundnessStaysIn
  <2>7. SoundIn(b, b[c], BeforeIn(b, c))
    BY <2>1, <2>2, <2>6 DEF CompactionsAreSound
  <2> QED BY <2>1, <2>4, <2>6, <2>7
<1> QED
  BY <1>3, <1>4

\* ... and so does the compaction whose summary is asked for.
LEMMA PreparedStaysSound ==
  ASSUME NEW b \in Seq(Entries), Grows(b), NEW m \in Preparations,
         NEW n \in Nat, NEW d, Edits(b, d, n),
         Len(d) = n + 1 => d[n + 1].type # "compaction" /\ m.upTo < d[n + 1].id,
         PositionIn(b, m.upTo) # 0 =>
           /\ \A i \in CompactionsOf(b) : i < PositionIn(b, m.upTo)
           /\ SoundIn(b, m, BeforeIn(b, Len(b) + 1)),
         PositionIn(d, m.upTo) # 0
  PROVE  /\ \A i \in CompactionsOf(d) : i < PositionIn(d, m.upTo)
         /\ SoundIn(d, m, BeforeIn(d, Len(d) + 1))
<1>1. d \in Seq(Entries) /\ Grows(d) /\ Agree(b, d, n) /\ Len(d) \in n..(n + 1)
  BY DEF Edits
<1>2. m.kept \in Nat /\ m.upTo \in Nat /\ m.kept <= m.upTo
  BY DEF Preparations
<1>3. PICK l \in 1..Len(d) : l = PositionIn(d, m.upTo) /\ d[l].id = m.upTo
  BY <1>1, PositionIsIn
<1>4. l \in 1..n /\ b[l].id = m.upTo /\ l \in 1..Len(b)
  <2>1. l # n + 1
    BY <1>1, <1>2, <1>3
  <2> QED BY <1>1, <1>3, <2>1 DEF Agree
<1>5. PositionIn(b, m.upTo) = l
  BY <1>4, PositionIs
<1>6. \A i \in CompactionsOf(b) : i < l
  BY <1>4, <1>5
<1>7. \A i \in CompactionsOf(d) : i < l
  <2>1. SUFFICES ASSUME NEW i \in CompactionsOf(d) PROVE i \in CompactionsOf(b)
    BY <1>6
  <2>2. i \in 1..n
    BY <1>1 DEF CompactionsOf
  <2> QED BY <1>1, <2>2 DEF CompactionsOf, Agree
<1>8. BeforeIn(b, Len(b) + 1) = BeforeIn(d, Len(d) + 1)
  <2>1. \A i \in 1..Len(b) : b[i].type = "compaction" => i < l
    BY <1>6 DEF CompactionsOf
  <2>2. \A i \in 1..Len(d) : d[i].type = "compaction" => i < l
    BY <1>7 DEF CompactionsOf
  <2> DEFINE x == Len(b) + 1
             y == Len(d) + 1
  <2>3. x \in Nat /\ y \in Nat
    BY <1>1
  <2>4. \A i \in 1..Len(b) : b[i].type = "compaction" =>
          (i < x <=> i <= n /\ i < y)
    BY <1>1, <1>3, <1>4, <2>1
  <2>5. \A i \in 1..Len(d) : d[i].type = "compaction" /\ i < y => i <= n
    BY <1>4, <2>2
  <2>6. BeforeIn(b, x) = BeforeIn(d, y)
    <3> HIDE DEF x, y
    <3> QED BY <1>1, <2>3, <2>4, <2>5, BeforeStays
  <2> QED BY <2>6
<1> DEFINE p == BeforeIn(b, Len(b) + 1)
<1>9. p \in 0..n /\ (p # 0 => b[p].type = "compaction")
  <2>1. /\ p \in 0..Len(b)
        /\ p # 0 => b[p].type = "compaction"
    <3>1. Len(b) + 1 \in Nat
      OBVIOUS
    <3> QED BY <3>1, BeforeIs
  <2>2. p # 0 => p < l
    BY <1>6, <2>1 DEF CompactionsOf
  <2> HIDE DEF p
  <2> QED BY <1>4, <2>1, <2>2
<1>10. SoundIn(b, m, p) <=> SoundIn(d, m, p)
  <2>1. m.upTo <= b[l].id
    BY <1>2, <1>4
  <2> HIDE DEF p
  <2> QED BY <1>1, <1>2, <1>4, <1>9, <2>1, SoundnessStaysIn
<1> QED
  BY <1>3, <1>4, <1>5, <1>7, <1>8, <1>10

-----------------------------------------------------------------------------
(* The steps *)

LEMMA NewEntry ==
  ASSUME Types, Drawn, NEW e \in Entries, e.id = drawn + 1,
         NEW n \in 0..Len(branch),
         NEW d, d = Append(SubSeq(branch, 1, n), e)
  PROVE  /\ Edits(branch, d, n)
         /\ Len(d) = n + 1 /\ d[n + 1] = e
         /\ \A i \in 1..Len(d) : d[i].id <= drawn + 1
<1>1. branch \in Seq(Entries) /\ drawn \in Nat
  BY DEF Types
<1>2. /\ SubSeq(branch, 1, n) \in Seq(Entries)
      /\ Len(SubSeq(branch, 1, n)) = n
      /\ \A i \in 1..n : SubSeq(branch, 1, n)[i] = branch[i]
  BY <1>1
<1>3. /\ d \in Seq(Entries) /\ Len(d) = n + 1 /\ d[n + 1] = e
      /\ \A i \in 1..n : d[i] = branch[i]
  BY <1>2
<1>4. \A i \in 1..n : branch[i].id \in Nat /\ branch[i].id <= drawn
  BY <1>1 DEF Drawn, Entries, Plains, AllAnswers, Results, Summaries
<1>5. \A i \in 1..Len(d) : d[i].id <= drawn + 1
  BY <1>1, <1>3, <1>4
<1>6. Grows(d)
  <2>1. \A i, j \in 1..n : i < j => d[i].id < d[j].id
    BY <1>1, <1>3 DEF Grows, Drawn
  <2>2. \A i \in 1..n : d[i].id < d[n + 1].id
    BY <1>1, <1>3, <1>4
  <2> QED BY <1>3, <2>1, <2>2 DEF Grows
<1>7. Agree(branch, d, n)
  BY <1>1, <1>3 DEF Agree
<1> QED
  BY <1>3, <1>5, <1>6, <1>7 DEF Edits

LEMMA StemIs ==
  ASSUME Types, Drawn, NEW n \in 0..Len(branch),
         NEW d, d = SubSeq(branch, 1, n)
  PROVE  /\ Edits(branch, d, n)
         /\ Len(d) = n
         /\ \A i \in 1..Len(d) : d[i].id <= drawn
<1>1. branch \in Seq(Entries)
  BY DEF Types
<1>2. /\ d \in Seq(Entries) /\ Len(d) = n
      /\ \A i \in 1..n : d[i] = branch[i]
  BY <1>1
<1> QED
  BY <1>1, <1>2 DEF Edits, Agree, Grows, Drawn

\* A step that appends no compaction and prepares none.
LEMMA EditsKeepSoundness ==
  ASSUME Types, Drawn, CompactionsAreSound(branch), PreparedIsSound,
         NEW n \in Nat, NEW d, Edits(branch, d, n),
         Len(d) = n + 1 =>
           d[n + 1].type # "compaction" /\ d[n + 1].id = drawn + 1
  PROVE  /\ CompactionsAreSound(d)
         /\ prepared # None /\ PositionIn(d, prepared.upTo) # 0 =>
              /\ \A i \in CompactionsOf(d) : i < PositionIn(d, prepared.upTo)
              /\ SoundIn(d, prepared, BeforeIn(d, Len(d) + 1))
<1>1. branch \in Seq(Entries) /\ Grows(branch) /\ drawn \in Nat
  BY DEF Types, Drawn
<1>2. CompactionsAreSound(d)
  BY <1>1, CompactionsStaySound
<1>3. ASSUME prepared # None, PositionIn(d, prepared.upTo) # 0
      PROVE  /\ \A i \in CompactionsOf(d) : i < PositionIn(d, prepared.upTo)
             /\ SoundIn(d, prepared, BeforeIn(d, Len(d) + 1))
  <2>1. prepared \in Preparations
    BY <1>3 DEF Types
  <2>2. Len(d) = n + 1 =>
          d[n + 1].type # "compaction" /\ prepared.upTo < d[n + 1].id
    BY <1>1, <1>3, <2>1 DEF Drawn, Preparations
  <2>3. PositionIn(branch, prepared.upTo) # 0 =>
          /\ \A i \in CompactionsOf(branch) :
               i < PositionIn(branch, prepared.upTo)
          /\ SoundIn(branch, prepared, BeforeIn(branch, Len(branch) + 1))
    BY <1>3 DEF PreparedIsSound
  <2> QED BY <1>1, <1>3, <2>1, <2>2, <2>3, PreparedStaysSound
<1> QED
  BY <1>2, <1>3

\* An entry that is no compaction is appended to a stem of the branch.
LEMMA AppendingKeepsSoundness ==
  ASSUME IInv, NEW n \in 0..Len(branch), NEW e \in Entries, e.id = drawn + 1,
         e.type # "compaction", branch' = Append(SubSeq(branch, 1, n), e),
         drawn' = drawn + 1, prepared' = prepared, pending' \in Seq(Calls)
  PROVE  IInv'
<1>1. /\ Edits(branch, branch', n)
      /\ Len(branch') = n + 1 /\ branch'[n + 1] = e
      /\ \A i \in 1..Len(branch') : branch'[i].id <= drawn + 1
  <2>1. PICK d : d = branch'
    OBVIOUS
  <2>2. Types /\ Drawn /\ d = Append(SubSeq(branch, 1, n), e)
    BY <2>1 DEF IInv
  <2>3. /\ Edits(branch, d, n)
        /\ Len(d) = n + 1 /\ d[n + 1] = e
        /\ \A i \in 1..Len(d) : d[i].id <= drawn + 1
    BY <2>2, NewEntry
  <2> QED BY <2>1, <2>3
<1>2. /\ CompactionsAreSound(branch')
      /\ prepared # None /\ PositionIn(branch', prepared.upTo) # 0 =>
           /\ \A i \in CompactionsOf(branch') :
                i < PositionIn(branch', prepared.upTo)
           /\ SoundIn(branch', prepared, BeforeIn(branch', Len(branch') + 1))
  <2>1. PICK d : d = branch'
    OBVIOUS
  <2>2. /\ n \in Nat /\ Edits(branch, d, n)
        /\ Len(d) = n + 1 =>
             d[n + 1].type # "compaction" /\ d[n + 1].id = drawn + 1
    BY <1>1, <2>1
  <2>3. Types /\ Drawn /\ CompactionsAreSound(branch) /\ PreparedIsSound
    BY DEF IInv
  <2>4. /\ CompactionsAreSound(d)
        /\ prepared # None /\ PositionIn(d, prepared.upTo) # 0 =>
             /\ \A i \in CompactionsOf(d) : i < PositionIn(d, prepared.upTo)
             /\ SoundIn(d, prepared, BeforeIn(d, Len(d) + 1))
    BY <2>2, <2>3, EditsKeepSoundness
  <2> QED BY <2>1, <2>4
<1>3. Types'
  BY <1>1 DEF IInv, Types, Edits
<1>4. Drawn'
  <2>1. /\ drawn \in Nat
        /\ prepared # None => prepared.upTo \in Nat /\ prepared.upTo <= drawn
    BY DEF IInv, Types, Drawn, Preparations
  <2>2. Grows(branch')
    BY <1>1 DEF Edits
  <2> QED BY <1>1, <2>1, <2>2 DEF Drawn
<1>5. PreparedIsSound'
  BY <1>2 DEF PreparedIsSound
<1>6. CompactionsAreSound(branch)'
  BY <1>2
<1> QED
  BY <1>3, <1>4, <1>5, <1>6 DEF IInv

LEMMA WholeBranch ==
  ASSUME NEW b \in Seq(Entries)
  PROVE  SubSeq(b, 1, Len(b)) = b /\ Len(b) \in 0..Len(b)
OBVIOUS

LEMMA PlainStep == ASSUME IInv, AppendPlain PROVE IInv'
<1>1. PICK type \in Plain : Appending(Entry(drawn + 1, type))
  BY DEF AppendPlain
<1>2. UNCHANGED <<pending, prepared, moves>>
  BY DEF AppendPlain
<1>3. PICK e : e = Entry(drawn + 1, type)
  OBVIOUS
<1>4. e \in Entries /\ e.id = drawn + 1 /\ e.type # "compaction"
  <2>1. drawn + 1 \in Nat
    BY DEF IInv, Types
  <2>2. type \in Messages \union {"setting"} /\ type # "compaction"
    BY CompactionAssumption DEF Messages
  <2> QED BY <1>3, <2>1, <2>2 DEF Entry, Entries, Plains
<1>5. branch' = Append(SubSeq(branch, 1, Len(branch)), e) /\ drawn' = drawn + 1
  <2>1. branch \in Seq(Entries)
    BY DEF IInv, Types
  <2> QED BY <1>1, <1>3, <2>1, WholeBranch DEF Appending
<1>6. /\ prepared' = prepared /\ pending' \in Seq(Calls)
      /\ Len(branch) \in 0..Len(branch)
  BY <1>2 DEF IInv, Types
<1> QED
  BY <1>4, <1>5, <1>6, AppendingKeepsSoundness

LEMMA AnswerStep == ASSUME IInv, AppendAnswer PROVE IInv'
<1>1. PICK a \in Answers :
        /\ Appending(Answer(drawn + 1, a[1], a[2]))
        /\ pending' = IF Answer(drawn + 1, a[1], a[2]).failed THEN <<>>
                      ELSE Answer(drawn + 1, a[1], a[2]).calls
  BY DEF AppendAnswer
<1>2. UNCHANGED <<prepared, moves>>
  BY DEF AppendAnswer
<1>3. PICK e : e = Answer(drawn + 1, a[1], a[2])
  OBVIOUS
<1>4. /\ e \in AllAnswers /\ e.id = drawn + 1 /\ e.type # "compaction"
      /\ e.calls \in Seq(Calls)
  <2>1. drawn + 1 \in Nat /\ a[1] \in Nat /\ a[2] \in BOOLEAN
    BY CompactionAssumption DEF IInv, Types
  <2>2. [k \in 1..a[1] |-> <<drawn + 1, k>>] \in Seq(Calls)
    BY <2>1 DEF Calls
  <2> QED BY <1>3, <2>1, <2>2 DEF Answer, AllAnswers
<1>5. branch' = Append(SubSeq(branch, 1, Len(branch)), e) /\ drawn' = drawn + 1
  <2>1. branch \in Seq(Entries)
    BY DEF IInv, Types
  <2> QED BY <1>1, <1>3, <2>1, WholeBranch DEF Appending
<1>6. /\ prepared' = prepared /\ pending' \in Seq(Calls)
      /\ Len(branch) \in 0..Len(branch)
  <2>1. pending' = <<>> \/ pending' = e.calls
    BY <1>1, <1>3
  <2>2. Len(branch) \in 0..Len(branch)
    BY WholeBranch DEF IInv, Types
  <2>3. pending' \in Seq(Calls)
    <3>1. <<>> \in Seq(Calls)
      OBVIOUS
    <3> QED BY <1>4, <2>1, <3>1, Zenon
  <2>4. prepared' = prepared
    BY <1>2
  <2> QED BY <2>2, <2>3, <2>4
<1>7. e \in Entries
  BY <1>4 DEF Entries
<1> QED
  BY <1>4, <1>5, <1>6, <1>7, AppendingKeepsSoundness

LEMMA ResultStep == ASSUME IInv, AppendResult PROVE IInv'
<1>1. pending # <<>> /\ pending \in Seq(Calls)
  BY DEF AppendResult, IInv, Types
<1>2. PICK e : e = Result(drawn + 1, Head(pending))
  OBVIOUS
<1>3. e \in Entries /\ e.id = drawn + 1 /\ e.type # "compaction"
  <2>1. drawn + 1 \in Nat
    BY DEF IInv, Types
  <2>2. Head(pending) \in Calls
    BY <1>1
  <2>3. e \in Results /\ e.id = drawn + 1 /\ e.type # "compaction"
    BY <1>2, <2>1, <2>2 DEF Result, Results
  <2> QED BY <2>3 DEF Entries
<1>4. branch' = Append(SubSeq(branch, 1, Len(branch)), e) /\ drawn' = drawn + 1
  <2>1. branch \in Seq(Entries)
    BY DEF IInv, Types
  <2> QED BY <1>2, <2>1, WholeBranch DEF AppendResult, Appending
<1>5. /\ prepared' = prepared /\ pending' \in Seq(Calls)
      /\ Len(branch) \in 0..Len(branch)
  <2>1. pending' = Tail(pending) /\ prepared' = prepared
    BY DEF AppendResult
  <2>2. Len(branch) \in 0..Len(branch)
    BY WholeBranch DEF IInv, Types
  <2> QED BY <1>1, <2>1, <2>2
<1> QED
  BY <1>3, <1>4, <1>5, AppendingKeepsSoundness

LEMMA PrepareStep == ASSUME IInv, Prepare PROVE IInv'
<1>1. PICK budget \in Budgets : prepared' = Preparation(budget)
  BY DEF Prepare
<1>2. /\ branch # <<>> /\ branch[Len(branch)].type # "compaction"
      /\ pending' = <<>> /\ UNCHANGED <<branch, drawn, moves>>
  BY DEF Prepare
<1>3. PICK m : m = Preparation(budget)
  OBVIOUS
<1>4. branch \in Seq(Entries) /\ Grows(branch)
  BY DEF IInv, Types, Drawn
<1>5. /\ m \in Preparations
      /\ m.upTo = branch[Len(branch)].id
      /\ SoundIn(branch, m, BeforeIn(branch, Len(branch) + 1))
  BY <1>2, <1>3, <1>4, PreparationIs
<1>6. Len(branch) \in 1..Len(branch)
  BY <1>2, <1>4
<1>7. PositionIn(branch, m.upTo) = Len(branch)
  <2>1. PICK i : i = Len(branch)
    OBVIOUS
  <2>2. i \in 1..Len(branch)
    BY <1>6, <2>1
  <2>3. PositionIn(branch, branch[i].id) = i
    BY <1>4, <2>2, PositionIs
  <2> QED BY <1>5, <2>1, <2>3
<1>8. \A i \in CompactionsOf(branch) : i < Len(branch)
  BY <1>2, <1>4, <1>6 DEF CompactionsOf
<1>9. m.upTo <= drawn
  BY <1>5, <1>6 DEF IInv, Drawn
<1>10. Types'
  BY <1>1, <1>2, <1>3, <1>5 DEF IInv, Types
<1>11. Drawn'
  <2>1. Drawn
    BY DEF IInv
  <2> QED BY <1>1, <1>2, <1>3, <1>9, <2>1 DEF Drawn
<1>12. CompactionsAreSound(branch)'
  <2>1. CompactionsAreSound(branch)
    BY DEF IInv
  <2> QED BY <1>2, <2>1
<1>13. PreparedIsSound'
  <2>1. prepared' = m /\ branch' = branch
    BY <1>1, <1>2, <1>3
  <2> QED BY <1>5, <1>7, <1>8, <2>1 DEF PreparedIsSound
<1> QED
  BY <1>10, <1>11, <1>12, <1>13 DEF IInv

LEMMA CompactionStep == ASSUME IInv, AppendCompaction PROVE IInv'
<1> DEFINE n == Len(branch)
<1>1. PICK e :
        e = [id |-> drawn + 1, type |-> "compaction", kept |-> prepared.kept,
             told |-> prepared.told, files |-> prepared.files,
             budget |-> prepared.budget, upTo |-> prepared.upTo]
  OBVIOUS
<1>2. /\ prepared # None /\ prepared' = None /\ drawn' = drawn + 1
      /\ branch' = Append(branch, e) /\ pending' = pending
  BY <1>1 DEF AppendCompaction, Appending
<1>3. /\ Types /\ Drawn /\ CompactionsAreSound(branch) /\ PreparedIsSound
      /\ branch \in Seq(Entries) /\ Grows(branch) /\ drawn \in Nat
  BY DEF IInv, Types, Drawn
<1>4. prepared \in Preparations /\ prepared.upTo <= drawn
  BY <1>2, <1>3 DEF Types, Drawn
<1>5. e \in Summaries /\ e.id = drawn + 1 /\ e.type = "compaction"
  <2>1. /\ prepared.kept \in Nat /\ prepared.told \in SUBSET Nat
        /\ prepared.files \in SUBSET Calls /\ prepared.budget \in Budgets
        /\ prepared.upTo \in Nat /\ prepared.kept <= prepared.upTo
        /\ prepared.upTo < drawn + 1 /\ drawn + 1 \in Nat
    BY <1>3, <1>4 DEF Preparations
  <2> QED BY <1>1, <2>1 DEF Summaries
<1>6. e \in Entries
  BY <1>5 DEF Entries
<1>7. PICK d : d = branch'
  OBVIOUS
<1>8. /\ Edits(branch, d, n) /\ Len(d) = n + 1 /\ d[n + 1] = e
      /\ \A i \in 1..Len(d) : d[i].id <= drawn + 1
      /\ n \in Nat
  <2>1. n \in 0..Len(branch) /\ d = Append(SubSeq(branch, 1, n), e)
    BY <1>2, <1>3, <1>7, WholeBranch
  <2>2. n \in Nat
    BY <1>3
  <2>3. Types /\ Drawn /\ e \in Entries /\ e.id = drawn + 1
    BY <1>3, <1>5, <1>6
  <2> HIDE DEF n
  <2>4. /\ Edits(branch, d, n) /\ Len(d) = n + 1 /\ d[n + 1] = e
        /\ \A i \in 1..Len(d) : d[i].id <= drawn + 1
    BY <2>1, <2>3, NewEntry
  <2> QED BY <2>2, <2>4
<1>9. ASSUME PositionIn(d, e.upTo) \in 1..n
      PROVE  SoundIn(d, e, BeforeIn(d, n + 1))
  <2>1. /\ e.kept = prepared.kept /\ e.upTo = prepared.upTo
        /\ e.told = prepared.told /\ e.files = prepared.files
        /\ e.budget = prepared.budget
    BY <1>1
  <2>2. d \in Seq(Entries) /\ Grows(d) /\ Agree(branch, d, n)
    BY <1>8 DEF Edits
  <2>3. PICK l \in 1..n : l = PositionIn(d, e.upTo)
    BY <1>9
  <2>4. d[l].id = e.upTo /\ branch[l].id = e.upTo /\ l \in 1..Len(branch)
    <3>1. l # 0 /\ d[l].id = e.upTo
      BY <2>2, <2>3, PositionIsIn
    <3> QED BY <2>2, <2>3, <3>1 DEF Agree
  <2>5. PositionIn(branch, prepared.upTo) = l
    <3>1. PositionIn(branch, branch[l].id) = l
      BY <1>3, <2>4, PositionIs
    <3> QED BY <2>1, <2>4, <3>1
  <2>6. l # 0
    BY <2>3
  <2>7. SoundIn(branch, prepared, BeforeIn(branch, n + 1))
    BY <1>2, <1>3, <2>5, <2>6 DEF PreparedIsSound
  <2>8. SoundIn(branch, e, BeforeIn(branch, n + 1))
    BY <2>1, <2>7 DEF SoundIn, IsSound, CoversOf, TracksOf, FitsOf
  <2>9. BeforeIn(branch, n + 1) = BeforeIn(d, n + 1)
    <3> DEFINE x == n + 1
    <3>1. x \in Nat
      BY <1>8
    <3>2. \A i \in 1..Len(branch) : branch[i].type = "compaction" =>
            (i < x <=> i <= n /\ i < x)
      BY <1>8
    <3>3. \A i \in 1..Len(d) : d[i].type = "compaction" /\ i < x => i <= n
      BY <1>8
    <3>4. BeforeIn(branch, x) = BeforeIn(d, x)
      <4> HIDE DEF x, n
      <4> QED BY <1>3, <1>8, <2>2, <3>1, <3>2, <3>3, BeforeStays
    <3> QED BY <3>4
  <2> DEFINE p == BeforeIn(branch, n + 1)
  <2>10. p \in 0..n /\ (p # 0 => branch[p].type = "compaction")
    <3>1. n + 1 \in Nat
      BY <1>8
    <3> QED BY <1>3, <3>1, BeforeIs
  <2>11. SoundIn(branch, e, p) <=> SoundIn(d, e, p)
    <3>1. /\ e.kept \in Nat /\ e.upTo \in Nat
          /\ e.kept <= e.upTo /\ e.upTo <= branch[l].id
      BY <1>5, <2>4 DEF Summaries
    <3> HIDE DEF p, n
    <3> QED BY <1>3, <1>8, <2>2, <2>10, <3>1, SoundnessStaysIn
  <2> QED BY <2>8, <2>9, <2>11
<1>10. CompactionsAreSound(d)
  <2>1. Len(d) = n + 1 /\ d[n + 1].type = "compaction"
          /\ PositionIn(d, d[n + 1].upTo) \in 1..n
          => SoundIn(d, d[n + 1], BeforeIn(d, n + 1))
    BY <1>8, <1>9
  <2> HIDE DEF n
  <2> QED BY <1>3, <1>8, <2>1, CompactionsStaySound
<1>11. Types'
  BY <1>2, <1>3, <1>7, <1>8 DEF Types, Edits
<1>12. Drawn'
  <2>1. Grows(branch')
    BY <1>7, <1>8 DEF Edits
  <2> QED BY <1>2, <1>7, <1>8, <2>1 DEF Drawn
<1>13. PreparedIsSound'
  BY <1>2 DEF PreparedIsSound
<1>14. CompactionsAreSound(branch)'
  BY <1>7, <1>10
<1> QED
  BY <1>11, <1>12, <1>13, <1>14 DEF IInv

LEMMA NavigateStep == ASSUME IInv, Navigate PROVE IInv'
<1>1. PICK target \in 1..(Len(branch) - 1), summarize \in BOOLEAN :
       LET edited == branch[target].type \in {"user", "custom_message"}
           stem == SubSeq(branch, 1, IF edited THEN target - 1 ELSE target)
       IN IF summarize
          THEN /\ drawn' = drawn + 1
               /\ branch' = Append(stem, Entry(drawn + 1, "branch_summary"))
          ELSE branch' = stem /\ UNCHANGED drawn
  BY DEF Navigate
<1>2. pending' = pending /\ prepared' = prepared
  BY DEF Navigate
<1>3. /\ Types /\ Drawn /\ CompactionsAreSound(branch) /\ PreparedIsSound
      /\ branch \in Seq(Entries) /\ drawn \in Nat /\ pending \in Seq(Calls)
  BY DEF IInv, Types
<1>4. PICK n : n = IF branch[target].type \in {"user", "custom_message"}
                   THEN target - 1 ELSE target
  OBVIOUS
<1>5. n \in 0..Len(branch)
  <2>1. Len(branch) \in Nat
    BY <1>3
  <2> QED BY <1>4, <2>1
<1>6. IF summarize
      THEN /\ drawn' = drawn + 1
           /\ branch' = Append(SubSeq(branch, 1, n),
                               Entry(drawn + 1, "branch_summary"))
      ELSE branch' = SubSeq(branch, 1, n) /\ UNCHANGED drawn
  BY <1>1, <1>4
<1>7. CASE summarize
  <2>1. PICK e : e = Entry(drawn + 1, "branch_summary")
    OBVIOUS
  <2>2. e \in Entries /\ e.id = drawn + 1 /\ e.type # "compaction"
    BY <1>3, <2>1 DEF Entry, Entries, Plains, Messages
  <2>3. /\ branch' = Append(SubSeq(branch, 1, n), e) /\ drawn' = drawn + 1
        /\ prepared' = prepared /\ pending' \in Seq(Calls)
    BY <1>2, <1>3, <1>6, <1>7, <2>1
  <2> QED BY <1>5, <2>2, <2>3, AppendingKeepsSoundness
<1>8. CASE ~summarize
  <2>1. PICK d : d = branch'
    OBVIOUS
  <2>2. d = SubSeq(branch, 1, n) /\ drawn' = drawn
    BY <1>6, <1>8, <2>1
  <2>3. /\ Edits(branch, d, n) /\ Len(d) = n
        /\ \A i \in 1..Len(d) : d[i].id <= drawn
    BY <1>3, <1>5, <2>2, StemIs
  <2>4. /\ CompactionsAreSound(d)
        /\ prepared # None /\ PositionIn(d, prepared.upTo) # 0 =>
             /\ \A i \in CompactionsOf(d) : i < PositionIn(d, prepared.upTo)
             /\ SoundIn(d, prepared, BeforeIn(d, Len(d) + 1))
    <3>1. /\ n \in Nat
          /\ Len(d) = n + 1 =>
               d[n + 1].type # "compaction" /\ d[n + 1].id = drawn + 1
      BY <1>5, <2>3
    <3> QED BY <1>3, <2>3, <3>1, EditsKeepSoundness
  <2>5. Types'
    BY <1>2, <1>3, <2>1, <2>2, <2>3 DEF Types, Edits
  <2>6. Drawn'
    <3>1. Grows(branch')
      BY <2>1, <2>3 DEF Edits
    <3> QED BY <1>2, <1>3, <2>1, <2>2, <2>3, <3>1 DEF Drawn
  <2>7. PreparedIsSound' /\ CompactionsAreSound(branch)'
    BY <1>2, <2>1, <2>4 DEF PreparedIsSound
  <2> QED BY <2>5, <2>6, <2>7 DEF IInv
<1> QED
  BY <1>7, <1>8

-----------------------------------------------------------------------------
(* The theorem *)

LEMMA Initially == Init => IInv
<1> SUFFICES ASSUME Init PROVE IInv
  OBVIOUS
<1>1. branch = <<>> /\ pending = <<>> /\ prepared = None /\ drawn = 0
  BY DEF Init
<1>2. CompactionsOf(branch) = {} /\ Len(branch) = 0
  BY <1>1 DEF CompactionsOf
<1>3. Types
  BY <1>1 DEF Types
<1>4. Drawn
  BY <1>1, <1>2 DEF Drawn, Grows
<1> QED
  BY <1>1, <1>2, <1>3, <1>4 DEF IInv, CompactionsAreSound, PreparedIsSound

LEMMA Stepwise == IInv /\ [Next]_vars => IInv'
<1> SUFFICES ASSUME IInv, [Next]_vars PROVE IInv'
  OBVIOUS
<1>1. CASE AppendPlain
  BY <1>1, PlainStep
<1>2. CASE AppendAnswer
  BY <1>2, AnswerStep
<1>3. CASE AppendResult
  BY <1>3, ResultStep
<1>4. CASE Interrupt
  BY <1>4 DEF Interrupt, IInv, Types, Drawn, PreparedIsSound
<1>5. CASE Prepare
  BY <1>5, PrepareStep
<1>6. CASE AppendCompaction
  BY <1>6, CompactionStep
<1>7. CASE CompactionFails
  BY <1>7 DEF CompactionFails, IInv, Types, Drawn, PreparedIsSound
<1>8. CASE Navigate
  BY <1>8, NavigateStep
<1>9. CASE UNCHANGED vars
  BY <1>9 DEF vars, IInv, Types, Drawn, PreparedIsSound
<1> QED
  BY <1>1, <1>2, <1>3, <1>4, <1>5, <1>6, <1>7, <1>8, <1>9 DEF Next

\* What the branch, the calls and the compaction under way are made of.
THEOREM TypesHold == Spec => []Types
<1>1. IInv => Types
  BY DEF IInv
<1>2. QED
  BY <1>1, Initially, Stepwise, PTL DEF Spec

\* For any entries, answers, budgets and bounds: a compaction that stands on
\* the branch it was prepared on loses no message and no earlier summary but
\* where the code forgets it, keeps the files, and keeps what its budget says
\* (prepareCompaction, findCutPoint, compact and navigateTree).
THEOREM NothingIsLost == Spec => []CompactionIsSound
<1>1. IInv => CompactionIsSound
  BY SoundnessOfBranch DEF IInv
<1>2. QED
  BY <1>1, Initially, Stepwise, PTL DEF Spec

Rank(at, i) == Cardinality({j \in at : j <= i})

LEMMA SomeOf ==
  ASSUME NEW n \in Nat, NEW at \in SUBSET (1..n)
  PROVE  IsFiniteSet(at) /\ Cardinality(at) \in Nat
<1>1. IsFiniteSet(1..n)
  BY FS_Interval
<1> QED
  BY <1>1, FS_Subset, FS_CardinalityType

LEMMA RankIs ==
  ASSUME NEW n \in Nat, NEW at \in SUBSET (1..n), NEW i \in at
  PROVE  Rank(at, i) \in 1..Cardinality(at)
<1> DEFINE low == {j \in at : j <= i}
<1>1. IsFiniteSet(at) /\ Cardinality(at) \in Nat
  BY SomeOf
<1>2. low \in SUBSET at /\ i \in low
  OBVIOUS
<1> HIDE DEF low
<1>3. IsFiniteSet(low) /\ Cardinality(low) <= Cardinality(at)
  BY <1>1, <1>2, FS_Subset
<1>4. Cardinality(low) \in Nat /\ Cardinality(low) # 0
  BY <1>2, <1>3, FS_CardinalityType, FS_EmptySet
<1>5. Cardinality(low) \in 1..Cardinality(at)
  BY <1>1, <1>3, <1>4
<1> QED
  BY <1>5 DEF Rank, low

LEMMA RankGrows ==
  ASSUME NEW n \in Nat, NEW at \in SUBSET (1..n), NEW i \in at, NEW j \in at, i < j
  PROVE  Rank(at, i) < Rank(at, j)
<1> DEFINE low == {k \in at : k <= i}
           high == {k \in at : k <= j}
<1>1. IsFiniteSet(at)
  BY SomeOf
<1>2. low \in SUBSET high /\ high \in SUBSET at /\ j \in high /\ j \notin low
  <2>1. i \in Int /\ j \in Int /\ \A k \in at : k \in Int
    OBVIOUS
  <2>2. \A k \in at : k <= i => k <= j
    BY <2>1
  <2>3. j <= j /\ ~(j <= i)
    BY <2>1
  <2> QED BY <2>2, <2>3
<1> HIDE DEF low, high
<1>3. IsFiniteSet(high) /\ IsFiniteSet(low)
  BY <1>1, <1>2, FS_Subset
<1>4. Cardinality(low) <= Cardinality(high) /\ Cardinality(low) # Cardinality(high)
  BY <1>2, <1>3, FS_Subset
<1>5. Cardinality(low) \in Nat /\ Cardinality(high) \in Nat
  BY <1>3, FS_CardinalityType
<1>6. Cardinality(low) < Cardinality(high)
  BY <1>4, <1>5
<1> QED
  BY <1>6 DEF Rank, low, high

LEMMA RankOnto ==
  ASSUME NEW n \in Nat, NEW at \in SUBSET (1..n), NEW k \in 1..Cardinality(at)
  PROVE  \E i \in at : Rank(at, i) = k
<1> DEFINE N == Cardinality(at)
           f == [i \in at |-> Rank(at, i)]
<1>1. IsFiniteSet(at) /\ N \in Nat
  BY SomeOf
<1>2. f \in [at -> 1..N]
  BY RankIs
<1>3. \A i, j \in at : f[i] = f[j] => i = j
  <2> SUFFICES ASSUME NEW i \in at, NEW j \in at, f[i] = f[j], i # j PROVE FALSE
    OBVIOUS
  <2>1. Rank(at, i) = Rank(at, j)
    OBVIOUS
  <2>2. Rank(at, i) \in 1..N /\ Rank(at, j) \in 1..N
    BY RankIs
  <2> HIDE DEF N, f
  <2>3. CASE i < j
    <3>1. Rank(at, i) < Rank(at, j)
      BY <2>3, RankGrows
    <3> QED BY <1>1, <2>1, <2>2, <3>1
  <2>4. CASE j < i
    <3>1. Rank(at, j) < Rank(at, i)
      BY <2>4, RankGrows
    <3> QED BY <1>1, <2>1, <2>2, <3>1
  <2> QED BY <2>3, <2>4
<1> HIDE DEF N, f
<1>4. f \in Injection(at, 1..N)
  BY <1>2, <1>3 DEF Injection, IsInjective
<1>5. IsFiniteSet(1..N) /\ Cardinality(1..N) = N
  BY <1>1, FS_Interval
<1>6. Cardinality(at) = Cardinality(1..N)
  BY <1>5 DEF N
<1>7. f \in Surjection(at, 1..N)
  BY <1>4, <1>5, <1>6, FS_Injection
<1>8. k \in 1..N
  BY DEF N
<1>9. PICK i \in at : f[i] = k
  BY <1>7, <1>8 DEF Surjection
<1> QED
  BY <1>9 DEF f

LEMMA PickedIs ==
  ASSUME NEW n \in Nat, NEW at \in SUBSET (1..n), NEW S, NEW s,
         \A i \in at : s[i] \in S
  PROVE  Picked(s, at) \in Seq(S) /\ Len(Picked(s, at)) = Cardinality(at)
<1> DEFINE N == Cardinality(at)
           pos(k) == CHOOSE i \in at : Rank(at, i) = k
<1>1. N \in Nat
  BY SomeOf
<1>2. \A k \in 1..N : pos(k) \in at
  BY RankOnto
<1>3. Picked(s, at) = [k \in 1..N |-> s[pos(k)]]
  BY DEF Picked, Rank
<1> HIDE DEF N, pos
<1>4. [k \in 1..N |-> s[pos(k)]] \in [1..N -> S]
  BY <1>2
<1>5. \A f \in [1..N -> S] : f \in Seq(S) /\ Len(f) = N
  BY <1>1
<1> QED
  BY <1>3, <1>4, <1>5 DEF N

LEMMA PickedAt ==
  ASSUME NEW n \in Nat, NEW at \in SUBSET (1..n), NEW s, NEW i \in at
  PROVE  Picked(s, at)[Rank(at, i)] = s[i]
<1> DEFINE N == Cardinality(at)
           pos(k) == CHOOSE j \in at : Rank(at, j) = k
           r == Rank(at, i)
<1>1. r \in 1..N /\ N \in Nat
  BY RankIs, SomeOf
<1>2. pos(r) \in at /\ Rank(at, pos(r)) = r
  OBVIOUS
<1>3. Picked(s, at) = [k \in 1..N |-> s[pos(k)]]
  BY DEF Picked, Rank
<1>4. Picked(s, at)[r] = s[pos(r)]
  <2> HIDE DEF N, r, pos
  <2> QED BY <1>1, <1>3
<1>5. PICK j \in at : j = pos(r)
  BY <1>2
<1>6. Rank(at, j) = Rank(at, i)
  BY <1>2, <1>5
<1>7. j = i
  <2> HIDE DEF N, r, pos
  <2>1. Rank(at, i) \in Nat
    BY <1>1 DEF r
  <2>2. ~(j < i)
    <3> SUFFICES ASSUME j < i PROVE FALSE
      OBVIOUS
    <3>1. Rank(at, j) < Rank(at, i)
      BY RankGrows
    <3> QED BY <1>6, <2>1, <3>1
  <2>3. ~(i < j)
    <3> SUFFICES ASSUME i < j PROVE FALSE
      OBVIOUS
    <3>1. Rank(at, i) < Rank(at, j)
      BY RankGrows
    <3> QED BY <1>6, <2>1, <3>1
  <2> QED BY <2>2, <2>3
<1> QED
  BY <1>4, <1>5, <1>7 DEF r

-----------------------------------------------------------------------------
(* Requests in which calls and results are paired *)

Sent == Entries \union [type : {"toolResult"}, call : Calls]

IsCallOf(call, e) ==
  /\ e.type = "assistant" /\ ~e.failed
  /\ \E k \in DOMAIN e.calls : e.calls[k] = call

\* An answer with the results of its calls right behind it.
HasResults(r, i) ==
  LET n == Len(r[i].calls)
  IN /\ ~r[i].failed
     /\ \A j \in (i + 1)..(i + n) : r[j].type = "toolResult"
     /\ {r[j].call : j \in (i + 1)..(i + n)} = {r[i].calls[k] : k \in 1..n}

\* A result that is one of them.
HasAnswer(r, i) ==
  \E j \in 1..(i - 1) : r[j].type = "assistant" /\ i <= j + Len(r[j].calls)

Paired(r, q) ==
  \A i \in 1..q :
    /\ r[i].type = "assistant" => i + Len(r[i].calls) <= q /\ HasResults(r, i)
    /\ r[i].type = "toolResult" => HasAnswer(r, i)

LEMMA CatLeft ==
  ASSUME NEW S, NEW s \in Seq(S), NEW t \in Seq(S), NEW n \in 1..Len(s)
  PROVE  (s \o t)[n] = s[n]
OBVIOUS

LEMMA CatRight ==
  ASSUME NEW S, NEW s \in Seq(S), NEW t \in Seq(S), NEW n \in 1..Len(t)
  PROVE  (s \o t)[Len(s) + n] = t[n]
<1>1. Len(s) \in Nat /\ Len(t) \in Nat
  OBVIOUS
<1>2. Len(s) + n \in (Len(s) + 1)..(Len(s) + Len(t)) /\ (Len(s) + n) - Len(s) = n
  BY <1>1
<1>3. \A j \in (Len(s) + 1)..(Len(s) + Len(t)) : (s \o t)[j] = t[j - Len(s)]
  OBVIOUS
<1> QED
  BY <1>2, <1>3

LEMMA CallsOfSent ==
  ASSUME NEW e \in Sent
  PROVE  /\ e.type = "assistant" => e.calls \in Seq(Calls) /\ e.failed \in BOOLEAN
         /\ e.type = "toolResult" => e.call \in Calls
BY DEF Sent, Entries, Plains, AllAnswers, Results, Summaries, Messages

\* It is said of the first q messages only.
LEMMA PairedStays ==
  ASSUME NEW r \in Seq(Sent), NEW t, NEW q \in 0..Len(r), Paired(r, q),
         \A i \in 1..q : t[i] = r[i]
  PROVE  Paired(t, q)
<1> SUFFICES ASSUME NEW i \in 1..q
             PROVE  /\ t[i].type = "assistant" =>
                         i + Len(t[i].calls) <= q /\ HasResults(t, i)
                    /\ t[i].type = "toolResult" => HasAnswer(t, i)
  BY DEF Paired
<1>1. t[i] = r[i] /\ i \in Nat /\ q \in Nat /\ r[i] \in Sent
  OBVIOUS
<1>2. ASSUME t[i].type = "assistant"
      PROVE  i + Len(t[i].calls) <= q /\ HasResults(t, i)
  <2> DEFINE n == Len(r[i].calls)
             calls == {r[i].calls[k] : k \in 1..n}
  <2>1. n \in Nat
    BY <1>1, <1>2, CallsOfSent
  <2>2. ~r[i].failed /\ i + n <= q
        /\ (\A j \in (i + 1)..(i + n) : r[j].type = "toolResult")
        /\ {r[j].call : j \in (i + 1)..(i + n)} = calls
    BY <1>1, <1>2 DEF Paired, HasResults
  <2>3. \A j \in (i + 1)..(i + n) : t[j] = r[j]
    <3> HIDE DEF n
    <3>1. \A j \in (i + 1)..(i + n) : j \in 1..q
      BY <1>1, <2>1, <2>2
    <3> QED BY <3>1
  <2>4. \A j \in (i + 1)..(i + n) : t[j].type = "toolResult"
    BY <2>2, <2>3
  <2>5. {t[j].call : j \in (i + 1)..(i + n)} = calls
    <3>1. {t[j].call : j \in (i + 1)..(i + n)} = {r[j].call : j \in (i + 1)..(i + n)}
      BY <2>3
    <3> QED BY <2>2, <3>1
  <2>6. Len(t[i].calls) = n /\ calls = {t[i].calls[k] : k \in 1..n}
    BY <1>1
  <2>7. ~t[i].failed
    BY <1>1, <2>2
  <2> HIDE DEF n, calls
  <2> QED BY <2>2, <2>4, <2>5, <2>6, <2>7 DEF HasResults
<1>3. ASSUME t[i].type = "toolResult" PROVE HasAnswer(t, i)
  <2>1. PICK j \in 1..(i - 1) : r[j].type = "assistant" /\ i <= j + Len(r[j].calls)
    BY <1>1, <1>3 DEF Paired, HasAnswer
  <2>2. j \in 1..q
    BY <1>1
  <2>3. t[j] = r[j]
    BY <2>2
  <2> QED BY <2>1, <2>3 DEF HasAnswer
<1> QED
  BY <1>2, <1>3

\* A message that is neither an answer nor a result comes behind.
LEMMA PairedWithOther ==
  ASSUME NEW r \in Seq(Sent), Paired(r, Len(r)), NEW e \in Sent,
         e.type \notin {"assistant", "toolResult"}
  PROVE  Paired(Append(r, e), Len(Append(r, e)))
<1> DEFINE t == Append(r, e)
           q == Len(r)
<1>1. t \in Seq(Sent) /\ Len(t) = q + 1 /\ t[q + 1] = e /\ q \in Nat
      /\ \A i \in 1..q : t[i] = r[i]
  OBVIOUS
<1>2. Paired(t, q)
  <2>1. q \in 0..Len(r)
    OBVIOUS
  <2> HIDE DEF t
  <2> QED BY <1>1, <2>1, PairedStays
<1> HIDE DEF t, q
<1>3. Paired(t, q + 1)
  <2> SUFFICES ASSUME NEW i \in 1..(q + 1)
               PROVE  /\ t[i].type = "assistant" =>
                           i + Len(t[i].calls) <= q + 1 /\ HasResults(t, i)
                      /\ t[i].type = "toolResult" => HasAnswer(t, i)
    BY DEF Paired
  <2>1. CASE i = q + 1
    BY <1>1, <2>1
  <2>2. CASE i \in 1..q
    <3>1. t[i] \in Sent
      BY <1>1
    <3>2. t[i].type = "assistant" => Len(t[i].calls) \in Nat
      BY <3>1, CallsOfSent
    <3> QED BY <1>1, <1>2, <2>2, <3>2 DEF Paired
  <2>3. i = q + 1 \/ i \in 1..q
    BY <1>1
  <2> QED BY <2>1, <2>2, <2>3
<1> QED
  BY <1>1, <1>3 DEF t

\* An answer comes behind, and then its results.
LEMMA PairedWithBatch ==
  ASSUME NEW r \in Seq(Sent), NEW q \in Nat, Paired(r, q), NEW n \in Nat,
         Len(r) = q + 1 + n,
         r[q + 1].type = "assistant", ~r[q + 1].failed,
         Len(r[q + 1].calls) = n,
         \A j \in (q + 2)..(q + 1 + n) : r[j].type = "toolResult",
         {r[j].call : j \in (q + 2)..(q + 1 + n)}
           = {r[q + 1].calls[k] : k \in 1..n}
  PROVE  Paired(r, Len(r))
<1> SUFFICES ASSUME NEW i \in 1..Len(r)
             PROVE  /\ r[i].type = "assistant" =>
                         i + Len(r[i].calls) <= Len(r) /\ HasResults(r, i)
                    /\ r[i].type = "toolResult" => HasAnswer(r, i)
  BY DEF Paired
<1>1. CASE i \in 1..q
  <2>1. r[i] \in Sent
    OBVIOUS
  <2>2. r[i].type = "assistant" => Len(r[i].calls) \in Nat
    BY <2>1, CallsOfSent
  <2>3. /\ r[i].type = "assistant" =>
             i + Len(r[i].calls) <= q /\ HasResults(r, i)
        /\ r[i].type = "toolResult" => HasAnswer(r, i)
    BY <1>1 DEF Paired
  <2> QED BY <2>2, <2>3
<1>2. CASE i = q + 1
  <2> DEFINE calls == {r[i].calls[k] : k \in 1..n}
  <2>1. i + 1 = q + 2 /\ i + n = q + 1 + n
    BY <1>2
  <2>2. \A j \in (i + 1)..(i + n) : r[j].type = "toolResult"
    BY <2>1
  <2>3. {r[j].call : j \in (i + 1)..(i + n)} = calls
    <3>1. {r[j].call : j \in (i + 1)..(i + n)}
            = {r[j].call : j \in (q + 2)..(q + 1 + n)}
      BY <2>1
    <3> QED BY <1>2, <3>1
  <2>4. r[i].type = "assistant" /\ ~r[i].failed /\ Len(r[i].calls) = n
    BY <1>2
  <2>5. HasResults(r, i)
    BY <2>2, <2>3, <2>4 DEF HasResults
  <2>6. i + Len(r[i].calls) <= Len(r)
    BY <1>2
  <2> QED BY <2>4, <2>5, <2>6
<1>3. CASE i \in (q + 2)..(q + 1 + n)
  <2>1. q + 1 \in 1..(i - 1) /\ i <= (q + 1) + Len(r[q + 1].calls)
    BY <1>3
  <2>2. r[i].type = "toolResult"
    BY <1>3
  <2> QED BY <2>1, <2>2 DEF HasAnswer
<1>4. i \in 1..q \/ i = q + 1 \/ i \in (q + 2)..(q + 1 + n)
  OBVIOUS
<1> QED
  BY <1>1, <1>2, <1>3, <1>4

-----------------------------------------------------------------------------
(* What is sent, message by message *)

States == [out : Seq(Sent), open : Seq(Calls), seen : SUBSET Calls]

Missing(s) == {k \in DOMAIN s.open : s.open[k] \notin s.seen}

\* No answer waits for results.
Closed(s) ==
  /\ s \in States
  /\ s.open = <<>> /\ s.seen = {}
  /\ Paired(s.out, Len(s.out))

\* Answer e was sent last, and w of its results.
Busy(s, e, w) ==
  /\ s \in States /\ w \in Nat
  /\ e \in Sent /\ e.type = "assistant" /\ ~e.failed
  /\ s.open = e.calls
  /\ \E q \in Nat :
       /\ Len(s.out) = q + 1 + w
       /\ Paired(s.out, q)
       /\ s.out[q + 1] = e
       /\ \A j \in (q + 2)..(q + 1 + w) : s.out[j].type = "toolResult"
       /\ s.seen = {s.out[j].call : j \in (q + 2)..(q + 1 + w)}
  /\ s.seen \subseteq {e.calls[k] : k \in 1..Len(e.calls)}
  /\ Cardinality(Missing(s)) + w = Len(e.calls)

LEMMA AnsweredIs ==
  ASSUME NEW s \in States
  PROVE  \E more \in Seq(Sent) :
           /\ Answered(s) = [out |-> s.out \o more, open |-> <<>>, seen |-> {}]
           /\ Len(more) = Cardinality(Missing(s))
           /\ \A k \in 1..Len(more) :
                /\ more[k].type = "toolResult"
                /\ \E i \in Missing(s) : more[k].call = s.open[i]
           /\ \A i \in Missing(s) :
                \E k \in 1..Len(more) : more[k].call = s.open[i]
<1> DEFINE at == Missing(s)
           n == Len(s.open)
           missing == Picked(s.open, at)
           N == Cardinality(at)
           more == [k \in 1..N |-> NoResult(missing[k])]
<1>1. s.open \in Seq(Calls) /\ n \in Nat /\ at \in SUBSET (1..n)
  BY DEF States, Missing
<1>2. \A i \in at : s.open[i] \in Calls
  BY <1>1
<1>3. N \in Nat
  <2> HIDE DEF n, at
  <2> QED BY <1>1, SomeOf
<1>4. missing \in Seq(Calls) /\ Len(missing) = N
  <2> HIDE DEF n, at
  <2> QED BY <1>1, <1>2, PickedIs
<1>5. DOMAIN missing = 1..N
  <2> HIDE DEF missing, N
  <2> QED BY <1>4
<1>6. Answered(s) = [out |-> s.out \o more, open |-> <<>>, seen |-> {}]
  <2>1. Answered(s) = [out |-> s.out \o [k \in DOMAIN missing |-> NoResult(missing[k])],
                       open |-> <<>>, seen |-> {}]
    BY DEF Answered, Missing
  <2> HIDE DEF missing, N
  <2> QED BY <1>5, <2>1
<1>7. \A k \in 1..N : missing[k] \in Calls
  <2> HIDE DEF missing, N
  <2> QED BY <1>4
<1>8. \A k \in 1..N : NoResult(missing[k]) \in Sent
  <2> HIDE DEF missing, N
  <2> QED BY <1>7 DEF NoResult, Sent
<1>9. more \in Seq(Sent) /\ Len(more) = N
  <2> HIDE DEF missing, N
  <2>1. more \in [1..N -> Sent]
    BY <1>8
  <2> HIDE DEF more
  <2> QED BY <1>3, <2>1
<1>10. \A k \in 1..N : more[k].type = "toolResult" /\ more[k].call = missing[k]
  <2> HIDE DEF missing, N
  <2> QED BY DEF NoResult
<1>11. ASSUME NEW i \in at PROVE \E k \in 1..N : more[k].call = s.open[i]
  <2>1. Rank(at, i) \in 1..N /\ missing[Rank(at, i)] = s.open[i]
    <3> HIDE DEF n, at
    <3> QED BY <1>1, RankIs, PickedAt
  <2> HIDE DEF more, missing, N
  <2> QED BY <1>10, <2>1
<1>12. ASSUME NEW k \in 1..N PROVE \E i \in at : more[k].call = s.open[i]
  <2>1. PICK i \in at : Rank(at, i) = k
    <3> HIDE DEF n, at
    <3> QED BY <1>1, RankOnto
  <2>2. missing[k] = s.open[i]
    <3> HIDE DEF n, at
    <3> QED BY <1>1, <2>1, PickedAt
  <2> HIDE DEF more, missing, N
  <2> QED BY <1>10, <2>2
<1> HIDE DEF more, missing, N
<1>13. \A k \in 1..Len(more) :
         more[k].type = "toolResult" /\ \E i \in at : more[k].call = s.open[i]
  BY <1>9, <1>10, <1>12
<1>14. \A i \in at : \E k \in 1..Len(more) : more[k].call = s.open[i]
  BY <1>9, <1>11
<1> HIDE DEF at
<1> QED
  BY <1>6, <1>9, <1>13, <1>14 DEF at, N

LEMMA ClosedIsAnswered ==
  ASSUME NEW s, Closed(s)
  PROVE  Closed(Answered(s))
<1>1. s \in States /\ Missing(s) = {} /\ s.out \in Seq(Sent)
      /\ Paired(s.out, Len(s.out))
  BY DEF Closed, Missing, States
<1>2. PICK more \in Seq(Sent) :
        /\ Answered(s) = [out |-> s.out \o more, open |-> <<>>, seen |-> {}]
        /\ Len(more) = Cardinality(Missing(s))
  BY <1>1, AnsweredIs
<1>3. Len(more) = 0
  BY <1>1, <1>2, FS_EmptySet
<1> DEFINE r == s.out
           t == r \o more
<1>4. t \in Seq(Sent) /\ Len(t) = Len(r) /\ \A i \in 1..Len(r) : t[i] = r[i]
  <2>1. r \in Seq(Sent)
    BY <1>1
  <2> HIDE DEF r
  <2>2. t \in Seq(Sent) /\ Len(t) = Len(r) + Len(more)
    BY <2>1
  <2>3. \A i \in 1..Len(r) : t[i] = r[i]
    BY <2>1, CatLeft
  <2> HIDE DEF t
  <2> QED BY <1>3, <2>1, <2>2, <2>3
<1>5. Paired(t, Len(r))
  <2>1. r \in Seq(Sent) /\ Len(r) \in 0..Len(r) /\ Paired(r, Len(r))
    BY <1>1
  <2> HIDE DEF r, t
  <2> QED BY <1>4, <2>1, PairedStays
<1> HIDE DEF t, r
<1>6. Answered(s) = [out |-> t, open |-> <<>>, seen |-> {}]
  BY <1>2 DEF t, r
<1> QED
  BY <1>4, <1>5, <1>6 DEF Closed, States

\* The calls without a result get one, whether some or all are missing.
LEMMA BusyIsAnswered ==
  ASSUME NEW s, NEW e, NEW w, Busy(s, e, w)
  PROVE  Closed(Answered(s))
<1> DEFINE r == s.out
           n == Len(e.calls)
           calls == {e.calls[k] : k \in 1..n}
<1>1. s \in States /\ w \in Nat /\ e \in Sent /\ e.type = "assistant" /\ ~e.failed
      /\ s.open = e.calls /\ s.seen \subseteq calls
      /\ Cardinality(Missing(s)) + w = n
  BY DEF Busy
<1>2. r \in Seq(Sent) /\ e.calls \in Seq(Calls) /\ n \in Nat
  BY <1>1, CallsOfSent DEF States
<1>3. PICK q \in Nat :
        /\ Len(r) = q + 1 + w
        /\ Paired(r, q)
        /\ r[q + 1] = e
        /\ \A j \in (q + 2)..(q + 1 + w) : r[j].type = "toolResult"
        /\ s.seen = {r[j].call : j \in (q + 2)..(q + 1 + w)}
  BY DEF Busy
<1>4. PICK more \in Seq(Sent) :
        /\ Answered(s) = [out |-> r \o more, open |-> <<>>, seen |-> {}]
        /\ Len(more) = Cardinality(Missing(s))
        /\ \A k \in 1..Len(more) :
             more[k].type = "toolResult" /\ \E i \in Missing(s) : more[k].call = s.open[i]
        /\ \A i \in Missing(s) :
             \E k \in 1..Len(more) : more[k].call = s.open[i]
  BY <1>1, AnsweredIs
<1> DEFINE t == r \o more
           l == Len(more)
<1>5. l \in Nat /\ l + w = n
  BY <1>1, <1>2, <1>4
<1>6. DOMAIN s.open = 1..n
  BY <1>1, <1>2
<1>7. t \in Seq(Sent) /\ Len(t) = q + 1 + n
      /\ (\A i \in 1..(q + 1 + w) : t[i] = r[i])
      /\ (\A i \in 1..l : t[q + 1 + w + i] = more[i])
  <2> HIDE DEF r, n
  <2>1. t \in Seq(Sent) /\ Len(t) = Len(r) + Len(more)
    BY <1>2
  <2>2. \A i \in 1..Len(r) : t[i] = r[i]
    BY <1>2, CatLeft
  <2>3. \A i \in 1..Len(more) : t[Len(r) + i] = more[i]
    BY <1>2, CatRight
  <2>4. Len(r) = q + 1 + w /\ w \in Nat
    BY <1>1, <1>3
  <2> HIDE DEF t
  <2>5. Len(t) = q + 1 + n
    <3>1. Len(t) = q + 1 + w + l
      BY <2>1, <2>4
    <3> HIDE DEF l
    <3> QED BY <1>2, <1>5, <2>4, <3>1
  <2> QED BY <2>1, <2>2, <2>3, <2>4, <2>5
<1> HIDE DEF t, r, l, n
<1>8. \A j \in (q + 2)..(q + 1 + n) :
        \/ j \in (q + 2)..(q + 1 + w) /\ j \in 1..(q + 1 + w)
        \/ j - (q + 1 + w) \in 1..l /\ j = q + 1 + w + (j - (q + 1 + w))
  BY <1>1, <1>2, <1>5
<1>9. ASSUME NEW j \in (q + 2)..(q + 1 + n)
      PROVE  t[j].type = "toolResult" /\ t[j].call \in calls
  <2>1. CASE j \in (q + 2)..(q + 1 + w) /\ j \in 1..(q + 1 + w)
    <3>1. t[j] = r[j]
      BY <1>7, <2>1
    <3>2. r[j].call \in s.seen /\ r[j].type = "toolResult"
      BY <1>3, <2>1
    <3> HIDE DEF calls
    <3> QED BY <1>1, <3>1, <3>2
  <2>2. CASE j - (q + 1 + w) \in 1..l /\ j = q + 1 + w + (j - (q + 1 + w))
    <3>1. PICK k \in 1..l : t[j] = more[k]
      BY <1>7, <2>2
    <3>2. PICK i \in Missing(s) : more[k].call = s.open[i]
      BY <1>4 DEF l
    <3>3. i \in 1..n
      BY <1>6 DEF Missing
    <3>4. more[k].type = "toolResult"
      BY <1>4 DEF l
    <3>5. s.open[i] \in calls
      BY <1>1, <3>3
    <3> HIDE DEF calls
    <3> QED BY <3>1, <3>2, <3>4, <3>5
  <2> QED BY <1>8, <2>1, <2>2
<1>10. ASSUME NEW k \in 1..n
       PROVE  \E j \in (q + 2)..(q + 1 + n) : t[j].call = e.calls[k]
  <2>1. CASE e.calls[k] \in s.seen
    <3>1. PICK j \in (q + 2)..(q + 1 + w) : r[j].call = e.calls[k]
      BY <1>3, <2>1
    <3>2. j \in 1..(q + 1 + w) /\ j \in (q + 2)..(q + 1 + n)
      BY <1>1, <1>2, <1>5
    <3> QED BY <1>7, <3>1, <3>2
  <2>2. CASE e.calls[k] \notin s.seen
    <3>1. k \in Missing(s)
      BY <1>1, <1>6, <2>2 DEF Missing
    <3>2. PICK i \in 1..l : more[i].call = s.open[k]
      BY <1>4, <3>1 DEF l
    <3>3. q + 1 + w + i \in (q + 2)..(q + 1 + n)
      BY <1>1, <1>2, <1>5
    <3> QED BY <1>1, <1>7, <3>2, <3>3
  <2> QED BY <2>1, <2>2
<1>11. {t[j].call : j \in (q + 2)..(q + 1 + n)} = calls
  BY <1>9, <1>10
<1>12. t[q + 1] = e
  <2>1. q + 1 \in 1..(q + 1 + w)
    BY <1>1
  <2> QED BY <1>3, <1>7, <2>1
<1>13. Paired(t, q)
  <2>1. q \in 0..Len(r) /\ \A i \in 1..q : i \in 1..(q + 1 + w)
    BY <1>1, <1>3
  <2> QED BY <1>2, <1>3, <1>7, <2>1, PairedStays
<1>14. Paired(t, Len(t))
  <2>1. Len(t[q + 1].calls) = n /\ t[q + 1].type = "assistant" /\ ~t[q + 1].failed
        /\ calls = {t[q + 1].calls[k] : k \in 1..n}
    BY <1>1, <1>12 DEF n
  <2>2. \A j \in (q + 2)..(q + 1 + n) : t[j].type = "toolResult"
    BY <1>9
  <2>3. {t[j].call : j \in (q + 2)..(q + 1 + n)}
          = {t[q + 1].calls[k] : k \in 1..n}
    BY <1>11, <2>1
  <2> HIDE DEF calls
  <2> QED BY <1>2, <1>7, <1>13, <2>1, <2>2, <2>3, PairedWithBatch
<1>15. Answered(s) = [out |-> t, open |-> <<>>, seen |-> {}]
  BY <1>4 DEF t
<1> QED
  BY <1>7, <1>14, <1>15 DEF Closed, States

\* In a context every result is behind its answer, with nothing but results
\* between, and no call has two results.
Complete(m) ==
  /\ \A n \in 1..Len(m) : m[n].type = "toolResult" =>
       \E j \in 1..(n - 1) : /\ IsCallOf(m[n].call, m[j])
                             /\ \A x \in (j + 1)..n : m[x].type = "toolResult"
  /\ \A n, l \in 1..Len(m) :
       m[n].type = "toolResult" /\ m[l].type = "toolResult" /\ m[n].call = m[l].call
         => n = l
  /\ \A n \in 1..Len(m) : m[n].type = "assistant" =>
       \A k, l \in DOMAIN m[n].calls : m[n].calls[k] = m[n].calls[l] => k = l

\* After n messages of a context: all is paired, or the results of the last
\* answer are coming.
UpTo(s, m, n) ==
  \/ /\ Closed(s)
     /\ n # 0 => /\ m[n].type # "toolResult"
                 /\ m[n].type = "assistant" => m[n].failed
  \/ \E j \in 1..n :
       /\ Busy(s, m[j], n - j)
       /\ \A x \in (j + 1)..n : m[x].type = "toolResult"
       /\ s.seen = {m[x].call : x \in (j + 1)..n}

LEMMA OutChanges ==
  ASSUME NEW s \in States, NEW out \in Seq(Sent)
  PROVE  LET a == [s EXCEPT !.out = out]
         IN a \in States /\ a.out = out /\ a.open = s.open /\ a.seen = s.seen
BY DEF States

LEMMA AnswerStarts ==
  ASSUME NEW a, Closed(a), NEW e \in Sent, e.type = "assistant", ~e.failed
  PROVE  Busy([out |-> Append(a.out, e), open |-> e.calls, seen |-> {}], e, 0)
<1> DEFINE r == Append(a.out, e)
           q == Len(a.out)
           n == Len(e.calls)
           s == [out |-> r, open |-> e.calls, seen |-> {}]
<1>1. a.out \in Seq(Sent) /\ q \in Nat /\ Paired(a.out, q)
  BY DEF Closed, States
<1>2. r \in Seq(Sent) /\ Len(r) = q + 1 /\ r[q + 1] = e /\ \A i \in 1..q : r[i] = a.out[i]
  <2>1. a.out \in Seq(Sent)
    BY <1>1
  <2> QED BY <2>1
<1>3. e.calls \in Seq(Calls) /\ n \in Nat
  BY CallsOfSent
<1> HIDE DEF r
<1>4. Paired(r, q)
  <2>1. q \in 0..Len(a.out)
    BY <1>1
  <2> HIDE DEF q
  <2> QED BY <1>1, <1>2, <2>1, PairedStays
<1>5. Cardinality(Missing(s)) + 0 = n
  <2>1. Missing(s) = 1..n
    BY <1>3 DEF Missing
  <2>2. Cardinality(1..n) = n
    <3> HIDE DEF n
    <3> QED BY <1>3, FS_Interval
  <2> HIDE DEF s, n
  <2>3. Cardinality(Missing(s)) = n
    BY <2>1, <2>2
  <2> QED BY <1>3, <2>3
<1>6. s \in States /\ s.open = e.calls /\ s.seen = {} /\ s.out = r
  BY <1>2, <1>3 DEF States
<1>7. \A j \in (q + 2)..(q + 1 + 0) : FALSE
  BY <1>1
<1>8. {r[j].call : j \in (q + 2)..(q + 1 + 0)} = {}
  BY <1>7
<1> HIDE DEF s, n, q
<1>9. q \in Nat /\ Len(r) = q + 1 + 0
  BY <1>1, <1>2
<1>10. \E y \in Nat :
         /\ Len(s.out) = y + 1 + 0
         /\ Paired(s.out, y)
         /\ s.out[y + 1] = e
         /\ \A j \in (y + 2)..(y + 1 + 0) : s.out[j].type = "toolResult"
         /\ s.seen = {s.out[j].call : j \in (y + 2)..(y + 1 + 0)}
  <2>1. s.seen = {s.out[j].call : j \in (q + 2)..(q + 1 + 0)}
    BY <1>6, <1>8
  <2> QED BY <1>2, <1>4, <1>6, <1>7, <1>9, <2>1
<1>11. Busy(s, e, 0)
  BY <1>5, <1>6, <1>10 DEF Busy, n
<1> QED
  BY <1>11 DEF s, r

LEMMA ResultCounts ==
  ASSUME NEW s, NEW e, NEW w, Busy(s, e, w),
         NEW x \in Sent, x.type = "toolResult",
         NEW k \in 1..Len(e.calls), x.call = e.calls[k], x.call \notin s.seen,
         \A i, j \in DOMAIN e.calls : e.calls[i] = e.calls[j] => i = j
  PROVE  Busy([s EXCEPT !.out = Append(@, x), !.seen = @ \union {x.call}], e, w + 1)
<1> DEFINE r == Append(s.out, x)
           seen == s.seen \union {x.call}
           n == Len(e.calls)
           t == [s EXCEPT !.out = Append(@, x), !.seen = @ \union {x.call}]
<1>1. s \in States /\ w \in Nat /\ e \in Sent /\ e.type = "assistant" /\ ~e.failed
      /\ s.open = e.calls /\ s.seen \subseteq {e.calls[i] : i \in 1..n}
      /\ Cardinality(Missing(s)) + w = n
  BY DEF Busy
<1>2. t = [s EXCEPT !.out = r, !.seen = seen]
  OBVIOUS
<1>3. PICK q \in Nat :
        /\ Len(s.out) = q + 1 + w
        /\ Paired(s.out, q)
        /\ s.out[q + 1] = e
        /\ \A j \in (q + 2)..(q + 1 + w) : s.out[j].type = "toolResult"
        /\ s.seen = {s.out[j].call : j \in (q + 2)..(q + 1 + w)}
  BY DEF Busy
<1>4. s.out \in Seq(Sent) /\ e.calls \in Seq(Calls) /\ n \in Nat /\ x.call \in Calls
      /\ s.seen \in SUBSET Calls
  BY <1>1, CallsOfSent DEF States
<1>5. r \in Seq(Sent) /\ Len(r) = q + 1 + (w + 1) /\ r[q + 1 + (w + 1)] = x
      /\ \A i \in 1..(q + 1 + w) : r[i] = s.out[i]
  <2>1. r \in Seq(Sent) /\ Len(r) = Len(s.out) + 1 /\ r[Len(s.out) + 1] = x
        /\ \A i \in 1..Len(s.out) : r[i] = s.out[i]
    BY <1>4
  <2>2. (q + 1 + w) + 1 = q + 1 + (w + 1)
    BY <1>1
  <2> HIDE DEF r
  <2> QED BY <1>3, <2>1, <2>2
<1>6. DOMAIN s.open = 1..n
  BY <1>1, <1>4
<1>7. t \in States /\ t.out = r /\ t.open = s.open /\ t.seen = seen
  <2>1. seen \in SUBSET Calls
    BY <1>4
  <2> HIDE DEF r, seen, t
  <2>2. s \in States /\ r \in Seq(Sent)
    BY <1>1, <1>5
  <2>3. LET u == [s EXCEPT !.out = r, !.seen = seen]
        IN u \in States /\ u.out = r /\ u.open = s.open /\ u.seen = seen
    BY <2>1, <2>2 DEF States
  <2> QED BY <1>2, <2>3
<1> HIDE DEF r, n, t
<1>8. Paired(r, q)
  <2>1. q \in 0..Len(s.out) /\ \A i \in 1..q : i \in 1..(q + 1 + w)
    BY <1>1, <1>3
  <2> QED BY <1>3, <1>4, <1>5, <2>1, PairedStays
<1>9. r[q + 1] = e
  <2>1. q + 1 \in 1..(q + 1 + w)
    BY <1>1
  <2> QED BY <1>3, <1>5, <2>1
<1>10. \A j \in (q + 2)..(q + 1 + (w + 1)) :
        \/ j = q + 1 + (w + 1)
        \/ j \in (q + 2)..(q + 1 + w) /\ j \in 1..(q + 1 + w)
  <2>1. w \in Nat
    BY <1>1
  <2> QED BY <2>1
<1>11. \A j \in (q + 2)..(q + 1 + (w + 1)) :
         r[j].type = "toolResult" /\ r[j].call \in seen
  <2> SUFFICES ASSUME NEW j \in (q + 2)..(q + 1 + (w + 1))
               PROVE  r[j].type = "toolResult" /\ r[j].call \in seen
    OBVIOUS
  <2>1. CASE j = q + 1 + (w + 1)
    BY <1>5, <2>1
  <2>2. CASE j \in (q + 2)..(q + 1 + w) /\ j \in 1..(q + 1 + w)
    <3>1. r[j] = s.out[j]
      BY <1>5, <2>2
    <3>2. s.out[j].type = "toolResult" /\ s.out[j].call \in s.seen
      BY <1>3, <2>2
    <3> QED BY <3>1, <3>2
  <2> QED BY <1>10, <2>1, <2>2
<1>12. \A c \in seen : \E j \in (q + 2)..(q + 1 + (w + 1)) : r[j].call = c
  <2> SUFFICES ASSUME NEW c \in seen
               PROVE  \E j \in (q + 2)..(q + 1 + (w + 1)) : r[j].call = c
    OBVIOUS
  <2>1. CASE c = x.call
    <3>1. q + 1 + (w + 1) \in (q + 2)..(q + 1 + (w + 1))
      BY <1>1
    <3> QED BY <1>5, <2>1, <3>1
  <2>2. CASE c \in s.seen
    <3>1. PICK j \in (q + 2)..(q + 1 + w) : s.out[j].call = c
      BY <1>3, <2>2
    <3>2. j \in (q + 2)..(q + 1 + (w + 1)) /\ j \in 1..(q + 1 + w)
      BY <1>1
    <3> QED BY <1>5, <3>1, <3>2
  <2> QED BY <2>1, <2>2
<1>13. seen = {r[j].call : j \in (q + 2)..(q + 1 + (w + 1))}
  BY <1>11, <1>12
<1>14. Cardinality(Missing(t)) + (w + 1) = n
  <2> DEFINE A == Missing(s)
             B == Missing(t)
  <2>1. k \in A
    BY <1>1, <1>6 DEF Missing, n
  <2>2. B = A \ {k}
    <3>1. \A i \in 1..n : e.calls[i] = x.call <=> i = k
      <4>1. DOMAIN e.calls = 1..n /\ k \in 1..n
        BY <1>4 DEF n
      <4> QED BY <4>1
    <3>2. B = {i \in 1..n : e.calls[i] \notin seen}
      BY <1>1, <1>6, <1>7 DEF Missing
    <3>3. A = {i \in 1..n : e.calls[i] \notin s.seen}
      BY <1>1, <1>6 DEF Missing
    <3> HIDE DEF A, B
    <3> QED BY <3>1, <3>2, <3>3
  <2>3. IsFiniteSet(A)
    <3>1. A \in SUBSET (1..n)
      BY <1>6 DEF Missing
    <3> HIDE DEF A
    <3> QED BY <1>4, <3>1, SomeOf
  <2>4. Cardinality(A) \in Nat
    <3> HIDE DEF A
    <3> QED BY <2>3, FS_CardinalityType
  <2>5. Cardinality(A \ {k}) = Cardinality(A) - 1
    <3> HIDE DEF A
    <3> QED BY <2>1, <2>3, FS_RemoveElement
  <2>6. Cardinality(B) = Cardinality(A) - 1 /\ Cardinality(A) + w = n
    BY <1>1, <2>2, <2>5
  <2> HIDE DEF A, B
  <2>7. Cardinality(B) + (w + 1) = n
    BY <1>1, <1>4, <2>4, <2>6
  <2> QED BY <2>7 DEF B
<1>15. seen \subseteq {e.calls[i] : i \in 1..n}
  BY <1>1 DEF n
<1> HIDE DEF seen
<1>16. t \in States /\ t.out = r /\ t.seen = seen /\ t.open = e.calls
  BY <1>1, <1>7
<1>17. \E y \in Nat :
         /\ Len(t.out) = y + 1 + (w + 1)
         /\ Paired(t.out, y)
         /\ t.out[y + 1] = e
         /\ \A j \in (y + 2)..(y + 1 + (w + 1)) : t.out[j].type = "toolResult"
         /\ t.seen = {t.out[j].call : j \in (y + 2)..(y + 1 + (w + 1))}
  <2>1. t.seen = {t.out[j].call : j \in (q + 2)..(q + 1 + (w + 1))}
    BY <1>13, <1>16
  <2> QED BY <1>5, <1>8, <1>9, <1>11, <1>16, <2>1
<1>18. w + 1 \in Nat
  BY <1>1
<1>19. Busy(t, e, w + 1)
  BY <1>1, <1>14, <1>15, <1>16, <1>17, <1>18 DEF Busy, n
<1> QED
  BY <1>19 DEF t

LEMMA OtherCloses ==
  ASSUME NEW a, Closed(a), NEW e \in Sent, e.type \notin {"assistant", "toolResult"}
  PROVE  Closed([a EXCEPT !.out = Append(@, e)])
<1> DEFINE r == Append(a.out, e)
<1>1. a \in States /\ a.out \in Seq(Sent) /\ Paired(a.out, Len(a.out))
      /\ a.open = <<>> /\ a.seen = {}
  BY DEF Closed, States
<1>2. Paired(r, Len(r)) /\ r \in Seq(Sent)
  BY <1>1, PairedWithOther
<1> HIDE DEF r
<1>3. /\ [a EXCEPT !.out = r] \in States /\ [a EXCEPT !.out = r].out = r
      /\ [a EXCEPT !.out = r].open = a.open /\ [a EXCEPT !.out = r].seen = a.seen
  BY <1>1, <1>2, OutChanges
<1>4. Closed([a EXCEPT !.out = r])
  <2> DEFINE t == [a EXCEPT !.out = r]
  <2> HIDE DEF t
  <2>1. t \in States /\ t.out = r /\ t.open = <<>> /\ t.seen = {}
    BY <1>1, <1>3 DEF t
  <2>2. Closed(t)
    BY <1>2, <2>1 DEF Closed
  <2> QED BY <2>2 DEF t
<1> QED
  BY <1>4 DEF r

LEMMA EntriesAreSent ==
  ASSUME NEW m \in Seq(Entries)
  PROVE  m \in Seq(Sent) /\ \A i \in 1..Len(m) : m[i] \in Sent
BY DEF Sent

LEMMA UpToIsAnswered ==
  ASSUME NEW s, NEW m, NEW n, UpTo(s, m, n)
  PROVE  Closed(Answered(s))
<1>1. CASE Closed(s)
  BY <1>1, ClosedIsAnswered
<1>2. CASE \E j \in 1..n : Busy(s, m[j], n - j)
  BY <1>2, BusyIsAnswered
<1> QED
  BY <1>1, <1>2 DEF UpTo

\* A result that comes is one the last answer waits for.
LEMMA ResultIsAwaited ==
  ASSUME NEW m \in Seq(Entries), Complete(m), NEW n \in Nat, n + 1 <= Len(m),
         NEW s, UpTo(s, m, n), m[n + 1].type = "toolResult"
  PROVE  \E j \in 1..n :
           /\ Busy(s, m[j], n - j)
           /\ \A x \in (j + 1)..n : m[x].type = "toolResult"
           /\ s.seen = {m[x].call : x \in (j + 1)..n}
           /\ \E k \in 1..Len(m[j].calls) : m[n + 1].call = m[j].calls[k]
           /\ m[n + 1].call \notin s.seen
<1> DEFINE e == m[n + 1]
<1>1. n + 1 \in 1..Len(m) /\ e \in Entries
  OBVIOUS
<1>2. PICK i \in 1..((n + 1) - 1) :
        IsCallOf(e.call, m[i]) /\ \A x \in (i + 1)..(n + 1) : m[x].type = "toolResult"
  BY <1>1 DEF Complete
<1>3. i \in 1..n /\ m[i].type = "assistant" /\ ~m[i].failed
      /\ \E k \in DOMAIN m[i].calls : m[i].calls[k] = e.call
  BY <1>2 DEF IsCallOf
<1>4. ASSUME Closed(s), n # 0 => m[n].type # "toolResult"
                               /\ (m[n].type = "assistant" => m[n].failed)
      PROVE  FALSE
  <2>1. i = n
    <3>1. i # n => n \in (i + 1)..(n + 1)
      BY <1>3
    <3>2. n # 0
      BY <1>3
    <3> QED BY <1>2, <1>4, <3>1, <3>2
  <2>2. n # 0
    BY <1>3
  <2> QED BY <1>3, <1>4, <2>1, <2>2
<1>5. PICK j \in 1..n :
        /\ Busy(s, m[j], n - j)
        /\ \A x \in (j + 1)..n : m[x].type = "toolResult"
        /\ s.seen = {m[x].call : x \in (j + 1)..n}
  BY <1>4 DEF UpTo
<1>6. i = j
  <2>1. m[j].type = "assistant"
    BY <1>5 DEF Busy
  <2>2. ~(j < i)
    <3> SUFFICES ASSUME j < i PROVE FALSE
      OBVIOUS
    <3>1. i \in (j + 1)..n
      BY <1>3
    <3>2. m[i].type = "toolResult"
      BY <1>5, <3>1
    <3> QED BY <1>3, <3>2
  <2>3. ~(i < j)
    <3> SUFFICES ASSUME i < j PROVE FALSE
      OBVIOUS
    <3>1. j \in (i + 1)..(n + 1)
      BY <1>3
    <3>2. m[j].type = "toolResult"
      BY <1>2, <3>1
    <3> QED BY <2>1, <3>2
  <2>4. i \in Int /\ j \in Int
    BY <1>3
  <2> QED BY <2>2, <2>3, <2>4
<1>7. DOMAIN m[j].calls = 1..Len(m[j].calls)
  <2>1. m[j] \in Sent
    BY EntriesAreSent
  <2>2. m[j].calls \in Seq(Calls)
    BY <1>3, <1>6, <2>1, CallsOfSent
  <2> QED BY <2>2
<1>8. e.call \notin s.seen
  <2> SUFFICES ASSUME e.call \in s.seen PROVE FALSE
    OBVIOUS
  <2>1. PICK x \in (j + 1)..n : m[x].call = e.call
    BY <1>5
  <2>2. x \in 1..Len(m) /\ m[x].type = "toolResult" /\ x # n + 1
    BY <1>5
  <2>3. x = n + 1
    BY <1>1, <2>1, <2>2 DEF Complete
  <2> QED BY <2>2, <2>3
<1> QED
  BY <1>3, <1>5, <1>6, <1>7, <1>8

LEMMA MessageIsTaken ==
  ASSUME NEW m \in Seq(Entries), Complete(m), NEW n \in Nat, n + 1 <= Len(m),
         NEW s, UpTo(s, m, n)
  PROVE  UpTo(WithMessage(s, m[n + 1]), m, n + 1)
<1> DEFINE e == m[n + 1]
           a == Answered(s)
           t == WithMessage(s, e)
<1>1. n + 1 \in 1..Len(m) /\ e \in Sent
  <2>1. n + 1 \in 1..Len(m)
    OBVIOUS
  <2> QED BY <2>1, EntriesAreSent
<1>2. Closed(a)
  BY UpToIsAnswered
<1>3. CASE e.type = "assistant" /\ e.failed
  <2>1. t = a
    BY <1>3 DEF WithMessage
  <2> HIDE DEF a, t
  <2>2. UpTo(t, m, n + 1)
    BY <1>2, <1>3, <2>1 DEF UpTo
  <2> QED BY <2>2 DEF t
<1>4. CASE e.type = "assistant" /\ ~e.failed
  <2>1. t = [out |-> Append(a.out, e), open |-> e.calls, seen |-> {}]
    BY <1>4 DEF WithMessage
  <2> HIDE DEF a
  <2>2. Busy([out |-> Append(a.out, e), open |-> e.calls, seen |-> {}], e, 0)
    <3> HIDE DEF e
    <3> QED BY <1>1, <1>2, <1>4, AnswerStarts
  <2>3. (n + 1) - (n + 1) = 0 /\ n + 1 \in 1..(n + 1)
        /\ \A x \in ((n + 1) + 1)..(n + 1) : FALSE
    OBVIOUS
  <2>4. t.seen = {m[x].call : x \in ((n + 1) + 1)..(n + 1)}
    <3>1. t.seen = {}
      BY <2>1
    <3> HIDE DEF t
    <3> QED BY <2>3, <3>1
  <2>5. Busy(t, m[n + 1], (n + 1) - (n + 1))
    <3> HIDE DEF t
    <3> QED BY <2>1, <2>2, <2>3
  <2> HIDE DEF t
  <2>6. UpTo(t, m, n + 1)
    BY <2>3, <2>4, <2>5 DEF UpTo
  <2> QED BY <2>6 DEF t
<1>5. CASE e.type = "toolResult"
  <2>1. t = [s EXCEPT !.out = Append(@, e), !.seen = @ \union {e.call}]
    BY <1>5 DEF WithMessage
  <2>2. PICK j \in 1..n :
          /\ Busy(s, m[j], n - j)
          /\ \A x \in (j + 1)..n : m[x].type = "toolResult"
          /\ s.seen = {m[x].call : x \in (j + 1)..n}
          /\ \E k \in 1..Len(m[j].calls) : e.call = m[j].calls[k]
          /\ e.call \notin s.seen
    BY <1>5, ResultIsAwaited
  <2>3. PICK k \in 1..Len(m[j].calls) : e.call = m[j].calls[k]
    BY <2>2
  <2>4. \A x, y \in DOMAIN m[j].calls : m[j].calls[x] = m[j].calls[y] => x = y
    <3>1. m[j].type = "assistant" /\ j \in 1..Len(m)
      BY <2>2 DEF Busy
    <3> QED BY <3>1 DEF Complete
  <2>5. Busy(t, m[j], (n - j) + 1)
    <3> DEFINE b == m[j]
               w == n - j
               u == [s EXCEPT !.out = Append(@, e), !.seen = @ \union {e.call}]
    <3>1. Busy(s, b, w) /\ e.call \notin s.seen
      BY <2>2
    <3>2. k \in 1..Len(b.calls) /\ e.call = b.calls[k]
      BY <2>3
    <3>3. \A x, y \in DOMAIN b.calls : b.calls[x] = b.calls[y] => x = y
      BY <2>4
    <3>4. Busy(u, b, w + 1)
      <4> HIDE DEF b, w, e
      <4> QED BY <1>1, <1>5, <3>1, <3>2, <3>3, ResultCounts
    <3> QED BY <2>1, <3>4
  <2>6. (n - j) + 1 = (n + 1) - j /\ j \in 1..(n + 1)
    OBVIOUS
  <2>7. \A x \in (j + 1)..(n + 1) : x \in (j + 1)..n \/ x = n + 1
    OBVIOUS
  <2>8. \A x \in (j + 1)..(n + 1) : m[x].type = "toolResult"
    BY <1>5, <2>2, <2>7
  <2>9. n + 1 \in (j + 1)..(n + 1) /\ \A x \in (j + 1)..n : x \in (j + 1)..(n + 1)
    OBVIOUS
  <2>10. t.seen = s.seen \union {e.call}
    <3>1. s \in States
      BY <2>2 DEF Busy
    <3> HIDE DEF e
    <3> QED BY <2>1, <3>1 DEF States
  <2>11. t.seen = {m[x].call : x \in (j + 1)..(n + 1)}
    <3>1. s.seen = {m[x].call : x \in (j + 1)..n}
      BY <2>2
    <3> HIDE DEF t
    <3> QED BY <2>7, <2>9, <2>10, <3>1
  <2> HIDE DEF t
  <2>12. UpTo(t, m, n + 1)
    BY <2>5, <2>6, <2>8, <2>11 DEF UpTo
  <2> QED BY <2>12 DEF t
<1>6. CASE e.type \notin {"assistant", "toolResult"}
  <2>1. t = [a EXCEPT !.out = Append(@, e)]
    BY <1>6 DEF WithMessage
  <2>2. Closed([a EXCEPT !.out = Append(@, e)])
    <3> HIDE DEF a, e
    <3> QED BY <1>1, <1>2, <1>6, OtherCloses
  <2> HIDE DEF a, t
  <2>3. UpTo(t, m, n + 1)
    BY <1>6, <2>1, <2>2 DEF UpTo
  <2> QED BY <2>3 DEF t
<1>7. e.failed \in BOOLEAN \/ e.type # "assistant"
  BY <1>1, CallsOfSent
<1> QED
  BY <1>3, <1>4, <1>5, <1>6, <1>7

Nothing == [out |-> <<>>, open |-> <<>>, seen |-> {}]

LEMMA NothingIsSent ==
  ASSUME NEW m
  PROVE  UpTo(Nothing, m, 0)
<1>1. Nothing \in States
  BY DEF Nothing, States
<1>2. Paired(Nothing.out, Len(Nothing.out))
  BY DEF Nothing, Paired
<1> QED
  BY <1>1, <1>2 DEF UpTo, Closed, Nothing

\* A function that is what its values at smaller numbers make of it exists.
SentBy(f, m, n) ==
  f = [i \in 0..n |-> IF i = 0 THEN Nothing ELSE WithMessage(f[i - 1], m[i])]

LEMMA SentExists ==
  ASSUME NEW m, NEW l \in Nat
  PROVE  \E f : SentBy(f, m, l)
<1> DEFINE S == {n \in Nat : ~\E f : SentBy(f, m, n)}
<1> SUFFICES ASSUME S # {} PROVE FALSE
  OBVIOUS
<1>1. S \subseteq Nat
  OBVIOUS
<1>2. PICK n \in S : \A y \in S : ~(<<y, n>> \in OpToRel(<, Nat))
  <2> HIDE DEF S
  <2> QED BY <1>1, WFMin, NatLessThanWellFounded
<1>3. n \in Nat /\ ~\E f : SentBy(f, m, n)
  OBVIOUS
<1>4. n # 0
  <2> SUFFICES ASSUME n = 0 PROVE FALSE
    OBVIOUS
  <2> DEFINE f == [i \in 0..0 |-> Nothing]
  <2>1. \A i \in 0..0 : i = 0
    OBVIOUS
  <2>2. f = [i \in 0..0 |-> IF i = 0 THEN Nothing ELSE WithMessage(f[i - 1], m[i])]
    BY <2>1
  <2> HIDE DEF f
  <2>3. SentBy(f, m, 0)
    BY <2>2 DEF SentBy
  <2> QED BY <1>3, <2>3
<1>5. n - 1 \in Nat /\ n - 1 < n
  BY <1>3, <1>4
<1>6. PICK f : SentBy(f, m, n - 1)
  <2>1. <<n - 1, n>> \in OpToRel(<, Nat)
    BY <1>3, <1>5 DEF OpToRel
  <2>2. n - 1 \notin S
    BY <1>2, <2>1
  <2> QED BY <1>5, <2>2
<1> DEFINE last == WithMessage(f[n - 1], m[n])
           g == [i \in 0..n |-> IF i = n THEN last ELSE f[i]]
<1>7. \A i \in 0..(n - 1) : f[i] = IF i = 0 THEN Nothing ELSE WithMessage(f[i - 1], m[i])
  BY <1>6 DEF SentBy
<1>8. g[n] = last /\ \A i \in 0..(n - 1) : g[i] = f[i]
  <2> HIDE DEF last
  <2> QED BY <1>3, <1>5
<1>9. ASSUME NEW i \in 0..n
      PROVE  g[i] = IF i = 0 THEN Nothing ELSE WithMessage(g[i - 1], m[i])
  <2>1. CASE i = n
    <3>1. n - 1 \in 0..(n - 1)
      BY <1>5
    <3>2. g[n - 1] = f[n - 1]
      <4> HIDE DEF g
      <4> QED BY <1>8, <3>1
    <3> HIDE DEF g
    <3>3. g[n] = WithMessage(g[n - 1], m[n])
      BY <1>8, <3>2
    <3> QED BY <1>4, <2>1, <3>3
  <2>2. CASE i # n
    <3>1. i \in 0..(n - 1) /\ (i # 0 => i - 1 \in 0..(n - 1))
      BY <1>3, <2>2
    <3> HIDE DEF g
    <3>2. g[i] = f[i] /\ (i # 0 => g[i - 1] = f[i - 1])
      BY <1>8, <3>1
    <3> QED BY <1>7, <3>1, <3>2
  <2> QED BY <2>1, <2>2
<1>10. g = [i \in 0..n |-> g[i]]
  OBVIOUS
<1> HIDE DEF g
<1>11. g = [i \in 0..n |-> IF i = 0 THEN Nothing ELSE WithMessage(g[i - 1], m[i])]
  BY <1>9, <1>10
<1>12. SentBy(g, m, n)
  BY <1>11 DEF SentBy
<1> QED
  BY <1>3, <1>12

\* So all is paired in the end.
LEMMA RequestIsPaired ==
  ASSUME Context \in Seq(Entries), Complete(Context)
  PROVE  Request \in Seq(Sent) /\ Paired(Request, Len(Request))
<1> DEFINE m == Context
           l == Len(m)
           sent == CHOOSE f : SentBy(f, m, l)
<1>1. m \in Seq(Entries) /\ Complete(m) /\ l \in Nat
  OBVIOUS
<1>2. SentBy(sent, m, l)
  <2> HIDE DEF m, l
  <2>1. \E f : SentBy(f, m, l)
    BY <1>1, SentExists
  <2> QED BY <2>1
<1>3. Request = Answered(sent[l]).out
  BY DEF Request, SentBy, Nothing
<1>4. l = Len(m)
  OBVIOUS
<1> HIDE DEF m, l, sent
<1>5. \A i \in 0..l : sent[i] = IF i = 0 THEN Nothing ELSE WithMessage(sent[i - 1], m[i])
  BY <1>2 DEF SentBy
<1>6. \A n \in 0..l : UpTo(sent[n], m, n)
  <2> DEFINE S == {n \in 0..l : ~UpTo(sent[n], m, n)}
  <2> SUFFICES ASSUME S # {} PROVE FALSE
    OBVIOUS
  <2>1. S \subseteq Nat
    BY <1>1
  <2>2. PICK n \in S : \A y \in S : ~(<<y, n>> \in OpToRel(<, Nat))
    <3> HIDE DEF S
    <3> QED BY <2>1, WFMin, NatLessThanWellFounded
  <2>3. n \in 0..l /\ ~UpTo(sent[n], m, n)
    OBVIOUS
  <2>4. n # 0
    <3>1. sent[0] = Nothing
      BY <1>1, <1>5
    <3>2. UpTo(sent[0], m, 0)
      BY <3>1, NothingIsSent
    <3> QED BY <2>3, <3>2
  <2>5. n - 1 \in Nat /\ n - 1 < n /\ n - 1 \in 0..l /\ n \in Nat /\ (n - 1) + 1 = n
    BY <1>1, <2>3, <2>4
  <2>6. UpTo(sent[n - 1], m, n - 1)
    <3>1. <<n - 1, n>> \in OpToRel(<, Nat)
      BY <2>5 DEF OpToRel
    <3>2. n - 1 \notin S
      BY <2>2, <3>1
    <3> QED BY <2>5, <3>2
  <2> DEFINE i == n - 1
             s == sent[i]
  <2>7. i \in Nat /\ i + 1 <= Len(m) /\ UpTo(s, m, i)
    BY <1>1, <1>4, <2>3, <2>5, <2>6
  <2>8. UpTo(WithMessage(s, m[i + 1]), m, i + 1)
    <3> HIDE DEF i, s
    <3> QED BY <1>1, <2>7, MessageIsTaken
  <2>9. sent[n] = WithMessage(sent[n - 1], m[n])
    BY <1>5, <2>3, <2>4
  <2> QED BY <2>3, <2>5, <2>8, <2>9
<1>7. UpTo(sent[l], m, l)
  BY <1>1, <1>6
<1>8. Closed(Answered(sent[l]))
  BY <1>7, UpToIsAnswered
<1> QED
  BY <1>3, <1>8 DEF Closed, States

-----------------------------------------------------------------------------
(* The context of a branch *)

MislaidIn(b, c) == PositionIn(b, b[c].kept) \notin 1..(c - 1)

AstrayIn(b, i) ==
  /\ b[i].type = "toolResult"
  /\ LET answer == PositionIn(b, b[i].call[1])
     IN \/ answer = 0
        \/ \E j \in (answer + 1)..i :
             \/ HasMessage(b[j]) /\ b[j].type # "toolResult"
             \/ b[j].type = "compaction" /\ MislaidIn(b, j)

\* The answer of a call, if it is there, made that call and did not fail.
Made(b, call) ==
  \A p \in 1..Len(b) : b[p].id = call[1] => IsCallOf(call, b[p])

AnswersAreSound(b) ==
  \A i \in 1..Len(b) : b[i].type = "assistant" =>
    \A k \in DOMAIN b[i].calls : b[i].calls[k] = <<b[i].id, k>>

ResultsAreSound(b) ==
  /\ \A i \in 1..Len(b) : b[i].type = "toolResult" =>
       b[i].call[1] < b[i].id /\ Made(b, b[i].call)
  /\ \A i, j \in 1..Len(b) :
       b[i].type = "toolResult" /\ b[j].type = "toolResult" /\ b[i].call = b[j].call
         => i = j

\* A result newer than an entry is a result of an answer newer than it.
Newer(b, id) ==
  \A i \in 1..Len(b) :
    b[i].type = "toolResult" /\ b[i].id > id => b[i].call[1] > id

\* What begins at k parts no result from its answer.
Unsplit(b, k) ==
  \A i \in 1..Len(b) : b[i].type = "toolResult" /\ ~AstrayIn(b, i) =>
    ~(PositionIn(b, b[i].call[1]) < k /\ k <= i)

LEMMA CallsOfEntries ==
  ASSUME NEW b \in Seq(Entries), NEW i \in 1..Len(b)
  PROVE  /\ b[i] \in Entries /\ b[i].id \in Nat
         /\ b[i].type = "assistant" => b[i].calls \in Seq(Calls)
         /\ b[i].type = "toolResult" => b[i].call \in Calls /\ b[i].call[1] \in Nat
         /\ b[i].type = "compaction" =>
              /\ b[i].kept \in Nat /\ b[i].upTo \in Nat
              /\ b[i].kept <= b[i].upTo /\ b[i].upTo < b[i].id
<1>1. b[i] \in Entries
  OBVIOUS
<1> QED
  BY <1>1 DEF Entries, Plains, AllAnswers, Results, Summaries, Calls, Messages

LEMMA PickedIsComplete ==
  ASSUME NEW b \in Seq(Entries), AnswersAreSound(b), ResultsAreSound(b),
         NEW at \in SUBSET (1..Len(b)),
         \A i \in at : b[i].type = "toolResult" =>
           \E p \in at : /\ p < i /\ IsCallOf(b[i].call, b[p])
                         /\ \A x \in at : p < x /\ x <= i => b[x].type = "toolResult"
  PROVE  Picked(b, at) \in Seq(Entries) /\ Complete(Picked(b, at))
<1> DEFINE l == Len(b)
           m == Picked(b, at)
           N == Cardinality(at)
<1>1. l \in Nat /\ at \in SUBSET (1..l) /\ \A i \in at : b[i] \in Entries
  OBVIOUS
<1>2. m \in Seq(Entries) /\ Len(m) = N /\ N \in Nat
  <2> HIDE DEF l
  <2> QED BY <1>1, PickedIs, SomeOf
<1>3. \A i \in at : Rank(at, i) \in 1..N /\ m[Rank(at, i)] = b[i]
  <2> HIDE DEF l
  <2> QED BY <1>1, RankIs, PickedAt
<1>4. \A n \in 1..N : \E i \in at : Rank(at, i) = n
  <2> HIDE DEF l
  <2> QED BY <1>1, RankOnto
<1>5. \A i, j \in at : i < j => Rank(at, i) < Rank(at, j)
  <2> HIDE DEF l
  <2> QED BY <1>1, RankGrows
<1>6. \A i, j \in at : Rank(at, i) < Rank(at, j) => i < j
  <2> SUFFICES ASSUME NEW i \in at, NEW j \in at, Rank(at, i) < Rank(at, j)
               PROVE  i < j
    OBVIOUS
  <2>1. Rank(at, i) \in Nat /\ Rank(at, j) \in Nat /\ i \in Nat /\ j \in Nat
    BY <1>1, <1>2, <1>3
  <2>2. i # j
    BY <2>1
  <2>3. ~(j < i)
    <3> SUFFICES ASSUME j < i PROVE FALSE
      OBVIOUS
    <3>1. Rank(at, j) < Rank(at, i)
      BY <1>5
    <3> QED BY <2>1, <3>1
  <2> QED BY <2>1, <2>2, <2>3
<1> HIDE DEF m, N, l
<1>7. ASSUME NEW n \in 1..Len(m), m[n].type = "toolResult"
      PROVE  \E j \in 1..(n - 1) :
               /\ IsCallOf(m[n].call, m[j])
               /\ \A x \in (j + 1)..n : m[x].type = "toolResult"
  <2>1. PICK i \in at : Rank(at, i) = n
    BY <1>2, <1>4
  <2>2. m[n] = b[i]
    BY <1>3, <2>1
  <2>3. PICK p \in at : /\ p < i /\ IsCallOf(b[i].call, b[p])
                        /\ \A x \in at : p < x /\ x <= i => b[x].type = "toolResult"
    BY <1>7, <2>2
  <2>4. Rank(at, p) \in 1..N /\ Rank(at, p) < n /\ m[Rank(at, p)] = b[p]
    BY <1>3, <1>5, <2>1, <2>3
  <2> DEFINE j == Rank(at, p)
  <2>5. j \in 1..(n - 1)
    <3> HIDE DEF j
    <3>1. j \in 1..N /\ j < n
      BY <2>4 DEF j
    <3> QED BY <1>2, <3>1
  <2>6. ASSUME NEW x \in (j + 1)..n PROVE m[x].type = "toolResult"
    <3>1. x \in 1..N /\ j < x /\ x <= n
      <4> HIDE DEF j
      <4> QED BY <1>2, <2>5
    <3>2. PICK y \in at : Rank(at, y) = x
      BY <1>4, <3>1
    <3>3. p < y
      BY <1>6, <3>1, <3>2
    <3>4. y <= i
      <4>1. ~(i < y)
        <5> SUFFICES ASSUME i < y PROVE FALSE
          OBVIOUS
        <5>1. n < x
          BY <1>5, <2>1, <3>2
        <5> QED BY <1>2, <3>1, <5>1
      <4>2. i \in Nat /\ y \in Nat
        BY <1>1
      <4> QED BY <4>1, <4>2
    <3> QED BY <1>3, <2>3, <3>2, <3>3, <3>4
  <2> HIDE DEF j
  <2> QED BY <2>2, <2>3, <2>4, <2>5, <2>6 DEF j
<1>8. ASSUME NEW n \in 1..Len(m), NEW k \in 1..Len(m), m[n].type = "toolResult",
             m[k].type = "toolResult", m[n].call = m[k].call
      PROVE  n = k
  <2>1. PICK i \in at : Rank(at, i) = n
    BY <1>2, <1>4
  <2>2. PICK j \in at : Rank(at, j) = k
    BY <1>2, <1>4
  <2>3. m[n] = b[i] /\ m[k] = b[j]
    BY <1>3, <2>1, <2>2
  <2>4. i \in 1..Len(b) /\ j \in 1..Len(b)
    OBVIOUS
  <2>5. i = j
    BY <1>8, <2>3, <2>4 DEF ResultsAreSound
  <2> QED BY <2>1, <2>2, <2>5
<1>9. ASSUME NEW n \in 1..Len(m), m[n].type = "assistant",
             NEW k \in DOMAIN m[n].calls, NEW h \in DOMAIN m[n].calls,
             m[n].calls[k] = m[n].calls[h]
      PROVE  k = h
  <2>1. PICK i \in at : Rank(at, i) = n
    BY <1>2, <1>4
  <2>2. m[n] = b[i] /\ i \in 1..Len(b)
    BY <1>3, <2>1
  <2>3. m[n].calls[k] = <<b[i].id, k>> /\ m[n].calls[h] = <<b[i].id, h>>
    BY <1>9, <2>2 DEF AnswersAreSound
  <2>4. <<b[i].id, k>> = <<b[i].id, h>>
    BY <1>9, <2>3
  <2> QED BY <2>4
<1>10. Complete(m)
  BY <1>7, <1>8, <1>9 DEF Complete
<1> QED
  BY <1>2, <1>10 DEF m

LEMMA HeadIsComplete ==
  ASSUME NEW m \in Seq(Entries), Complete(m), NEW e \in Entries, e.type = "compaction"
  PROVE  <<e>> \o m \in Seq(Entries) /\ Complete(<<e>> \o m)
<1> DEFINE t == <<e>> \o m
           l == Len(m)
<1>1. <<e>> \in Seq(Entries) /\ Len(<<e>>) = 1 /\ <<e>>[1] = e /\ l \in Nat
  OBVIOUS
<1>2. t \in Seq(Entries) /\ Len(t) = l + 1 /\ t[1] = e /\ \A n \in 1..l : t[n + 1] = m[n]
  <2>1. t \in Seq(Entries) /\ Len(t) = Len(<<e>>) + Len(m)
    BY <1>1
  <2>2. 1 \in 1..Len(<<e>>)
    BY <1>1
  <2>3. t[1] = <<e>>[1]
    BY <1>1, <2>2, CatLeft
  <2>4. \A n \in 1..Len(m) : t[Len(<<e>>) + n] = m[n]
    BY <1>1, CatRight
  <2> HIDE DEF t
  <2>5. \A n \in 1..l : t[1 + n] = m[n]
    BY <1>1, <2>4
  <2>6. \A n \in 1..l : 1 + n = n + 1
    BY <1>1
  <2>7. \A n \in 1..l : t[n + 1] = m[n]
    BY <2>5, <2>6
  <2> QED BY <1>1, <2>1, <2>3, <2>7
<1> HIDE DEF t
<1>3. \A n \in 1..Len(t) : n = 1 \/ (n - 1 \in 1..l /\ (n - 1) + 1 = n)
  BY <1>1, <1>2
<1>4. \A n \in 1..Len(t) : n = 1 \/ t[n] = m[n - 1]
  <2> SUFFICES ASSUME NEW n \in 1..Len(t), n # 1 PROVE t[n] = m[n - 1]
    OBVIOUS
  <2>1. PICK k \in 1..l : k = n - 1 /\ k + 1 = n
    BY <1>3
  <2>2. t[k + 1] = m[k]
    BY <1>2
  <2> QED BY <2>1, <2>2
<1>5. ASSUME NEW n \in 1..Len(t), t[n].type = "toolResult"
      PROVE  \E j \in 1..(n - 1) :
               /\ IsCallOf(t[n].call, t[j])
               /\ \A x \in (j + 1)..n : t[x].type = "toolResult"
  <2>1. n # 1
    BY <1>2, <1>5
  <2>2. PICK k \in 1..l : k = n - 1 /\ k + 1 = n
    BY <1>3, <2>1
  <2>3. t[n] = m[k]
    BY <1>2, <2>2
  <2>4. PICK j \in 1..(k - 1) :
          IsCallOf(m[k].call, m[j]) /\ \A x \in (j + 1)..k : m[x].type = "toolResult"
    BY <1>5, <2>3 DEF Complete
  <2>5. j + 1 \in 1..(n - 1) /\ j \in 1..l
    BY <1>1, <2>2
  <2>6. t[j + 1] = m[j]
    BY <1>2, <2>5
  <2>7. ASSUME NEW x \in ((j + 1) + 1)..n PROVE t[x].type = "toolResult"
    <3>1. x - 1 \in (j + 1)..k /\ x \in 1..Len(t) /\ x # 1
      BY <1>1, <1>2, <2>2, <2>5
    <3>2. t[x] = m[x - 1]
      BY <1>4, <3>1
    <3> QED BY <2>4, <3>1, <3>2
  <2> QED BY <2>3, <2>4, <2>5, <2>6, <2>7
<1>6. ASSUME NEW n \in 1..Len(t), NEW k \in 1..Len(t), t[n].type = "toolResult",
             t[k].type = "toolResult", t[n].call = t[k].call
      PROVE  n = k
  <2>1. n # 1 /\ k # 1
    BY <1>2, <1>6
  <2>2. t[n] = m[n - 1] /\ t[k] = m[k - 1]
    BY <1>4, <2>1
  <2>3. n - 1 \in 1..l /\ k - 1 \in 1..l
    BY <1>3, <2>1
  <2>4. n - 1 = k - 1
    BY <1>6, <2>2, <2>3 DEF Complete
  <2> QED BY <1>2, <1>1, <2>4
<1>7. ASSUME NEW n \in 1..Len(t), t[n].type = "assistant",
             NEW k \in DOMAIN t[n].calls, NEW h \in DOMAIN t[n].calls,
             t[n].calls[k] = t[n].calls[h]
      PROVE  k = h
  <2>1. n # 1
    BY <1>2, <1>7
  <2>2. t[n] = m[n - 1] /\ n - 1 \in 1..l
    BY <1>3, <1>4, <2>1
  <2> QED BY <1>7, <2>2 DEF Complete
<1>8. Complete(t)
  BY <1>5, <1>6, <1>7 DEF Complete
<1> QED
  BY <1>2, <1>8 DEF t

\* Nothing in the context comes between a result and its answer, and the
\* answer is in it if the result is.
LEMMA ContextIsComplete ==
  ASSUME branch \in Seq(Entries), Grows(branch),
         AnswersAreSound(branch), ResultsAreSound(branch),
         \A c \in CompactionsOf(branch) : Newer(branch, branch[c].upTo),
         \A c \in CompactionsOf(branch) :
           ~MislaidIn(branch, c) => Unsplit(branch, PositionIn(branch, branch[c].kept)),
         \A i \in DOMAIN branch : ~AstrayIn(branch, i)
  PROVE  Context \in Seq(Entries) /\ Complete(Context)
<1> DEFINE b == branch
           l == Len(b)
           c == BeforeIn(b, l + 1)
           kept == PositionIn(b, b[c].kept)
           early == IF kept \in 1..(c - 1) THEN kept..(c - 1) ELSE {}
           all == IF c = 0 THEN 1..l ELSE early \union (c + 1)..l
           at == {i \in all : HasMessage(b[i])}
<1>1. b \in Seq(Entries) /\ l \in Nat /\ l + 1 \in Nat /\ DOMAIN b = 1..l /\ Grows(b)
  OBVIOUS
<1>2. /\ c \in 0..l
      /\ c # 0 => b[c].type = "compaction" /\ c \in CompactionsOf(b)
      /\ \A i \in 1..l : b[i].type = "compaction" => i <= c
  <2>1. /\ BeforeIn(b, l + 1) \in 0..Len(b)
        /\ BeforeIn(b, l + 1) # 0 => b[BeforeIn(b, l + 1)].type = "compaction"
        /\ \A i \in 1..Len(b) :
             i < l + 1 /\ b[i].type = "compaction" => i <= BeforeIn(b, l + 1)
    <3> HIDE DEF b, l
    <3> QED BY <1>1, BeforeIs
  <2>2. \A i \in 1..l : i < l + 1
    BY <1>1
  <2> HIDE DEF c
  <2>3. c = BeforeIn(b, l + 1)
    BY DEF c
  <2> QED BY <1>1, <2>1, <2>2, <2>3 DEF CompactionsOf
<1>3. Context = IF c = 0 THEN Picked(b, at) ELSE <<b[c]>> \o Picked(b, at)
  <2>1. CompactionBefore(l + 1) = c
    BY DEF CompactionBefore, BeforeIn, Compactions, CompactionsOf
  <2>2. c # 0 => Position(b[c].kept) = kept
    BY DEF Position, PositionIn
  <2>3. Context = IF c = 0 THEN MessagesAt(DOMAIN b)
                  ELSE <<b[c]>> \o MessagesAt(early \union (c + 1)..l)
    <3> DEFINE k == IF c = 0 THEN 0 ELSE Position(b[c].kept)
    <3>1. Context = IF c = 0 THEN MessagesAt(DOMAIN b)
                    ELSE <<b[c]>> \o MessagesAt(
                      (IF k \in 1..(c - 1) THEN k..(c - 1) ELSE {}) \union (c + 1)..l)
      BY <2>1 DEF Context
    <3>2. c # 0 => k = kept
      BY <2>2
    <3> HIDE DEF c, kept, k
    <3> QED BY <3>1, <3>2
  <2>4. c = 0 => MessagesAt(DOMAIN b) = Picked(b, at)
    <3>1. MessagesAt(DOMAIN b) = Picked(b, {i \in 1..l : HasMessage(b[i])})
      BY <1>1 DEF MessagesAt
    <3> HIDE DEF c
    <3> QED BY <3>1
  <2>5. c # 0 => MessagesAt(early \union (c + 1)..l) = Picked(b, at)
    <3>1. MessagesAt(early \union (c + 1)..l)
            = Picked(b, {i \in early \union (c + 1)..l : HasMessage(b[i])})
      BY DEF MessagesAt
    <3> HIDE DEF c, early
    <3> QED BY <3>1
  <2> HIDE DEF c, at, early, l
  <2> QED BY <2>3, <2>4, <2>5
<1> HIDE DEF kept, c
<1>4. at \in SUBSET (1..l)
  <2>1. early \subseteq 1..l
    <3> SUFFICES ASSUME NEW i \in early PROVE i \in 1..l
      OBVIOUS
    <3>1. kept \in 1..(c - 1) /\ i \in kept..(c - 1)
      OBVIOUS
    <3> QED BY <1>1, <1>2, <3>1
  <2>2. (c + 1)..l \subseteq 1..l
    BY <1>1, <1>2
  <2> QED BY <2>1, <2>2
<1>5. ASSUME NEW i \in at, b[i].type = "toolResult"
      PROVE  \E p \in at : /\ p < i /\ IsCallOf(b[i].call, b[p])
                           /\ \A x \in at : p < x /\ x <= i => b[x].type = "toolResult"
  <2> DEFINE p == PositionIn(b, b[i].call[1])
  <2> HIDE DEF l, at
  <2>1. i \in 1..l /\ i \in DOMAIN b /\ i \in 1..Len(b)
    BY <1>1, <1>4 DEF l
  <2>2. p # 0 /\ \A j \in (p + 1)..i :
          /\ HasMessage(b[j]) => b[j].type = "toolResult"
          /\ ~(b[j].type = "compaction" /\ MislaidIn(b, j))
    BY <1>5, <2>1 DEF AstrayIn
  <2>3. p \in 1..l /\ b[p].id = b[i].call[1]
    <3>1. /\ PositionIn(b, b[i].call[1]) \in 0..Len(b)
          /\ PositionIn(b, b[i].call[1]) # 0 => b[PositionIn(b, b[i].call[1])].id = b[i].call[1]
      <4> HIDE DEF b
      <4> QED BY <1>1, PositionIsIn
    <3> HIDE DEF b
    <3> QED BY <1>1, <2>2, <3>1 DEF l
  <2> HIDE DEF p
  <2>4. b[i].call[1] < b[i].id /\ Made(b, b[i].call)
    BY <1>5, <2>1 DEF ResultsAreSound
  <2>5. IsCallOf(b[i].call, b[p])
    BY <2>3, <2>4 DEF Made, l
  <2>6. b[i].id \in Nat /\ b[p].id \in Nat
    <3> HIDE DEF b
    <3> QED BY <1>1, <2>1, <2>3, CallsOfEntries DEF l
  <2>7. p < i
    <3>1. p # i
      BY <2>3, <2>4, <2>6
    <3>2. ~(i < p)
      <4> SUFFICES ASSUME i < p PROVE FALSE
        OBVIOUS
      <4>1. b[i].id < b[p].id
        BY <1>1, <2>1, <2>3 DEF Grows, l
      <4> QED BY <2>3, <2>4, <2>6, <4>1
    <3> QED BY <2>1, <2>3, <3>1, <3>2
  <2>8. \A x \in at : p < x /\ x <= i => b[x].type = "toolResult"
    <3> SUFFICES ASSUME NEW x \in at, p < x, x <= i PROVE b[x].type = "toolResult"
      OBVIOUS
    <3>1. x \in 1..l /\ HasMessage(b[x])
      BY <1>4 DEF at
    <3>2. x \in (p + 1)..i
      BY <2>1, <2>3, <3>1
    <3> QED BY <2>2, <3>1, <3>2
  <2>9. b[p].type = "assistant" /\ HasMessage(b[p])
    BY <2>5 DEF IsCallOf, HasMessage, IsMessage
  <2>10. p \in all
    <3>1. CASE c = 0
      BY <2>3, <3>1
    <3>2. CASE c # 0
      <4>1. c \in 1..l /\ c \in CompactionsOf(b) /\ p # c
        BY <1>2, <2>9, <3>2
      <4>2. CASE c < p
        <5>1. p \in (c + 1)..l
          BY <2>3, <4>1, <4>2
        <5> QED BY <3>2, <5>1
      <4>3. CASE p < c /\ i > c
        <5>1. c \in (p + 1)..i
          BY <2>1, <2>3, <4>1, <4>3
        <5>2. ~MislaidIn(b, c)
          BY <1>2, <2>2, <3>2, <5>1
        <5>3. kept \in 1..(c - 1)
          BY <5>2 DEF MislaidIn, kept
        <5>4. b[i].id > b[c].upTo
          <6>1. b[c].upTo < b[c].id /\ b[c].id \in Nat /\ b[c].upTo \in Nat
            <7>1. c \in 1..Len(b) /\ b[c].type = "compaction"
              BY <1>2, <3>2, <4>1 DEF l
            <7> HIDE DEF b
            <7> QED BY <1>1, <7>1, CallsOfEntries
          <6>2. b[c].id < b[i].id
            BY <1>1, <2>1, <4>1, <4>3 DEF Grows, l
          <6> QED BY <2>6, <6>1, <6>2
        <5>5. b[i].call[1] > b[c].upTo
          BY <1>5, <2>1, <4>1, <5>4 DEF Newer
        <5>6. b[c].kept <= b[c].upTo /\ b[c].upTo \in Nat /\ b[c].kept \in Nat
          <6>1. c \in 1..Len(b) /\ b[c].type = "compaction"
            BY <1>2, <3>2, <4>1 DEF l
          <6> HIDE DEF b
          <6> QED BY <1>1, <6>1, CallsOfEntries
        <5>7. b[kept].id = b[c].kept /\ kept \in 1..Len(b)
          <6>1. kept \in 0..Len(b) /\ (kept # 0 => b[kept].id = b[c].kept)
            <7> HIDE DEF b
            <7> QED BY <1>1, PositionIsIn DEF kept
          <6> QED BY <4>1, <5>3, <6>1
        <5>8. kept <= p
          <6> SUFFICES ASSUME p < kept PROVE FALSE
            BY <2>3, <5>7
          <6>1. b[p].id < b[kept].id
            BY <1>1, <2>3, <5>7 DEF Grows, l
          <6> QED BY <2>3, <2>6, <5>5, <5>6, <5>7, <6>1
        <5>9. p \in kept..(c - 1)
          BY <2>3, <4>1, <4>3, <5>3, <5>8
        <5> QED BY <3>2, <5>3, <5>9
      <4>4. CASE p < c /\ ~(i > c)
        <5>1. i \in all /\ i \notin (c + 1)..l
          BY <2>1, <4>1, <4>4 DEF at
        <5>2. i \in early
          BY <3>2, <5>1
        <5>3. kept \in 1..(c - 1) /\ i \in kept..(c - 1)
          BY <5>2
        <5>4. ~MislaidIn(b, c)
          BY <5>3 DEF MislaidIn, kept
        <5>5. Unsplit(b, kept)
          BY <4>1, <5>4 DEF kept
        <5>6. ~(p < kept /\ kept <= i)
          BY <1>5, <2>1, <5>5 DEF Unsplit, p
        <5>7. p \in kept..(c - 1)
          BY <2>1, <2>3, <4>1, <4>4, <5>3, <5>6
        <5> QED BY <3>2, <5>3, <5>7
      <4> QED BY <2>3, <4>1, <4>2, <4>3, <4>4
    <3> QED BY <3>1, <3>2
  <2>11. p \in at
    BY <2>9, <2>10 DEF at
  <2> QED BY <2>5, <2>7, <2>8, <2>11
<1> HIDE DEF at
<1>6. Picked(b, at) \in Seq(Entries) /\ Complete(Picked(b, at))
  <2>1. AnswersAreSound(b) /\ ResultsAreSound(b)
    OBVIOUS
  <2>2. at \in SUBSET (1..Len(b))
    BY <1>4
  <2> HIDE DEF b, l
  <2> QED BY <1>1, <1>5, <2>1, <2>2, PickedIsComplete
<1>7. CASE c = 0
  BY <1>3, <1>6, <1>7
<1>8. CASE c # 0
  <2> DEFINE m == Picked(b, at)
             e == b[c]
  <2>1. e \in Entries /\ e.type = "compaction"
    BY <1>1, <1>2, <1>8
  <2>2. m \in Seq(Entries) /\ Complete(m)
    BY <1>6
  <2>3. Context = <<e>> \o m
    BY <1>3, <1>8
  <2> HIDE DEF m, e
  <2>4. <<e>> \o m \in Seq(Entries) /\ Complete(<<e>> \o m)
    BY <2>1, <2>2, HeadIsComplete
  <2> QED BY <2>3, <2>4
<1> QED
  BY <1>7, <1>8

\* A request in which all is paired is what RequestsAreComplete asks for.
LEMMA PairedIsComplete ==
  ASSUME Request \in Seq(Sent), Paired(Request, Len(Request))
  PROVE  RequestsAreComplete
<1> DEFINE r == Request
           Behind(i, n) == {j \in (i + 1)..(i + n) :
                              j <= Len(r) /\ r[j].type = "toolResult"}
<1>1. r \in Seq(Sent) /\ DOMAIN r = 1..Len(r) /\ Len(r) \in Nat /\ Paired(r, Len(r))
  OBVIOUS
<1> SUFFICES ASSUME NEW i \in DOMAIN r
             PROVE  /\ r[i].type = "assistant" =>
                         LET n == Len(r[i].calls)
                         IN /\ ~r[i].failed
                            /\ Cardinality(Behind(i, n)) = n
                            /\ {r[j].call : j \in Behind(i, n)}
                                 = {r[i].calls[k] : k \in 1..n}
                    /\ r[i].type = "toolResult" =>
                         \E j \in 1..(i - 1) : /\ r[j].type = "assistant"
                                               /\ i \in Behind(j, Len(r[j].calls))
  BY DEF RequestsAreComplete
<1> HIDE DEF r
<1>2. i \in 1..Len(r) /\ r[i] \in Sent
  BY <1>1
<1>3. ASSUME r[i].type = "assistant"
      PROVE  /\ ~r[i].failed
             /\ Cardinality(Behind(i, Len(r[i].calls))) = Len(r[i].calls)
             /\ {r[j].call : j \in Behind(i, Len(r[i].calls))}
                  = {r[i].calls[k] : k \in 1..Len(r[i].calls)}
  <2> DEFINE n == Len(r[i].calls)
             calls == {r[i].calls[k] : k \in 1..n}
             results == Behind(i, n)
  <2>1. n \in Nat
    BY <1>2, <1>3, CallsOfSent
  <2>2. i + n <= Len(r) /\ ~r[i].failed
        /\ (\A j \in (i + 1)..(i + n) : r[j].type = "toolResult")
        /\ {r[j].call : j \in (i + 1)..(i + n)} = calls
    BY <1>1, <1>2, <1>3 DEF Paired, HasResults
  <2> HIDE DEF n, calls
  <2>3. results = (i + 1)..(i + n)
    BY <1>1, <1>2, <2>1, <2>2
  <2>4. Cardinality((i + 1)..(i + n)) = n
    <3>1. i + 1 \in Int /\ i + n \in Int /\ n \in Nat
      BY <1>2, <2>1
    <3>2. IF i + 1 > i + n THEN n = 0 ELSE (i + n) - (i + 1) + 1 = n
      BY <1>2, <2>1
    <3> QED BY <3>1, <3>2, FS_Interval
  <2>5. Cardinality(results) = n /\ {r[j].call : j \in results} = calls
    <3> HIDE DEF results
    <3> QED BY <2>2, <2>3, <2>4
  <2> QED BY <2>2, <2>5 DEF n, calls
<1>4. ASSUME r[i].type = "toolResult"
      PROVE  \E j \in 1..(i - 1) : /\ r[j].type = "assistant"
                                   /\ i \in Behind(j, Len(r[j].calls))
  <2>1. PICK j \in 1..(i - 1) : r[j].type = "assistant" /\ i <= j + Len(r[j].calls)
    BY <1>1, <1>2, <1>4 DEF Paired, HasAnswer
  <2>2. j \in 1..Len(r)
    BY <1>1, <1>2
  <2>3. r[j] \in Sent
    BY <1>1, <2>2
  <2>4. Len(r[j].calls) \in Nat
    BY <2>1, <2>3, CallsOfSent
  <2> DEFINE n == Len(r[j].calls)
  <2> HIDE DEF n
  <2>5. n \in Nat /\ i <= j + n
    BY <2>1, <2>4 DEF n
  <2>6. i \in (j + 1)..(j + n) /\ i <= Len(r)
    BY <1>1, <1>2, <2>5
  <2>7. i \in Behind(j, n)
    BY <1>4, <2>6
  <2> QED BY <2>1, <2>7 DEF n
<1> QED
  BY <1>3, <1>4

-----------------------------------------------------------------------------
(* Batches: the calls that wait, and the results that came *)

\* What compactions were prepared on: theirs, and the one under way.
Marks(b, m) ==
  {b[c].upTo : c \in CompactionsOf(b)} \union (IF m = None THEN {} ELSE {m.upTo})

\* A call that waits was made by an answer that every compaction came before,
\* and has no result.
Awaited(b, marks, last, call) ==
  /\ call[1] <= last
  /\ Made(b, call)
  /\ \A i \in 1..Len(b) : b[i].type = "toolResult" => b[i].call # call
  /\ \A id \in marks : call[1] > id

Distinct(s) == \A i, j \in 1..Len(s) : s[i] = s[j] => i = j

BatchesOf(b, calls, marks, last) ==
  /\ AnswersAreSound(b)
  /\ ResultsAreSound(b)
  /\ \A id \in marks : Newer(b, id)
  /\ Distinct(calls)
  /\ \A k \in 1..Len(calls) : Awaited(b, marks, last, calls[k])

BatchesAreSound == BatchesOf(branch, pending, Marks(branch, prepared), drawn)

\* A step that appends neither an answer nor a result.
LEMMA BatchesStay ==
  ASSUME NEW b \in Seq(Entries), NEW d \in Seq(Entries), Grows(b),
         NEW calls \in Seq(Calls), NEW more \in Seq(Calls),
         more = calls \/ more = <<>>,
         NEW marks, NEW last \in Nat, NEW next \in Nat, last <= next,
         BatchesOf(b, calls, marks, last),
         NEW n \in Nat, Agree(b, d, n), Len(d) \in n..(n + 1),
         \A i \in 1..Len(b) : b[i].id <= last,
         Len(d) = n + 1 => /\ d[n + 1].type \notin {"assistant", "toolResult"}
                           /\ d[n + 1].id > last
  PROVE  BatchesOf(d, more, marks, next)
<1>1. \A i \in 1..Len(d) : \/ i \in 1..n /\ i \in 1..Len(b) /\ d[i] = b[i]
                           \/ i = n + 1 /\ Len(d) = n + 1
  BY DEF Agree
<1>2. \A i \in 1..Len(d) : d[i].type \in {"assistant", "toolResult"} =>
        i \in 1..Len(b) /\ d[i] = b[i]
  BY <1>1
<1>3. \A i \in 1..Len(b) : b[i].id \in Nat
  BY CallsOfEntries
<1>4. ASSUME NEW call \in Calls, call[1] <= last, Made(b, call) PROVE Made(d, call)
  <2> SUFFICES ASSUME NEW p \in 1..Len(d), d[p].id = call[1]
               PROVE  IsCallOf(call, d[p])
    BY DEF Made
  <2>1. call[1] \in Nat /\ d[p].id \in Nat
    BY CallsOfEntries DEF Calls
  <2>2. ~(p = n + 1 /\ Len(d) = n + 1)
    BY <1>4, <2>1
  <2>3. p \in 1..Len(b) /\ d[p] = b[p]
    BY <1>1, <2>2
  <2> QED BY <1>4, <2>3 DEF Made
<1>5. AnswersAreSound(d)
  BY <1>2 DEF AnswersAreSound, BatchesOf
<1>6. ASSUME NEW i \in 1..Len(d), d[i].type = "toolResult"
      PROVE  d[i].call[1] < d[i].id /\ Made(d, d[i].call)
  <2>1. i \in 1..Len(b) /\ d[i] = b[i]
    BY <1>2, <1>6
  <2>2. b[i].call[1] < b[i].id /\ Made(b, b[i].call) /\ b[i].id <= last
    BY <1>6, <2>1 DEF BatchesOf, ResultsAreSound
  <2>3. b[i].call \in Calls /\ b[i].call[1] \in Nat /\ b[i].id \in Nat
    BY <1>6, <2>1, CallsOfEntries
  <2>4. b[i].call[1] <= last
    BY <2>2, <2>3
  <2>5. Made(d, b[i].call)
    BY <1>4, <2>2, <2>3, <2>4
  <2> QED BY <2>1, <2>2, <2>5
<1>7. ResultsAreSound(d)
  <2>1. ResultsAreSound(b)
    BY DEF BatchesOf
  <2>2. \A i, j \in 1..Len(d) :
          d[i].type = "toolResult" /\ d[j].type = "toolResult" /\ d[i].call = d[j].call
            => i = j
    BY <1>2, <2>1 DEF ResultsAreSound
  <2> QED BY <1>6, <2>2 DEF ResultsAreSound
<1>8. \A id \in marks : Newer(d, id)
  BY <1>2 DEF Newer, BatchesOf
<1>9. Distinct(more)
  BY DEF BatchesOf, Distinct
<1>10. ASSUME NEW k \in 1..Len(more) PROVE Awaited(d, marks, next, more[k])
  <2>1. more = calls
    BY <1>10
  <2>2. Awaited(b, marks, last, calls[k]) /\ calls[k] \in Calls
    BY <2>1 DEF BatchesOf
  <2> DEFINE call == calls[k]
  <2> HIDE DEF call
  <2>3. Awaited(b, marks, last, call) /\ call \in Calls /\ call[1] \in Nat
    BY <2>2 DEF call, Calls
  <2>4. call[1] <= next
    BY <2>3 DEF Awaited
  <2>5. Made(d, call)
    BY <1>4, <2>3 DEF Awaited
  <2>6. \A i \in 1..Len(d) : d[i].type = "toolResult" => d[i].call # call
    BY <1>2, <2>3 DEF Awaited
  <2>7. Awaited(d, marks, next, call)
    BY <2>3, <2>4, <2>5, <2>6 DEF Awaited
  <2> QED BY <2>1, <2>7 DEF call
<1> QED
  BY <1>5, <1>7, <1>8, <1>9, <1>10 DEF BatchesOf

\* A new answer, and the calls it makes.
LEMMA AnswerKeepsBatches ==
  ASSUME NEW b \in Seq(Entries), Grows(b), NEW marks, NEW last \in Nat,
         BatchesOf(b, <<>>, marks, last),
         \A i \in 1..Len(b) : b[i].id <= last,
         \A id \in marks : id \in Nat /\ id <= last,
         NEW e \in AllAnswers, e.id = last + 1,
         \A k \in DOMAIN e.calls : e.calls[k] = <<e.id, k>>,
         NEW calls, calls = IF e.failed THEN <<>> ELSE e.calls,
         NEW d, d = Append(b, e)
  PROVE  BatchesOf(d, calls, marks, last + 1)
<1>1. e \in Entries /\ e.type = "assistant" /\ e.calls \in Seq(Calls)
      /\ e.failed \in BOOLEAN
  BY DEF Entries, AllAnswers
<1>2. d \in Seq(Entries) /\ Len(d) = Len(b) + 1 /\ d[Len(b) + 1] = e
      /\ (\A i \in 1..Len(b) : d[i] = b[i])
  BY <1>1
<1>3. \A i \in 1..Len(d) : \/ i \in 1..Len(b) /\ d[i] = b[i]
                           \/ i = Len(b) + 1
  BY <1>2
<1>4. \A i \in 1..Len(d) : d[i].type = "toolResult" =>
        i \in 1..Len(b) /\ d[i] = b[i]
  BY <1>1, <1>2, <1>3
<1>5. ASSUME NEW call \in Calls, call[1] <= last, Made(b, call) PROVE Made(d, call)
  <2> SUFFICES ASSUME NEW p \in 1..Len(d), d[p].id = call[1]
               PROVE  IsCallOf(call, d[p])
    BY DEF Made
  <2>1. call[1] \in Nat
    BY DEF Calls
  <2>2. p # Len(b) + 1
    BY <1>2, <1>5, <2>1
  <2>3. p \in 1..Len(b) /\ d[p] = b[p]
    BY <1>3, <2>2
  <2> QED BY <1>5, <2>3 DEF Made
<1>6. AnswersAreSound(d)
  <2>1. AnswersAreSound(b)
    BY DEF BatchesOf
  <2> SUFFICES ASSUME NEW i \in 1..Len(d), d[i].type = "assistant",
                      NEW k \in DOMAIN d[i].calls
               PROVE  d[i].calls[k] = <<d[i].id, k>>
    BY DEF AnswersAreSound
  <2>2. CASE i \in 1..Len(b) /\ d[i] = b[i]
    BY <2>1, <2>2 DEF AnswersAreSound
  <2>3. CASE i = Len(b) + 1
    BY <1>2, <2>3
  <2> QED BY <1>3, <2>2, <2>3
<1>7. ASSUME NEW i \in 1..Len(d), d[i].type = "toolResult"
      PROVE  d[i].call[1] < d[i].id /\ Made(d, d[i].call)
  <2>1. i \in 1..Len(b) /\ d[i] = b[i]
    BY <1>4, <1>7
  <2>2. b[i].call[1] < b[i].id /\ Made(b, b[i].call) /\ b[i].id <= last
    BY <1>7, <2>1 DEF BatchesOf, ResultsAreSound
  <2>3. b[i].call \in Calls /\ b[i].call[1] \in Nat /\ b[i].id \in Nat
    BY <1>7, <2>1, CallsOfEntries
  <2>4. b[i].call[1] <= last
    BY <2>2, <2>3
  <2>5. Made(d, b[i].call)
    BY <1>5, <2>2, <2>3, <2>4
  <2> QED BY <2>1, <2>2, <2>5
<1>8. ResultsAreSound(d)
  <2>1. ResultsAreSound(b)
    BY DEF BatchesOf
  <2>2. \A i, j \in 1..Len(d) :
          d[i].type = "toolResult" /\ d[j].type = "toolResult" /\ d[i].call = d[j].call
            => i = j
    BY <1>4, <2>1 DEF ResultsAreSound
  <2> QED BY <1>7, <2>2 DEF ResultsAreSound
<1>9. \A id \in marks : Newer(d, id)
  BY <1>4 DEF Newer, BatchesOf
<1>10. \A k \in 1..Len(calls) : k \in DOMAIN e.calls /\ calls = e.calls /\ ~e.failed
  BY <1>1
<1>11. \A k \in 1..Len(calls) : calls[k] = <<e.id, k>>
  BY <1>10
<1>12. Distinct(calls)
  <2> SUFFICES ASSUME NEW i \in 1..Len(calls), NEW j \in 1..Len(calls),
                      calls[i] = calls[j]
               PROVE  i = j
    BY DEF Distinct
  <2>1. <<e.id, i>> = <<e.id, j>>
    BY <1>11
  <2> QED BY <2>1
<1>13. ASSUME NEW k \in 1..Len(calls) PROVE Awaited(d, marks, last + 1, calls[k])
  <2>1. calls[k][1] = last + 1 /\ calls[k] = e.calls[k] /\ k \in DOMAIN e.calls
        /\ ~e.failed
    BY <1>10, <1>11
  <2>2. \A i \in 1..Len(d) : d[i].type = "toolResult" => d[i].call # calls[k]
    <3> SUFFICES ASSUME NEW i \in 1..Len(d), d[i].type = "toolResult",
                        d[i].call = calls[k]
                 PROVE  FALSE
      OBVIOUS
    <3>1. i \in 1..Len(b) /\ d[i] = b[i]
      BY <1>4
    <3>2. b[i].call[1] < b[i].id /\ b[i].id <= last
      BY <3>1 DEF BatchesOf, ResultsAreSound
    <3>3. b[i].call[1] = last + 1
      BY <2>1, <3>1
    <3>4. b[i].id \in Nat
      BY <3>1, CallsOfEntries
    <3> QED BY <3>2, <3>3, <3>4
  <2>3. Made(d, calls[k])
    <3> SUFFICES ASSUME NEW p \in 1..Len(d), d[p].id = calls[k][1]
                 PROVE  IsCallOf(calls[k], d[p])
      BY DEF Made
    <3>1. ~(p \in 1..Len(b) /\ d[p] = b[p])
      <4> SUFFICES ASSUME p \in 1..Len(b), d[p] = b[p] PROVE FALSE
        OBVIOUS
      <4>1. b[p].id \in Nat /\ b[p].id <= last
        BY CallsOfEntries
      <4> QED BY <2>1, <4>1
    <3>2. d[p] = e
      BY <1>2, <1>3, <3>1
    <3> QED BY <1>1, <2>1, <3>2 DEF IsCallOf
  <2>4. \A id \in marks : calls[k][1] > id
    BY <2>1
  <2> QED BY <2>1, <2>2, <2>3, <2>4 DEF Awaited
<1> QED
  BY <1>6, <1>8, <1>9, <1>12, <1>13 DEF BatchesOf

\* The result of the call that waits first.
LEMMA ResultKeepsBatches ==
  ASSUME NEW b \in Seq(Entries), Grows(b), NEW marks, NEW last \in Nat,
         NEW calls \in Seq(Calls), calls # <<>>,
         BatchesOf(b, calls, marks, last),
         \A i \in 1..Len(b) : b[i].id <= last,
         NEW e \in Results, e.id = last + 1, e.call = Head(calls),
         NEW more, more = Tail(calls),
         NEW d, d = Append(b, e)
  PROVE  BatchesOf(d, more, marks, last + 1)
<1>1. e \in Entries /\ e.type = "toolResult"
  BY DEF Entries, Results
<1>2. d \in Seq(Entries) /\ Len(d) = Len(b) + 1 /\ d[Len(b) + 1] = e
      /\ (\A i \in 1..Len(b) : d[i] = b[i])
  BY <1>1
<1>3. \A i \in 1..Len(d) : \/ i \in 1..Len(b) /\ d[i] = b[i]
                           \/ i = Len(b) + 1 /\ d[i] = e
  BY <1>2
<1>4. /\ 1 \in 1..Len(calls) /\ calls[1] = e.call /\ e.call \in Calls
      /\ \A k \in 1..Len(more) : k + 1 \in 1..Len(calls) /\ more[k] = calls[k + 1]
  OBVIOUS
<1>5. Awaited(b, marks, last, e.call) /\ e.call[1] \in Nat
  <2>1. Awaited(b, marks, last, calls[1])
    BY <1>4 DEF BatchesOf
  <2> QED BY <1>4, <2>1 DEF Calls
<1>6. ASSUME NEW call \in Calls, call[1] <= last, Made(b, call) PROVE Made(d, call)
  <2> SUFFICES ASSUME NEW p \in 1..Len(d), d[p].id = call[1]
               PROVE  IsCallOf(call, d[p])
    BY DEF Made
  <2>1. call[1] \in Nat
    BY DEF Calls
  <2>2. p # Len(b) + 1
    BY <1>2, <1>6, <2>1
  <2>3. p \in 1..Len(b) /\ d[p] = b[p]
    BY <1>3, <2>2
  <2> QED BY <1>6, <2>3 DEF Made
<1>7. AnswersAreSound(d)
  <2>1. AnswersAreSound(b)
    BY DEF BatchesOf
  <2> SUFFICES ASSUME NEW i \in 1..Len(d), d[i].type = "assistant",
                      NEW k \in DOMAIN d[i].calls
               PROVE  d[i].calls[k] = <<d[i].id, k>>
    BY DEF AnswersAreSound
  <2>2. i \in 1..Len(b) /\ d[i] = b[i]
    BY <1>1, <1>3
  <2> QED BY <2>1, <2>2 DEF AnswersAreSound
<1>8. ASSUME NEW i \in 1..Len(d), d[i].type = "toolResult"
      PROVE  d[i].call[1] < d[i].id /\ Made(d, d[i].call)
  <2>1. CASE i \in 1..Len(b) /\ d[i] = b[i]
    <3>1. b[i].call[1] < b[i].id /\ Made(b, b[i].call) /\ b[i].id <= last
      BY <1>8, <2>1 DEF BatchesOf, ResultsAreSound
    <3>2. b[i].call \in Calls /\ b[i].call[1] \in Nat /\ b[i].id \in Nat
      BY <1>8, <2>1, CallsOfEntries
    <3>3. b[i].call[1] <= last
      BY <3>1, <3>2
    <3>4. Made(d, b[i].call)
      BY <1>6, <3>1, <3>2, <3>3
    <3> QED BY <2>1, <3>1, <3>4
  <2>2. CASE d[i] = e
    <3>1. e.call[1] <= last /\ Made(b, e.call)
      BY <1>5 DEF Awaited
    <3>2. Made(d, e.call)
      BY <1>4, <1>6, <3>1
    <3>3. e.call[1] < e.id
      BY <1>5, <3>1
    <3> QED BY <2>2, <3>2, <3>3
  <2> QED BY <1>3, <2>1, <2>2
<1>9. ResultsAreSound(d)
  <2>1. ResultsAreSound(b)
    BY DEF BatchesOf
  <2>2. \A i \in 1..Len(b) : b[i].type = "toolResult" => b[i].call # e.call
    BY <1>5 DEF Awaited
  <2>3. ASSUME NEW i \in 1..Len(d), NEW j \in 1..Len(d), d[i].type = "toolResult",
               d[j].type = "toolResult", d[i].call = d[j].call
        PROVE  i = j
    <3>1. CASE i \in 1..Len(b) /\ d[i] = b[i] /\ j \in 1..Len(b) /\ d[j] = b[j]
      BY <2>1, <2>3, <3>1 DEF ResultsAreSound
    <3>2. CASE i = Len(b) + 1 /\ d[i] = e /\ j = Len(b) + 1
      BY <3>2
    <3>3. ~(i \in 1..Len(b) /\ d[i] = b[i] /\ d[j] = e)
      BY <2>2, <2>3
    <3>4. ~(j \in 1..Len(b) /\ d[j] = b[j] /\ d[i] = e)
      BY <2>2, <2>3
    <3> QED BY <1>3, <3>1, <3>2, <3>3, <3>4
  <2> QED BY <1>8, <2>3 DEF ResultsAreSound
<1>10. ASSUME NEW id \in marks PROVE Newer(d, id)
  <2> SUFFICES ASSUME NEW i \in 1..Len(d), d[i].type = "toolResult", d[i].id > id
               PROVE  d[i].call[1] > id
    BY DEF Newer
  <2>1. CASE i \in 1..Len(b) /\ d[i] = b[i]
    BY <2>1 DEF Newer, BatchesOf
  <2>2. CASE d[i] = e
    BY <1>5, <2>2 DEF Awaited
  <2> QED BY <1>3, <2>1, <2>2
<1>11. Distinct(calls)
  BY DEF BatchesOf
<1>12. Distinct(more)
  <2> SUFFICES ASSUME NEW i \in 1..Len(more), NEW j \in 1..Len(more), more[i] = more[j]
               PROVE  i = j
    BY DEF Distinct
  <2>1. i + 1 \in 1..Len(calls) /\ j + 1 \in 1..Len(calls) /\ calls[i + 1] = calls[j + 1]
    BY <1>4
  <2>2. i + 1 = j + 1
    BY <1>11, <2>1 DEF Distinct
  <2>3. i \in Int /\ j \in Int
    OBVIOUS
  <2> QED BY <2>2, <2>3
<1>13. ASSUME NEW k \in 1..Len(more) PROVE Awaited(d, marks, last + 1, more[k])
  <2>1. k + 1 \in 1..Len(calls) /\ more[k] = calls[k + 1] /\ k + 1 # 1
    BY <1>4
  <2> DEFINE call == more[k]
  <2>2. Awaited(b, marks, last, call) /\ call \in Calls /\ call # e.call
    <3>1. Awaited(b, marks, last, calls[k + 1])
      BY <2>1 DEF BatchesOf
    <3>2. calls[k + 1] # calls[1]
      BY <1>4, <1>11, <2>1 DEF Distinct
    <3> QED BY <1>4, <2>1, <3>1, <3>2
  <2> HIDE DEF call
  <2>3. call[1] <= last + 1
    BY <2>2 DEF Awaited, Calls
  <2>4. Made(d, call)
    BY <1>6, <2>2 DEF Awaited
  <2>5. \A i \in 1..Len(d) : d[i].type = "toolResult" => d[i].call # call
    BY <1>3, <2>2 DEF Awaited
  <2>6. Awaited(d, marks, last + 1, call)
    BY <2>2, <2>3, <2>4, <2>5 DEF Awaited
  <2> QED BY <2>6 DEF call
<1> QED
  BY <1>7, <1>9, <1>10, <1>12, <1>13 DEF BatchesOf

-----------------------------------------------------------------------------
(* Cuts: nothing is kept from between an answer and its results *)

\* Of the compactions on the branch, and of the one under way.
NothingSplit(b, m) ==
  /\ \A c \in CompactionsOf(b) :
       ~MislaidIn(b, c) => Unsplit(b, PositionIn(b, b[c].kept))
  /\ m # None /\ PositionIn(b, m.kept) # 0 => Unsplit(b, PositionIn(b, m.kept))

LEMMA MislaidStays ==
  ASSUME NEW b \in Seq(Entries), NEW d \in Seq(Entries), Grows(b), Grows(d),
         NEW n \in Nat, Agree(b, d, n),
         NEW c \in 1..n, b[c].type = "compaction"
  PROVE  /\ PositionIn(d, d[c].kept) = PositionIn(b, b[c].kept)
         /\ MislaidIn(d, c) <=> MislaidIn(b, c)
<1>1. c \in 1..Len(b) /\ d[c] = b[c]
  BY DEF Agree
<1>2. b[c].kept \in Nat /\ b[c].kept <= b[c].id
  <2>1. /\ b[c].kept \in Nat /\ b[c].upTo \in Nat /\ b[c].id \in Nat
        /\ b[c].kept <= b[c].upTo /\ b[c].upTo < b[c].id
    BY <1>1, CallsOfEntries
  <2> QED BY <2>1
<1>3. PositionIn(d, b[c].kept) = PositionIn(b, b[c].kept)
  BY <1>2, PositionStays
<1> QED
  BY <1>1, <1>3 DEF MislaidIn

\* Whether a result is behind its answer depends on nothing that follows.
LEMMA AstrayStays ==
  ASSUME NEW b \in Seq(Entries), NEW d \in Seq(Entries), Grows(b), Grows(d),
         NEW n \in Nat, Agree(b, d, n), ResultsAreSound(b),
         NEW i \in 1..n, b[i].type = "toolResult"
  PROVE  /\ d[i] = b[i]
         /\ PositionIn(d, d[i].call[1]) = PositionIn(b, b[i].call[1])
         /\ AstrayIn(d, i) <=> AstrayIn(b, i)
<1>1. i \in 1..Len(b) /\ d[i] = b[i]
  BY DEF Agree
<1>2. b[i].call[1] \in Nat /\ b[i].call[1] <= b[i].id
  <2>1. b[i].call[1] \in Nat /\ b[i].id \in Nat /\ b[i].call[1] < b[i].id
    BY <1>1, CallsOfEntries DEF ResultsAreSound
  <2> QED BY <2>1
<1> DEFINE p == PositionIn(b, b[i].call[1])
<1>3. PositionIn(d, b[i].call[1]) = p
  BY <1>2, PositionStays
<1>4. p \in 0..Len(b)
  BY PositionIsIn
<1> HIDE DEF p
<1>5. \A j \in (p + 1)..i : j \in 1..n
  BY <1>4
<1>6. \A j \in (p + 1)..i : d[j] = b[j]
  BY <1>5 DEF Agree
<1>7. \A j \in (p + 1)..i :
        b[j].type = "compaction" => (MislaidIn(d, j) <=> MislaidIn(b, j))
  BY <1>5, MislaidStays
<1>8. AstrayIn(d, i) <=>
        \/ p = 0
        \/ \E j \in (p + 1)..i :
             \/ HasMessage(b[j]) /\ b[j].type # "toolResult"
             \/ b[j].type = "compaction" /\ MislaidIn(b, j)
  BY <1>1, <1>3, <1>6, <1>7 DEF AstrayIn
<1>9. AstrayIn(b, i) <=>
        \/ p = 0
        \/ \E j \in (p + 1)..i :
             \/ HasMessage(b[j]) /\ b[j].type # "toolResult"
             \/ b[j].type = "compaction" /\ MislaidIn(b, j)
  BY DEF AstrayIn, p
<1> QED
  BY <1>1, <1>3, <1>8, <1>9 DEF p

LEMMA UnsplitStays ==
  ASSUME NEW b \in Seq(Entries), NEW n \in Nat, NEW d, Edits(b, d, n), Grows(b),
         ResultsAreSound(b), NEW k \in 1..n, Unsplit(b, k),
         Len(d) = n + 1 /\ d[n + 1].type = "toolResult" => d[n + 1].call[1] > b[k].id
  PROVE  Unsplit(d, k)
<1>1. d \in Seq(Entries) /\ Grows(d) /\ Agree(b, d, n) /\ Len(d) \in n..(n + 1)
  BY DEF Edits
<1> SUFFICES ASSUME NEW i \in 1..Len(d), d[i].type = "toolResult", ~AstrayIn(d, i),
                    PositionIn(d, d[i].call[1]) < k, k <= i
             PROVE  FALSE
  BY DEF Unsplit
<1>2. CASE i \in 1..n
  <2>1. b[i].type = "toolResult" /\ i \in 1..Len(b)
    BY <1>1, <1>2 DEF Agree
  <2>2. /\ PositionIn(d, d[i].call[1]) = PositionIn(b, b[i].call[1])
        /\ AstrayIn(d, i) <=> AstrayIn(b, i)
    BY <1>1, <1>2, <2>1, AstrayStays
  <2> QED BY <2>1, <2>2 DEF Unsplit
<1>3. CASE i = n + 1 /\ Len(d) = n + 1
  <2> DEFINE p == PositionIn(d, d[i].call[1])
  <2>1. p # 0
    BY DEF AstrayIn
  <2>2. p \in 1..Len(d) /\ d[p].id = d[i].call[1]
    BY <1>1, <2>1, PositionIsIn
  <2>3. d[k] = b[k] /\ k \in 1..Len(d) /\ d[k].id \in Nat
    <3>1. d[k] = b[k] /\ k \in 1..Len(d)
      BY <1>1 DEF Agree
    <3> QED BY <1>1, <3>1, CallsOfEntries
  <2>4. d[p].id > d[k].id /\ d[p].id \in Nat
    BY <1>1, <1>3, <2>2, <2>3, CallsOfEntries
  <2>5. p < k
    OBVIOUS
  <2> HIDE DEF p
  <2>6. d[p].id < d[k].id
    BY <1>1, <2>2, <2>3, <2>5 DEF Grows
  <2> QED BY <2>3, <2>4, <2>6
<1>4. i \in 1..n \/ (i = n + 1 /\ Len(d) = n + 1)
  BY <1>1
<1> QED
  BY <1>2, <1>3, <1>4

\* A step that appends no compaction and prepares none.
LEMMA EditsSplitNothing ==
  ASSUME NEW b \in Seq(Entries), NEW n \in Nat, NEW d, Edits(b, d, n), Grows(b),
         ResultsAreSound(b), NEW m \in Preparations \union {None}, NothingSplit(b, m),
         Len(d) = n + 1 =>
           /\ d[n + 1].type # "compaction"
           /\ m # None => d[n + 1].id > m.upTo
           /\ d[n + 1].type = "toolResult" => \A id \in Marks(b, m) : d[n + 1].call[1] > id
  PROVE  NothingSplit(d, m)
<1>1. d \in Seq(Entries) /\ Grows(d) /\ Agree(b, d, n) /\ Len(d) \in n..(n + 1)
  BY DEF Edits
<1>2. ASSUME NEW c \in CompactionsOf(d), ~MislaidIn(d, c)
      PROVE  Unsplit(d, PositionIn(d, d[c].kept))
  <2>1. c \in 1..n /\ c \in 1..Len(b) /\ b[c] = d[c] /\ b[c].type = "compaction"
    BY <1>1 DEF CompactionsOf, Agree
  <2>2. /\ PositionIn(d, d[c].kept) = PositionIn(b, b[c].kept)
        /\ MislaidIn(d, c) <=> MislaidIn(b, c)
    BY <1>1, <2>1, MislaidStays
  <2> DEFINE k == PositionIn(b, b[c].kept)
  <2>3. c \in CompactionsOf(b)
    BY <2>1 DEF CompactionsOf
  <2>4. k \in 1..(c - 1) /\ Unsplit(b, k)
    BY <1>2, <2>2, <2>3 DEF NothingSplit, MislaidIn
  <2>5. b[k].id = b[c].kept /\ k \in 1..n
    <3>1. b[k].id = b[c].kept
      BY <2>4, PositionIsIn
    <3> HIDE DEF k
    <3> QED BY <2>1, <2>4, <3>1
  <2>6. ASSUME Len(d) = n + 1, d[n + 1].type = "toolResult"
        PROVE  d[n + 1].call[1] > b[c].kept
    <3>1. b[c].upTo \in Marks(b, m)
      BY <2>3 DEF Marks
    <3>2. d[n + 1].call[1] > b[c].upTo
      BY <2>6, <3>1
    <3>3. b[c].kept \in Nat /\ b[c].upTo \in Nat /\ b[c].kept <= b[c].upTo
      BY <2>1, CallsOfEntries
    <3>4. d[n + 1].call[1] \in Nat
      <4>1. n + 1 \in 1..Len(d)
        BY <2>6
      <4> QED BY <1>1, <2>6, <4>1, CallsOfEntries
    <3> QED BY <3>2, <3>3, <3>4
  <2> HIDE DEF k
  <2>7. Unsplit(d, k)
    BY <2>4, <2>5, <2>6, UnsplitStays
  <2> QED BY <2>2, <2>7 DEF k
<1>3. ASSUME m # None, PositionIn(d, m.kept) # 0
      PROVE  Unsplit(d, PositionIn(d, m.kept))
  <2> DEFINE k == PositionIn(d, m.kept)
  <2>1. m.kept \in Nat /\ m.upTo \in Nat /\ m.kept <= m.upTo
    BY <1>3 DEF Preparations
  <2>2. k \in 1..Len(d) /\ d[k].id = m.kept
    BY <1>1, <1>3, PositionIsIn
  <2> HIDE DEF k
  <2>3. k \in 1..n
    <3>1. ~(k = n + 1 /\ Len(d) = n + 1)
      <4> SUFFICES ASSUME k = n + 1, Len(d) = n + 1 PROVE FALSE
        OBVIOUS
      <4>1. d[n + 1].id > m.upTo
        BY <1>3
      <4> QED BY <2>1, <2>2, <4>1
    <3> QED BY <1>1, <2>2, <3>1
  <2>4. k \in 1..Len(b) /\ b[k].id = m.kept
    BY <1>1, <2>2, <2>3 DEF Agree
  <2>5. PositionIn(b, m.kept) = k
    <3>1. PositionIn(b, b[k].id) = k
      BY <2>4, PositionIs
    <3> QED BY <2>4, <3>1
  <2>6. Unsplit(b, k)
    BY <1>3, <2>3, <2>5 DEF NothingSplit
  <2>7. ASSUME Len(d) = n + 1, d[n + 1].type = "toolResult"
        PROVE  d[n + 1].call[1] > b[k].id
    <3>1. m.upTo \in Marks(b, m)
      BY <1>3 DEF Marks
    <3>2. d[n + 1].call[1] > m.upTo
      BY <2>7, <3>1
    <3>3. d[n + 1].call[1] \in Nat
      <4>1. n + 1 \in 1..Len(d)
        BY <2>7
      <4> QED BY <1>1, <2>7, <4>1, CallsOfEntries
    <3> QED BY <2>1, <2>4, <3>2, <3>3
  <2>8. Unsplit(d, k)
    BY <2>3, <2>6, <2>7, UnsplitStays
  <2> QED BY <2>8 DEF k
<1> QED
  BY <1>2, <1>3 DEF NothingSplit

\* The compaction that was under way is appended.
LEMMA CompactionSplitsNothing ==
  ASSUME NEW b \in Seq(Entries), Grows(b), ResultsAreSound(b),
         NEW m \in Preparations, m # None, NothingSplit(b, m),
         NEW d, Edits(b, d, Len(b)), Len(d) = Len(b) + 1,
         d[Len(b) + 1].type = "compaction", d[Len(b) + 1].kept = m.kept
  PROVE  NothingSplit(d, None)
<1> DEFINE n == Len(b)
<1>1. n \in Nat /\ d \in Seq(Entries) /\ Grows(d) /\ Agree(b, d, n)
  BY DEF Edits
<1>2. ~(d[n + 1].type = "toolResult")
  OBVIOUS
<1>3. ASSUME NEW c \in CompactionsOf(d), ~MislaidIn(d, c)
      PROVE  Unsplit(d, PositionIn(d, d[c].kept))
  <2> DEFINE k == PositionIn(d, d[c].kept)
  <2>1. k \in 1..(c - 1) /\ c \in 1..Len(d) /\ d[c].type = "compaction"
    BY <1>3 DEF MislaidIn, CompactionsOf
  <2>2. k \in 1..n /\ d[k].id = d[c].kept
    <3>1. d[k].id = d[c].kept
      BY <1>1, <2>1, PositionIsIn
    <3> HIDE DEF k
    <3> QED BY <1>1, <2>1, <3>1
  <2>3. Unsplit(b, k)
    <3>1. CASE c \in 1..n
      <4>1. b[c] = d[c] /\ c \in 1..Len(b) /\ b[c].type = "compaction"
        BY <1>1, <2>1, <3>1 DEF Agree
      <4>2. /\ k = PositionIn(b, b[c].kept)
            /\ ~MislaidIn(b, c)
        <5> HIDE DEF n
        <5> QED BY <1>1, <1>3, <3>1, <4>1, MislaidStays
      <4>3. c \in CompactionsOf(b)
        BY <4>1 DEF CompactionsOf
      <4> HIDE DEF k
      <4> QED BY <4>2, <4>3 DEF NothingSplit
    <3>2. CASE c = n + 1
      <4>1. d[c].kept = m.kept
        BY <3>2
      <4>2. b[k].id = m.kept
        <5> HIDE DEF k
        <5> QED BY <1>1, <2>2, <4>1 DEF Agree
      <4> HIDE DEF k
      <4>3. PositionIn(b, m.kept) = k
        <5>1. PositionIn(b, b[k].id) = k
          BY <2>2, PositionIs
        <5> QED BY <4>2, <5>1
      <4>4. k # 0
        BY <2>2
      <4> QED BY <4>3, <4>4 DEF NothingSplit
    <3>3. c \in 1..n \/ c = n + 1
      BY <1>1, <2>1
    <3> QED BY <3>1, <3>2, <3>3
  <2>4. Unsplit(d, k)
    <3> HIDE DEF k
    <3>1. Edits(b, d, n)
      OBVIOUS
    <3> HIDE DEF n
    <3> QED BY <1>1, <1>2, <2>2, <2>3, <3>1, UnsplitStays
  <2> QED BY <2>4
<1> QED
  BY <1>3 DEF NothingSplit

\* findValidCutPoints() cuts at no result; and where there is no such point,
\* what was kept before is kept again.
LEMMA PreparationSplitsNothing ==
  ASSUME branch \in Seq(Entries), Grows(branch), ResultsAreSound(branch),
         NothingSplit(branch, None), NEW budget \in Nat,
         branch # <<>>, branch[Len(branch)].type # "compaction"
  PROVE  Unsplit(branch, PositionIn(branch, Preparation(budget).kept))
<1> DEFINE b == branch
           last == Len(b)
           c == CompactionBefore(last + 1)
           first == BoundaryStart(c)
           points == ValidCutPoints(first, last)
           q == CutPoint(first, last, budget)
           cut == FirstKept(first, last, budget)
<1>1. b \in Seq(Entries) /\ Grows(b) /\ last \in Nat /\ last + 1 \in Nat
      /\ last \in 1..last
  OBVIOUS
<1>2. /\ c \in 0..last
      /\ c # 0 => c \in CompactionsOf(b)
  <2>1. c = BeforeIn(b, last + 1)
    BY DEF CompactionBefore, BeforeIn, Compactions, CompactionsOf
  <2>2. /\ BeforeIn(b, last + 1) \in 0..Len(b)
        /\ BeforeIn(b, last + 1) # 0 => b[BeforeIn(b, last + 1)].type = "compaction"
    <3> HIDE DEF b, last
    <3> QED BY <1>1, BeforeIs
  <2> HIDE DEF c
  <2> QED BY <2>1, <2>2 DEF CompactionsOf
<1> HIDE DEF c
<1> DEFINE kept == PositionIn(b, b[c].kept)
<1>3. first = IF c = 0 THEN 1 ELSE IF kept # 0 THEN kept ELSE c + 1
  BY DEF BoundaryStart, Position, PositionIn
<1>4. Preparation(budget).kept = b[cut].id
  BY DEF Preparation, c
<1> HIDE DEF first
<1>5. first \in 1..last
  <2>1. kept \in 0..Len(b)
    <3> HIDE DEF b
    <3> QED BY <1>1, PositionIsIn
  <2>2. c # last
    <3>1. b[last].type # "compaction"
      OBVIOUS
    <3> QED BY <1>1, <1>2, <3>1 DEF CompactionsOf
  <2> HIDE DEF kept
  <2> QED BY <1>1, <1>2, <1>3, <2>1, <2>2
<1>6. cut \in 1..last
  <2>1. cut \in first..last
    <3> HIDE DEF last
    <3> QED BY <1>1, <1>5, FirstKeptIs
  <2> HIDE DEF cut
  <2> QED BY <1>1, <1>5, <2>1
<1>7. ASSUME NEW i \in 1..Len(b), b[i].type = "toolResult", ~AstrayIn(b, i),
             NEW p, p = PositionIn(b, b[i].call[1]),
             p < cut, cut <= i
      PROVE  FALSE
  <2>1. p # 0 /\ \A j \in (p + 1)..i :
          /\ HasMessage(b[j]) => b[j].type = "toolResult"
          /\ ~(b[j].type = "compaction" /\ MislaidIn(b, j))
    BY <1>7 DEF AstrayIn
  <2>2. p \in 1..Len(b) /\ b[p].id = b[i].call[1]
    <3>1. /\ PositionIn(b, b[i].call[1]) \in 0..Len(b)
          /\ PositionIn(b, b[i].call[1]) # 0 => b[PositionIn(b, b[i].call[1])].id = b[i].call[1]
      <4> HIDE DEF b
      <4> QED BY <1>1, PositionIsIn
    <3> HIDE DEF b
    <3> QED BY <1>1, <1>7, <2>1, <3>1
  <2>3. b[p].type = "assistant"
    <3>1. ResultsAreSound(b)
      OBVIOUS
    <3>2. Made(b, b[i].call)
      BY <1>7, <3>1 DEF ResultsAreSound
    <3> QED BY <2>2, <3>2 DEF Made, IsCallOf
  <2>4. CASE points # {}
    <3> DEFINE before ==
                 {x \in first..q : \A j \in x..(q - 1) :
                    ~IsMessage(b[j]) /\ b[j].type # "compaction"}
    <3>1. cut = Least(before)
      BY <2>4 DEF FirstKept, WithSettings
    <3>2. first \in 1..last
      BY <1>5
    <3>3. q \in points
      <4> HIDE DEF last
      <4> QED BY <1>1, <2>4, <3>2, CutPointIs
    <3>4. q \in first..last /\ HasMessage(b[q]) /\ b[q].type # "toolResult"
      BY <3>3 DEF ValidCutPoints
    <3> HIDE DEF q, cut
    <3>5. before \in SUBSET (1..last) /\ q \in before
      BY <1>1, <3>2, <3>4
    <3>6. cut \in before
      <4> HIDE DEF before, last
      <4> QED BY <1>1, <3>1, <3>5, LeastIs
    <3>7. cut \in first..q /\ \A j \in cut..(q - 1) : ~IsMessage(b[j])
      BY <3>6
    <3>8. IsMessage(b[i])
      BY <1>7 DEF IsMessage
    <3>9. q <= i
      <4>1. ~(i \in cut..(q - 1))
        BY <3>7, <3>8
      <4> QED BY <1>1, <1>7, <1>6, <3>2, <3>4, <3>7, <4>1
    <3>10. q \in (p + 1)..i
      BY <1>1, <1>7, <1>6, <2>2, <3>2, <3>4, <3>7, <3>9
    <3> QED BY <2>1, <3>4, <3>10
  <2>5. CASE points = {}
    <3>1. cut = first
      BY <2>5 DEF FirstKept
    <3>2. CASE c = 0
      <4>1. cut = 1
        BY <1>3, <3>1, <3>2
      <4> HIDE DEF cut
      <4> QED BY <1>7, <2>2, <4>1
    <3>3. CASE c # 0 /\ kept # 0
      <4>1. cut = kept
        BY <1>3, <3>1, <3>3
      <4>2. c \in CompactionsOf(b) /\ c \in 1..Len(b) /\ b[c].type = "compaction"
        BY <1>2, <3>3 DEF CompactionsOf
      <4>3. kept \in 1..Len(b) /\ b[kept].id = b[c].kept
        <5>1. kept \in 0..Len(b) /\ (kept # 0 => b[kept].id = b[c].kept)
          <6> HIDE DEF b
          <6> QED BY <1>1, PositionIsIn
        <5> HIDE DEF kept
        <5> QED BY <1>1, <3>3, <5>1
      <4>4. kept < c
        <5>1. /\ b[c].kept \in Nat /\ b[c].upTo \in Nat /\ b[c].id \in Nat
              /\ b[c].kept <= b[c].upTo /\ b[c].upTo < b[c].id
          <6> HIDE DEF b
          <6> QED BY <1>1, <4>2, CallsOfEntries
        <5> HIDE DEF kept
        <5>2. kept # c
          BY <4>3, <5>1
        <5>3. ~(c < kept)
          <6> SUFFICES ASSUME c < kept PROVE FALSE
            OBVIOUS
          <6>1. b[c].id < b[kept].id
            BY <1>1, <4>2, <4>3 DEF Grows
          <6> QED BY <4>3, <5>1, <6>1
        <5> QED BY <4>2, <4>3, <5>2, <5>3
      <4>5. ~MislaidIn(b, c)
        <5>1. kept \in 1..(c - 1)
          <6> HIDE DEF kept
          <6> QED BY <1>2, <4>2, <4>3, <4>4
        <5> QED BY <5>1 DEF MislaidIn
      <4>6. Unsplit(b, kept)
        BY <4>2, <4>5 DEF NothingSplit
      <4> HIDE DEF cut, kept
      <4> QED BY <1>7, <4>1, <4>6 DEF Unsplit
    <3>4. CASE c # 0 /\ kept = 0
      <4>1. cut = c + 1
        BY <1>3, <3>1, <3>4
      <4>2. c \in CompactionsOf(b) /\ c \in 1..Len(b) /\ b[c].type = "compaction"
        BY <1>2, <3>4 DEF CompactionsOf
      <4>3. MislaidIn(b, c)
        BY <3>4 DEF MislaidIn
      <4>4. p # c
        BY <2>3, <4>2
      <4> HIDE DEF cut
      <4>5. c \in (p + 1)..i
        BY <1>7, <2>2, <4>1, <4>2, <4>4
      <4> QED BY <2>1, <4>2, <4>3, <4>5
    <3> QED BY <3>2, <3>3, <3>4
  <2> QED BY <2>4, <2>5
<1> HIDE DEF cut, points
<1> SUFFICES ASSUME NEW i \in 1..Len(b), b[i].type = "toolResult", ~AstrayIn(b, i),
                    PositionIn(b, b[i].call[1]) < PositionIn(b, b[cut].id),
                    PositionIn(b, b[cut].id) <= i
             PROVE  FALSE
  BY <1>4 DEF Unsplit
<1>8. cut \in 1..last
  BY <1>6
<1>9. PositionIn(b, b[cut].id) = cut
  <2> HIDE DEF b
  <2> QED BY <1>1, <1>8, PositionIs
<1> QED
  BY <1>7, <1>8, <1>9

-----------------------------------------------------------------------------
(* The steps, for calls and results *)

CallsAreSound == BatchesAreSound /\ NothingSplit(branch, prepared)

LEMMA MarksAre ==
  ASSUME IInv
  PROVE  \A id \in Marks(branch, prepared) : id \in Nat /\ id <= drawn
<1>1. branch \in Seq(Entries) /\ drawn \in Nat /\ Drawn
      /\ prepared \in Preparations \union {None}
  BY DEF IInv, Types
<1>2. ASSUME NEW c \in CompactionsOf(branch)
      PROVE  branch[c].upTo \in Nat /\ branch[c].upTo <= drawn
  <2>1. c \in 1..Len(branch) /\ branch[c].type = "compaction"
    BY <1>1 DEF CompactionsOf
  <2>2. branch[c].upTo \in Nat /\ branch[c].id \in Nat /\ branch[c].upTo < branch[c].id
    BY <1>1, <2>1, CallsOfEntries
  <2>3. branch[c].id <= drawn
    BY <1>1, <2>1 DEF Drawn
  <2> QED BY <1>1, <2>2, <2>3
<1>3. prepared # None => prepared.upTo \in Nat /\ prepared.upTo <= drawn
  BY <1>1 DEF Preparations, Drawn
<1> QED
  BY <1>2, <1>3 DEF Marks

LEMMA FewerMarks ==
  ASSUME NEW b, NEW calls, NEW last, NEW marks, NEW more,
         BatchesOf(b, calls, marks, last), more \subseteq marks
  PROVE  BatchesOf(b, calls, more, last)
BY DEF BatchesOf, Awaited

LEMMA MarksStay ==
  ASSUME NEW b \in Seq(Entries), NEW n \in Nat, NEW d, Edits(b, d, n), NEW m,
         Len(d) = n + 1 => d[n + 1].type # "compaction"
  PROVE  Marks(d, m) \subseteq Marks(b, m)
<1>1. Agree(b, d, n) /\ Len(d) \in n..(n + 1) /\ d \in Seq(Entries)
  BY DEF Edits
<1>2. \A c \in CompactionsOf(d) : c \in CompactionsOf(b) /\ d[c] = b[c]
  <2> SUFFICES ASSUME NEW c \in CompactionsOf(d)
               PROVE  c \in CompactionsOf(b) /\ d[c] = b[c]
    OBVIOUS
  <2>1. c \in 1..Len(d) /\ d[c].type = "compaction"
    BY <1>1 DEF CompactionsOf
  <2>2. c \in 1..n
    BY <1>1, <2>1
  <2> QED BY <1>1, <2>1, <2>2 DEF CompactionsOf, Agree
<1> QED
  BY <1>2 DEF Marks

\* A step that leaves n entries and appends no answer, result or compaction.
LEMMA OtherKeepsCalls ==
  ASSUME IInv, CallsAreSound, NEW n \in Nat, NEW d, Edits(branch, d, n),
         NEW next \in Nat, drawn <= next,
         NEW more \in Seq(Calls), more = pending \/ more = <<>>,
         Len(d) = n + 1 =>
           /\ d[n + 1].type \notin {"assistant", "toolResult", "compaction"}
           /\ d[n + 1].id = drawn + 1
  PROVE  /\ BatchesOf(d, more, Marks(d, prepared), next)
         /\ NothingSplit(d, prepared)
<1> DEFINE marks == Marks(branch, prepared)
<1>1. /\ branch \in Seq(Entries) /\ Grows(branch) /\ drawn \in Nat
      /\ pending \in Seq(Calls) /\ prepared \in Preparations \union {None}
      /\ \A i \in 1..Len(branch) : branch[i].id <= drawn
      /\ prepared # None => prepared.upTo <= drawn
  BY DEF IInv, Types, Drawn
<1>2. BatchesOf(branch, pending, marks, drawn) /\ ResultsAreSound(branch)
      /\ NothingSplit(branch, prepared)
  BY DEF CallsAreSound, BatchesAreSound, BatchesOf
<1>3. d \in Seq(Entries) /\ Agree(branch, d, n) /\ Len(d) \in n..(n + 1)
  BY DEF Edits
<1> HIDE DEF marks
<1>4. Len(d) = n + 1 => /\ d[n + 1].type \notin {"assistant", "toolResult"}
                        /\ d[n + 1].id > drawn
  BY <1>1
<1>5. BatchesOf(d, more, marks, next)
  BY <1>1, <1>2, <1>3, <1>4, BatchesStay
<1>6. Marks(d, prepared) \subseteq marks
  BY <1>1, MarksStay DEF marks
<1>7. BatchesOf(d, more, Marks(d, prepared), next)
  BY <1>5, <1>6, FewerMarks
<1>8. Len(d) = n + 1 =>
        /\ d[n + 1].type # "compaction" /\ d[n + 1].type # "toolResult"
        /\ prepared # None => d[n + 1].id > prepared.upTo
  <2>1. prepared # None => prepared.upTo \in Nat
    BY <1>1 DEF Preparations
  <2> QED BY <1>1, <2>1
<1>9. NothingSplit(d, prepared)
  BY <1>1, <1>2, <1>8, EditsSplitNothing
<1> QED
  BY <1>7, <1>9

LEMMA PlainKeepsCalls == ASSUME IInv, CallsAreSound, AppendPlain PROVE CallsAreSound'
<1>1. PICK type \in Plain : Appending(Entry(drawn + 1, type))
  BY DEF AppendPlain
<1>2. pending' = pending /\ prepared' = prepared
  BY DEF AppendPlain
<1>3. PICK e : e = Entry(drawn + 1, type)
  OBVIOUS
<1>4. Types /\ Drawn /\ branch \in Seq(Entries) /\ drawn \in Nat /\ pending \in Seq(Calls)
  BY DEF IInv, Types
<1>5. e \in Entries /\ e.id = drawn + 1
      /\ e.type \notin {"assistant", "toolResult", "compaction"}
  <2>1. type \in Messages \union {"setting"}
        /\ type \notin {"assistant", "toolResult", "compaction"}
    BY CompactionAssumption DEF Messages
  <2> QED BY <1>3, <1>4, <2>1 DEF Entry, Entries, Plains
<1>6. PICK d : d = branch'
  OBVIOUS
<1>7. PICK n : n = Len(branch)
  OBVIOUS
<1>8. /\ n \in 0..Len(branch) /\ n \in Nat
      /\ d = Append(SubSeq(branch, 1, n), e) /\ drawn' = drawn + 1
  BY <1>1, <1>3, <1>4, <1>6, <1>7, WholeBranch DEF Appending
<1>9. Edits(branch, d, n) /\ Len(d) = n + 1 /\ d[n + 1] = e
  BY <1>4, <1>5, <1>8, NewEntry
<1>10. PICK next : next = drawn + 1
  OBVIOUS
<1>11. next \in Nat /\ drawn <= next
  BY <1>4, <1>10
<1>12. /\ BatchesOf(d, pending, Marks(d, prepared), next)
       /\ NothingSplit(d, prepared)
  BY <1>4, <1>5, <1>8, <1>9, <1>11, OtherKeepsCalls
<1> QED
  BY <1>2, <1>6, <1>8, <1>10, <1>12 DEF CallsAreSound, BatchesAreSound

LEMMA AnswerKeepsCalls == ASSUME IInv, CallsAreSound, AppendAnswer PROVE CallsAreSound'
<1>1. PICK a \in Answers :
        /\ Appending(Answer(drawn + 1, a[1], a[2]))
        /\ pending' = IF Answer(drawn + 1, a[1], a[2]).failed THEN <<>>
                      ELSE Answer(drawn + 1, a[1], a[2]).calls
  BY DEF AppendAnswer
<1>2. pending = <<>> /\ prepared' = prepared
  BY DEF AppendAnswer
<1>3. PICK e : e = Answer(drawn + 1, a[1], a[2])
  OBVIOUS
<1>4. /\ Types /\ Drawn /\ branch \in Seq(Entries) /\ drawn \in Nat /\ Grows(branch)
      /\ prepared \in Preparations \union {None}
      /\ \A i \in 1..Len(branch) : branch[i].id <= drawn
      /\ prepared # None => prepared.upTo <= drawn
  BY DEF IInv, Types, Drawn
<1>5. /\ e \in AllAnswers /\ e.id = drawn + 1 /\ e.type = "assistant"
      /\ \A k \in DOMAIN e.calls : e.calls[k] = <<e.id, k>>
  <2>1. drawn + 1 \in Nat /\ a[1] \in Nat /\ a[2] \in BOOLEAN
    BY <1>4, CompactionAssumption
  <2>2. [k \in 1..a[1] |-> <<drawn + 1, k>>] \in Seq(Calls)
    BY <2>1 DEF Calls
  <2>3. e \in AllAnswers /\ e.id = drawn + 1 /\ e.type = "assistant"
    BY <1>3, <2>1, <2>2 DEF Answer, AllAnswers
  <2>4. e.calls = [k \in 1..a[1] |-> <<drawn + 1, k>>]
    BY <1>3 DEF Answer
  <2>5. \A k \in DOMAIN e.calls : e.calls[k] = <<drawn + 1, k>>
    BY <2>4
  <2> QED BY <2>3, <2>5
<1>6. e \in Entries
  BY <1>5 DEF Entries
<1>7. PICK d : d = branch'
  OBVIOUS
<1>8. PICK n : n = Len(branch)
  OBVIOUS
<1>9. /\ n \in 0..Len(branch) /\ n \in Nat /\ d = Append(branch, e)
      /\ d = Append(SubSeq(branch, 1, n), e) /\ drawn' = drawn + 1
  BY <1>1, <1>3, <1>4, <1>7, <1>8, WholeBranch DEF Appending
<1>10. Edits(branch, d, n) /\ Len(d) = n + 1 /\ d[n + 1] = e
  BY <1>4, <1>5, <1>6, <1>9, NewEntry
<1>11. PICK calls : calls = pending'
  OBVIOUS
<1>12. PICK marks : marks = Marks(branch, prepared)
  OBVIOUS
<1>13. BatchesOf(branch, <<>>, marks, drawn) /\ ResultsAreSound(branch)
       /\ NothingSplit(branch, prepared)
  BY <1>2, <1>12 DEF CallsAreSound, BatchesAreSound, BatchesOf
<1>14. \A id \in marks : id \in Nat /\ id <= drawn
  BY <1>12, MarksAre
<1>15. calls = IF e.failed THEN <<>> ELSE e.calls
  BY <1>1, <1>3, <1>11
<1>16. BatchesOf(d, calls, marks, drawn + 1)
  BY <1>4, <1>5, <1>9, <1>13, <1>14, <1>15, AnswerKeepsBatches
<1>17. Marks(d, prepared) \subseteq marks
  BY <1>4, <1>5, <1>9, <1>10, <1>12, MarksStay
<1>18. BatchesOf(d, calls, Marks(d, prepared), drawn + 1)
  BY <1>16, <1>17, FewerMarks
<1>19. NothingSplit(d, prepared)
  <2>1. Len(d) = n + 1 =>
          /\ d[n + 1].type # "compaction" /\ d[n + 1].type # "toolResult"
          /\ prepared # None => d[n + 1].id > prepared.upTo
    <3>1. prepared # None => prepared.upTo \in Nat
      BY <1>4 DEF Preparations
    <3> QED BY <1>4, <1>5, <1>10, <3>1
  <2> QED BY <1>4, <1>9, <1>10, <1>13, <2>1, EditsSplitNothing
<1> QED
  BY <1>2, <1>7, <1>9, <1>11, <1>18, <1>19 DEF CallsAreSound, BatchesAreSound

LEMMA ResultKeepsCalls == ASSUME IInv, CallsAreSound, AppendResult PROVE CallsAreSound'
<1>1. pending # <<>> /\ pending \in Seq(Calls) /\ pending' = Tail(pending)
      /\ prepared' = prepared
  BY DEF AppendResult, IInv, Types
<1>2. PICK e : e = Result(drawn + 1, Head(pending))
  OBVIOUS
<1>3. /\ Types /\ Drawn /\ branch \in Seq(Entries) /\ drawn \in Nat /\ Grows(branch)
      /\ prepared \in Preparations \union {None}
      /\ \A i \in 1..Len(branch) : branch[i].id <= drawn
      /\ prepared # None => prepared.upTo <= drawn
  BY DEF IInv, Types, Drawn
<1>4. e \in Results /\ e.id = drawn + 1 /\ e.type = "toolResult" /\ e.call = Head(pending)
  <2>1. Head(pending) \in Calls /\ drawn + 1 \in Nat
    BY <1>1, <1>3
  <2> QED BY <1>2, <2>1 DEF Result, Results
<1>5. e \in Entries
  BY <1>4 DEF Entries
<1>6. PICK d : d = branch'
  OBVIOUS
<1>7. PICK n : n = Len(branch)
  OBVIOUS
<1>8. /\ n \in 0..Len(branch) /\ n \in Nat /\ d = Append(branch, e)
      /\ d = Append(SubSeq(branch, 1, n), e) /\ drawn' = drawn + 1
  BY <1>2, <1>3, <1>6, <1>7, WholeBranch DEF AppendResult, Appending
<1>9. Edits(branch, d, n) /\ Len(d) = n + 1 /\ d[n + 1] = e
  BY <1>3, <1>4, <1>5, <1>8, NewEntry
<1>10. PICK marks : marks = Marks(branch, prepared)
  OBVIOUS
<1>11. BatchesOf(branch, pending, marks, drawn) /\ ResultsAreSound(branch)
       /\ NothingSplit(branch, prepared)
  BY <1>10 DEF CallsAreSound, BatchesAreSound, BatchesOf
<1>12. PICK more : more = Tail(pending)
  OBVIOUS
<1>13. BatchesOf(d, more, marks, drawn + 1)
  BY <1>1, <1>3, <1>4, <1>8, <1>11, <1>12, ResultKeepsBatches
<1>14. Marks(d, prepared) \subseteq marks
  BY <1>3, <1>4, <1>8, <1>9, <1>10, MarksStay
<1>15. BatchesOf(d, more, Marks(d, prepared), drawn + 1)
  BY <1>13, <1>14, FewerMarks
<1>16. \A id \in marks : e.call[1] > id
  <2>1. 1 \in 1..Len(pending) /\ pending[1] = e.call
    BY <1>1, <1>4
  <2>2. Awaited(branch, marks, drawn, pending[1])
    BY <1>11, <2>1 DEF BatchesOf
  <2> QED BY <2>1, <2>2 DEF Awaited
<1>17. NothingSplit(d, prepared)
  <2>1. Len(d) = n + 1 =>
          /\ d[n + 1].type # "compaction"
          /\ prepared # None => d[n + 1].id > prepared.upTo
          /\ d[n + 1].type = "toolResult" =>
               \A id \in Marks(branch, prepared) : d[n + 1].call[1] > id
    <3>1. prepared # None => prepared.upTo \in Nat
      BY <1>3 DEF Preparations
    <3> QED BY <1>3, <1>4, <1>9, <1>10, <1>16, <3>1
  <2> QED BY <1>3, <1>8, <1>9, <1>11, <2>1, EditsSplitNothing
<1> QED
  BY <1>1, <1>6, <1>8, <1>12, <1>15, <1>17 DEF CallsAreSound, BatchesAreSound

\* A step that leaves the branch as it is and makes no call.
LEMMA SameBranch ==
  ASSUME IInv, CallsAreSound, NEW more \in Seq(Calls), more = pending \/ more = <<>>
  PROVE  /\ BatchesOf(branch, more, Marks(branch, prepared), drawn)
         /\ NothingSplit(branch, prepared)
<1>1. branch \in Seq(Entries) /\ drawn \in Nat /\ Types /\ Drawn
  BY DEF IInv, Types
<1>2. PICK n : n = Len(branch)
  OBVIOUS
<1>3. PICK d : d = branch
  OBVIOUS
<1>4. n \in 0..Len(branch) /\ n \in Nat /\ d = SubSeq(branch, 1, n)
  BY <1>1, <1>2, <1>3, WholeBranch
<1>5. Edits(branch, d, n) /\ Len(d) = n
  BY <1>1, <1>4, StemIs
<1>6. ~(Len(d) = n + 1) /\ drawn <= drawn
  BY <1>1, <1>4, <1>5
<1>7. /\ BatchesOf(d, more, Marks(d, prepared), drawn)
      /\ NothingSplit(d, prepared)
  BY <1>1, <1>4, <1>5, <1>6, OtherKeepsCalls
<1> QED
  BY <1>3, <1>7

LEMMA InterruptKeepsCalls ==
  ASSUME IInv, CallsAreSound, Interrupt PROVE CallsAreSound'
<1>1. pending' = <<>> /\ UNCHANGED <<branch, prepared, drawn>>
  BY DEF Interrupt
<1>2. PICK more : more = <<>>
  OBVIOUS
<1>3. more \in Seq(Calls)
  BY <1>2
<1>4. /\ BatchesOf(branch, more, Marks(branch, prepared), drawn)
      /\ NothingSplit(branch, prepared)
  BY <1>2, <1>3, SameBranch
<1> QED
  BY <1>1, <1>2, <1>4 DEF CallsAreSound, BatchesAreSound

LEMMA PrepareKeepsCalls == ASSUME IInv, CallsAreSound, Prepare PROVE CallsAreSound'
<1>1. PICK budget \in Budgets : prepared' = Preparation(budget)
  BY DEF Prepare
<1>2. /\ prepared = None
      /\ branch # <<>> /\ branch[Len(branch)].type # "compaction"
      /\ pending' = <<>> /\ UNCHANGED <<branch, drawn>>
  BY DEF Prepare
<1>3. PICK m : m = Preparation(budget)
  OBVIOUS
<1>4. branch \in Seq(Entries) /\ Grows(branch) /\ Len(branch) \in 1..Len(branch)
      /\ budget \in Nat
  BY <1>2, CompactionAssumption DEF IInv, Types, Drawn
<1>5. m.upTo = branch[Len(branch)].id
  BY <1>2, <1>3, <1>4, PreparationIs
<1>6. PICK more : more = <<>>
  OBVIOUS
<1>7. more \in Seq(Calls)
  BY <1>6
<1>8. /\ BatchesOf(branch, more, Marks(branch, None), drawn)
      /\ NothingSplit(branch, None)
  BY <1>2, <1>6, <1>7, SameBranch
<1>9. Marks(branch, m) \subseteq Marks(branch, None) \union {m.upTo}
  BY DEF Marks
<1>10. Newer(branch, m.upTo)
  <2> SUFFICES ASSUME NEW i \in 1..Len(branch), branch[i].id > m.upTo PROVE FALSE
    BY DEF Newer
  <2>1. i # Len(branch) => branch[i].id < branch[Len(branch)].id
    BY <1>4 DEF Grows
  <2>2. branch[i].id \in Nat /\ branch[Len(branch)].id \in Nat
    BY <1>4, CallsOfEntries
  <2> QED BY <1>5, <2>1, <2>2
<1>11. BatchesOf(branch, more, Marks(branch, m), drawn)
  <2>1. \A id \in Marks(branch, m) : Newer(branch, id)
    BY <1>8, <1>9, <1>10 DEF BatchesOf
  <2>2. \A k \in 1..Len(more) : FALSE
    BY <1>6
  <2> QED BY <1>8, <2>1, <2>2 DEF BatchesOf
<1>12. Unsplit(branch, PositionIn(branch, m.kept))
  <2>1. ResultsAreSound(branch)
    BY <1>8 DEF BatchesOf
  <2> QED BY <1>2, <1>3, <1>4, <1>8, <2>1, PreparationSplitsNothing
<1>13. NothingSplit(branch, m)
  BY <1>8, <1>12 DEF NothingSplit
<1> QED
  BY <1>1, <1>2, <1>3, <1>6, <1>11, <1>13 DEF CallsAreSound, BatchesAreSound

LEMMA CompactionKeepsCalls ==
  ASSUME IInv, CallsAreSound, AppendCompaction PROVE CallsAreSound'
<1>1. PICK e :
        e = [id |-> drawn + 1, type |-> "compaction", kept |-> prepared.kept,
             told |-> prepared.told, files |-> prepared.files,
             budget |-> prepared.budget, upTo |-> prepared.upTo]
  OBVIOUS
<1>2. /\ prepared # None /\ prepared' = None /\ drawn' = drawn + 1
      /\ branch' = Append(branch, e) /\ pending' = pending
  BY <1>1 DEF AppendCompaction, Appending
<1>3. /\ Types /\ Drawn /\ branch \in Seq(Entries) /\ drawn \in Nat /\ Grows(branch)
      /\ pending \in Seq(Calls)
      /\ prepared \in Preparations /\ prepared.upTo <= drawn
      /\ \A i \in 1..Len(branch) : branch[i].id <= drawn
  BY <1>2 DEF IInv, Types, Drawn
<1>4. e \in Summaries /\ e.id = drawn + 1 /\ e.type = "compaction"
      /\ e.kept = prepared.kept /\ e.upTo = prepared.upTo
  <2>1. /\ prepared.kept \in Nat /\ prepared.told \in SUBSET Nat
        /\ prepared.files \in SUBSET Calls /\ prepared.budget \in Budgets
        /\ prepared.upTo \in Nat /\ prepared.kept <= prepared.upTo
        /\ prepared.upTo < drawn + 1 /\ drawn + 1 \in Nat
    BY <1>3 DEF Preparations
  <2> QED BY <1>1, <2>1 DEF Summaries
<1>5. e \in Entries
  BY <1>4 DEF Entries
<1>6. PICK d : d = branch'
  OBVIOUS
<1>7. PICK n : n = Len(branch)
  OBVIOUS
<1>8. /\ n \in 0..Len(branch) /\ n \in Nat
      /\ d = Append(SubSeq(branch, 1, n), e)
  BY <1>2, <1>3, <1>6, <1>7, WholeBranch
<1>9. Edits(branch, d, n) /\ Len(d) = n + 1 /\ d[n + 1] = e
  BY <1>3, <1>4, <1>5, <1>8, NewEntry
<1>10. PICK marks : marks = Marks(branch, prepared)
  OBVIOUS
<1>11. BatchesOf(branch, pending, marks, drawn) /\ ResultsAreSound(branch)
       /\ NothingSplit(branch, prepared)
  BY <1>10 DEF CallsAreSound, BatchesAreSound, BatchesOf
<1>12. d \in Seq(Entries) /\ Agree(branch, d, n) /\ Len(d) \in n..(n + 1)
  BY <1>9 DEF Edits
<1>13. Len(d) = n + 1 => /\ d[n + 1].type \notin {"assistant", "toolResult"}
                         /\ d[n + 1].id > drawn
  BY <1>3, <1>4, <1>9
<1>14. PICK next : next = drawn + 1
  OBVIOUS
<1>15. next \in Nat /\ drawn <= next
  BY <1>3, <1>14
<1>16. BatchesOf(d, pending, marks, next)
  BY <1>3, <1>8, <1>11, <1>12, <1>13, <1>15, BatchesStay
<1>17. Marks(d, None) \subseteq marks
  <2> SUFFICES ASSUME NEW c \in CompactionsOf(d) PROVE d[c].upTo \in marks
    BY DEF Marks
  <2>1. c \in 1..Len(d) /\ d[c].type = "compaction"
    BY <1>12 DEF CompactionsOf
  <2>2. CASE c \in 1..n
    <3>1. d[c] = branch[c] /\ n <= Len(branch)
      BY <1>12, <2>2 DEF Agree
    <3>2. c \in DOMAIN branch
      <4>1. DOMAIN branch = 1..Len(branch) /\ Len(branch) \in Nat
        BY <1>3
      <4> QED BY <1>8, <2>2, <3>1, <4>1
    <3>3. c \in CompactionsOf(branch)
      BY <2>1, <3>1, <3>2 DEF CompactionsOf
    <3> QED BY <1>10, <3>1, <3>3 DEF Marks
  <2>3. CASE c = n + 1
    <3>1. d[c].upTo = prepared.upTo
      BY <1>4, <1>9, <2>3
    <3> QED BY <1>2, <1>10, <3>1 DEF Marks
  <2>4. c \in 1..n \/ c = n + 1
    BY <1>8, <1>9, <2>1
  <2> QED BY <2>2, <2>3, <2>4
<1>18. BatchesOf(d, pending, Marks(d, None), next)
  BY <1>16, <1>17, FewerMarks
<1>19. NothingSplit(d, None)
  <2>1. /\ Edits(branch, d, Len(branch)) /\ Len(d) = Len(branch) + 1
        /\ d[Len(branch) + 1].type = "compaction"
        /\ d[Len(branch) + 1].kept = prepared.kept
    BY <1>4, <1>7, <1>9
  <2> QED BY <1>2, <1>3, <1>11, <2>1, CompactionSplitsNothing
<1> QED
  BY <1>2, <1>6, <1>14, <1>18, <1>19 DEF CallsAreSound, BatchesAreSound

LEMMA FailureKeepsCalls ==
  ASSUME IInv, CallsAreSound, CompactionFails PROVE CallsAreSound'
<1>1. prepared' = None /\ UNCHANGED <<branch, pending, drawn>>
  BY DEF CompactionFails
<1>2. BatchesOf(branch, pending, Marks(branch, prepared), drawn)
      /\ NothingSplit(branch, prepared)
  BY DEF CallsAreSound, BatchesAreSound
<1>3. Marks(branch, None) \subseteq Marks(branch, prepared)
  BY DEF Marks
<1>4. BatchesOf(branch, pending, Marks(branch, None), drawn)
  BY <1>2, <1>3, FewerMarks
<1>5. NothingSplit(branch, None)
  BY <1>2 DEF NothingSplit
<1> QED
  BY <1>1, <1>4, <1>5 DEF CallsAreSound, BatchesAreSound

LEMMA NavigateKeepsCalls == ASSUME IInv, CallsAreSound, Navigate PROVE CallsAreSound'
<1>1. PICK target \in 1..(Len(branch) - 1), summarize \in BOOLEAN :
       LET edited == branch[target].type \in {"user", "custom_message"}
           stem == SubSeq(branch, 1, IF edited THEN target - 1 ELSE target)
       IN IF summarize
          THEN /\ drawn' = drawn + 1
               /\ branch' = Append(stem, Entry(drawn + 1, "branch_summary"))
          ELSE branch' = stem /\ UNCHANGED drawn
  BY DEF Navigate
<1>2. pending' = pending /\ prepared' = prepared
  BY DEF Navigate
<1>3. /\ Types /\ Drawn
      /\ branch \in Seq(Entries) /\ drawn \in Nat /\ pending \in Seq(Calls)
  BY DEF IInv, Types
<1>4. PICK n : n = IF branch[target].type \in {"user", "custom_message"}
                   THEN target - 1 ELSE target
  OBVIOUS
<1>5. n \in 0..Len(branch) /\ n \in Nat
  <2>1. Len(branch) \in Nat
    BY <1>3
  <2> QED BY <1>4, <2>1
<1>6. IF summarize
      THEN /\ drawn' = drawn + 1
           /\ branch' = Append(SubSeq(branch, 1, n),
                               Entry(drawn + 1, "branch_summary"))
      ELSE branch' = SubSeq(branch, 1, n) /\ UNCHANGED drawn
  BY <1>1, <1>4
<1>7. PICK d : d = branch'
  OBVIOUS
<1>8. PICK next : next = drawn'
  OBVIOUS
<1>9. /\ Edits(branch, d, n) /\ next \in Nat /\ drawn <= next
      /\ Len(d) = n + 1 =>
           /\ d[n + 1].type \notin {"assistant", "toolResult", "compaction"}
           /\ d[n + 1].id = drawn + 1
  <2>1. CASE summarize
    <3>1. PICK e : e = Entry(drawn + 1, "branch_summary")
      OBVIOUS
    <3>2. e \in Entries /\ e.id = drawn + 1 /\ e.type = "branch_summary"
      BY <1>3, <3>1 DEF Entry, Entries, Plains, Messages
    <3>3. d = Append(SubSeq(branch, 1, n), e) /\ next = drawn + 1
      BY <1>6, <1>7, <1>8, <2>1, <3>1
    <3>4. Edits(branch, d, n) /\ Len(d) = n + 1 /\ d[n + 1] = e
      BY <1>3, <1>5, <3>2, <3>3, NewEntry
    <3>5. d[n + 1].type = "branch_summary" /\ d[n + 1].id = drawn + 1
      BY <3>2, <3>4
    <3>6. next \in Nat /\ drawn <= next
      BY <1>3, <3>3
    <3> QED BY <3>4, <3>5, <3>6
  <2>2. CASE ~summarize
    <3>1. d = SubSeq(branch, 1, n) /\ next = drawn
      BY <1>6, <1>7, <1>8, <2>2
    <3>2. Edits(branch, d, n) /\ Len(d) = n
      BY <1>3, <1>5, <3>1, StemIs
    <3> QED BY <1>3, <1>5, <3>1, <3>2
  <2> QED BY <2>1, <2>2
<1>10. /\ BatchesOf(d, pending, Marks(d, prepared), next)
       /\ NothingSplit(d, prepared)
  BY <1>3, <1>5, <1>9, OtherKeepsCalls
<1> QED
  BY <1>2, <1>7, <1>8, <1>10 DEF CallsAreSound, BatchesAreSound

LEMMA CallsInitially == Init => CallsAreSound
<1> SUFFICES ASSUME Init PROVE CallsAreSound
  OBVIOUS
<1>1. branch = <<>> /\ pending = <<>> /\ prepared = None
  BY DEF Init
<1>2. CompactionsOf(branch) = {} /\ Len(branch) = 0 /\ Len(pending) = 0
  BY <1>1 DEF CompactionsOf
<1>3. Marks(branch, prepared) = {}
  BY <1>1, <1>2 DEF Marks
<1>4. \A i \in 1..0 : FALSE
  OBVIOUS
<1>5. AnswersAreSound(branch) /\ ResultsAreSound(branch) /\ Distinct(pending)
  BY <1>2, <1>4 DEF AnswersAreSound, ResultsAreSound, Distinct
<1>6. BatchesAreSound
  BY <1>2, <1>3, <1>4, <1>5 DEF BatchesAreSound, BatchesOf
<1>7. NothingSplit(branch, prepared)
  BY <1>1, <1>2 DEF NothingSplit
<1> QED
  BY <1>6, <1>7 DEF CallsAreSound

LEMMA CallsStepwise == IInv /\ CallsAreSound /\ [Next]_vars => CallsAreSound'
<1> SUFFICES ASSUME IInv, CallsAreSound, [Next]_vars PROVE CallsAreSound'
  OBVIOUS
<1>1. CASE AppendPlain
  BY <1>1, PlainKeepsCalls
<1>2. CASE AppendAnswer
  BY <1>2, AnswerKeepsCalls
<1>3. CASE AppendResult
  BY <1>3, ResultKeepsCalls
<1>4. CASE Interrupt
  BY <1>4, InterruptKeepsCalls
<1>5. CASE Prepare
  BY <1>5, PrepareKeepsCalls
<1>6. CASE AppendCompaction
  BY <1>6, CompactionKeepsCalls
<1>7. CASE CompactionFails
  BY <1>7, FailureKeepsCalls
<1>8. CASE Navigate
  BY <1>8, NavigateKeepsCalls
<1>9. CASE UNCHANGED vars
  BY <1>9 DEF vars, CallsAreSound, BatchesAreSound
<1> QED
  BY <1>1, <1>2, <1>3, <1>4, <1>5, <1>6, <1>7, <1>8, <1>9 DEF Next

\* For any entries, answers, budgets and bounds: unless the leaf was moved under
\* a running batch or compaction, each call of a request has its result right
\* behind the answer, and no result comes without its call
\* (buildSessionContext, findValidCutPoints and transformMessages).
THEOREM CallsAreAnswered == Spec => []RequestsAreComplete
<1>1. IInv /\ CallsAreSound => RequestsAreComplete
  <2> SUFFICES ASSUME IInv, CallsAreSound, ~\E i \in DOMAIN branch : Astray(i)
               PROVE  RequestsAreComplete
    BY DEF RequestsAreComplete
  <2>1. branch \in Seq(Entries) /\ Grows(branch)
    BY DEF IInv, Types, Drawn
  <2>2. \A i \in DOMAIN branch : ~AstrayIn(branch, i)
    BY DEF Astray, AstrayIn, Mislaid, MislaidIn, Position, PositionIn
  <2>3. AnswersAreSound(branch) /\ ResultsAreSound(branch)
    BY DEF CallsAreSound, BatchesAreSound, BatchesOf
  <2>4. \A c \in CompactionsOf(branch) : Newer(branch, branch[c].upTo)
    BY DEF CallsAreSound, BatchesAreSound, BatchesOf, Marks
  <2>5. \A c \in CompactionsOf(branch) :
          ~MislaidIn(branch, c) => Unsplit(branch, PositionIn(branch, branch[c].kept))
    BY DEF CallsAreSound, NothingSplit
  <2>6. Context \in Seq(Entries) /\ Complete(Context)
    BY <2>1, <2>2, <2>3, <2>4, <2>5, ContextIsComplete
  <2>7. Request \in Seq(Sent) /\ Paired(Request, Len(Request))
    BY <2>6, RequestIsPaired
  <2> QED BY <2>7, PairedIsComplete
<1>2. Init => IInv /\ CallsAreSound
  BY Initially, CallsInitially
<1>3. IInv /\ CallsAreSound /\ [Next]_vars => (IInv /\ CallsAreSound)'
  BY Stepwise, CallsStepwise
<1> QED
  BY <1>1, <1>2, <1>3, PTL DEF Spec
=============================================================================
