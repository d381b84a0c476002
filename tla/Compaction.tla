----------------------------- MODULE Compaction -----------------------------
(***************************************************************************)
(* What a session sends to the model, and what its compactions keep of it  *)
(* (coding-agent/src/core/compaction/compaction.ts, buildSessionContext of *)
(* core/session-manager.ts, convertToLlm of core/messages.ts and           *)
(* ai/src/providers/transform-messages.ts, with the calls of               *)
(* core/agent-session.ts that prepare, append and navigate).               *)
(*                                                                         *)
(* The state is the branch of the session.  A compaction is prepared from  *)
(* the branch as it is, its summary is asked from a model, and the entry   *)
(* is appended to whatever the branch is by then.  A summary is the set of *)
(* messages the model was told of when it wrote it, the earlier summary    *)
(* included if it was part of the request.                                 *)
(*                                                                         *)
(* Every message has the size one, and each compaction a budget of its     *)
(* own: the message at which the budget is reached may then be any.        *)
(* Entries without a message (labels, names, model and thinking changes,   *)
(* custom data) are "setting".  Bash results excluded from the context,    *)
(* compactions made by extensions and the fitting of ids, images and       *)
(* thinking to another model are left out.                                 *)
(***************************************************************************)
EXTENDS Naturals, Sequences, FiniteSets

CONSTANTS
  Plain,       \* the kinds of entries that are appended with nothing else
  Answers,     \* the answers: how many calls, and whether it failed
  Budgets,     \* the budgets of compactions
  MaxEntries,  \* bound: entries appended
  MaxPlain,    \* bound: entries of a branch that are neither a user message,
               \* an answer, a result nor a compaction
  MaxMoves     \* bound: navigations

ASSUME CompactionAssumption ==
  /\ {MaxEntries, MaxPlain, MaxMoves} \subseteq Nat
  /\ Budgets \subseteq Nat
  /\ Answers \subseteq Nat \X BOOLEAN
  /\ Plain \subseteq {"user", "bashExecution", "custom_message", "setting"}

VARIABLES
  branch,    \* the entries from the root to the leaf
  pending,   \* the calls of the running batch that have no result yet
  prepared,  \* the compaction whose summary is asked for
  drawn,     \* ids drawn
  moves

vars == <<branch, pending, prepared, drawn, moves>>

-----------------------------------------------------------------------------
(* Entries *)

None == [kept |-> 0]

Entry(id, type) == [id |-> id, type |-> type]

Answer(id, n, failed) ==
  [id |-> id, type |-> "assistant", failed |-> failed,
   calls |-> [k \in 1..n |-> <<id, k>>]]

Result(id, call) == [id |-> id, type |-> "toolResult", call |-> call]

\* The entries that hold a message as it is; the others make one.
IsMessage(e) == e.type \in {"user", "bashExecution", "assistant", "toolResult"}

HasMessage(e) == IsMessage(e) \/ e.type \in {"custom_message", "branch_summary"}

\* Entries whose message the model takes for the user's, and that start a turn.
StartsTurn(e) ==
  e.type \in {"user", "bashExecution", "custom_message", "branch_summary"}

IdsOf(S) == {branch[i].id : i \in S}

Least(S) == CHOOSE i \in S : \A j \in S : i <= j
Greatest(S) == CHOOSE i \in S : \A j \in S : j <= i

\* The position of an entry of the branch, 0 if it is not there.
Position(id) ==
  IF \E i \in DOMAIN branch : branch[i].id = id
  THEN CHOOSE i \in DOMAIN branch : branch[i].id = id ELSE 0

Compactions == {i \in DOMAIN branch : branch[i].type = "compaction"}

\* The compaction before a position, 0 without one.
CompactionBefore(n) ==
  LET earlier == {i \in Compactions : i < n}
  IN IF earlier = {} THEN 0 ELSE Greatest(earlier)

-----------------------------------------------------------------------------
(* The request *)

\* The elements of a sequence at some of its positions, in order.
Picked(s, at) ==
  [n \in 1..Cardinality(at) |->
     s[CHOOSE i \in at : Cardinality({j \in at : j <= i}) = n]]

MessagesAt(S) == Picked(branch, {i \in S : HasMessage(branch[i])})

\* The messages of the agent: the last summary, what it kept, what came since.
Context ==
  LET c == CompactionBefore(Len(branch) + 1)
      kept == IF c = 0 THEN 0 ELSE Position(branch[c].kept)
  IN IF c = 0 THEN MessagesAt(DOMAIN branch)
     ELSE <<branch[c]>>
          \o MessagesAt((IF kept \in 1..(c - 1) THEN kept..(c - 1) ELSE {})
                        \union (c + 1)..Len(branch))

NoResult(call) == [type |-> "toolResult", call |-> call]

\* The calls of the last answer that still have no result get an empty one.
Answered(s) ==
  LET missing == Picked(s.open, {k \in DOMAIN s.open : s.open[k] \notin s.seen})
  IN [out |-> s.out \o [k \in DOMAIN missing |-> NoResult(missing[k])],
      open |-> <<>>, seen |-> {}]

WithMessage(s, m) ==
  CASE m.type = "assistant" /\ m.failed -> Answered(s)
    [] m.type = "assistant" /\ ~m.failed ->
         [out |-> Append(Answered(s).out, m), open |-> m.calls, seen |-> {}]
    [] m.type = "toolResult" ->
         [s EXCEPT !.out = Append(@, m), !.seen = @ \union {m.call}]
    [] OTHER -> [Answered(s) EXCEPT !.out = Append(@, m)]

\* What the provider is sent: failed answers are dropped, and every call of
\* the others has a result.
Request ==
  LET m == Context
      sent[n \in 0..Len(m)] ==
        IF n = 0 THEN [out |-> <<>>, open |-> <<>>, seen |-> {}]
        ELSE WithMessage(sent[n - 1], m[n])
  IN Answered(sent[Len(m)]).out

-----------------------------------------------------------------------------
(* The cut of a compaction, among the entries from first to last *)

ValidCutPointsAnywhere(first, last) ==
  {i \in first..last : HasMessage(branch[i])}

\* A tool result is never cut off from its call.
ValidCutPoints(first, last) ==
  {i \in first..last : HasMessage(branch[i]) /\ branch[i].type # "toolResult"}

Size(first, last) == Cardinality({i \in first..last : IsMessage(branch[i])})

\* The newest message with which the budget is reached, 0 if it never is.
BudgetPoint(first, last, budget) ==
  LET over == {i \in first..last :
                 IsMessage(branch[i]) /\ Size(i, last) >= budget}
  IN IF over = {} THEN 0 ELSE Greatest(over)

CutPoint(first, last, budget) ==
  LET points == ValidCutPoints(first, last)
      reached == BudgetPoint(first, last, budget)
      within == {i \in points : reached # 0 /\ i >= reached}
  IN IF within # {} THEN Least(within) ELSE Least(points)

\* Entries that hold no message go with the message they come before.
WithSettings(first, cut) ==
  Least({i \in first..cut : \A j \in i..(cut - 1) :
           ~IsMessage(branch[j]) /\ branch[j].type # "compaction"})

FirstKept(first, last, budget) ==
  IF ValidCutPoints(first, last) = {} THEN first
  ELSE WithSettings(first, CutPoint(first, last, budget))

\* The start of the turn a cut is in, 0 if the turn began before.
TurnStart(first, cut) ==
  LET starts == {i \in first..cut : StartsTurn(branch[i])}
  IN IF starts = {} THEN 0 ELSE Greatest(starts)

\* The start of the turn that the cut splits, 0 if it is none.
SplitAt(first, cut, last) ==
  IF ValidCutPoints(first, last) = {} \/ branch[cut].type = "user" THEN 0
  ELSE TurnStart(first, cut)

-----------------------------------------------------------------------------
(* The summary *)

BoundaryAfterCompaction(p) == p + 1

\* Where the messages begin that no earlier summary was told of.
BoundaryStart(p) ==
  IF p = 0 THEN 1
  ELSE IF Position(branch[p].kept) # 0 THEN Position(branch[p].kept)
  ELSE p + 1

\* What a request for a summary holds of the entries from first to last.
MessagesOf(first, last) ==
  {i \in first..last : HasMessage(branch[i])}

\* A history of no messages is not summarised when the turn is split, and
\* then the earlier summary is not passed on.
TellsEarlier(history, prefix) == history # {} \/ prefix = {}

Files(S) ==
  UNION {{branch[i].calls[k] : k \in DOMAIN branch[i].calls} :
           i \in {j \in S : branch[j].type = "assistant"}}

Preparation(budget) ==
  LET last == Len(branch)
      p == CompactionBefore(last + 1)
      first == BoundaryStart(p)
      cut == FirstKept(first, last, budget)
      turn == SplitAt(first, cut, last)
      history == MessagesOf(first, (IF turn = 0 THEN cut ELSE turn) - 1)
      prefix == IF turn = 0 THEN {} ELSE MessagesOf(turn, cut - 1)
  IN [kept |-> branch[cut].id,
      told |-> IdsOf(history \union prefix)
               \union (IF p # 0 /\ TellsEarlier(history, prefix)
                       THEN branch[p].told ELSE {}),
      files |-> Files(history \union prefix)
                \union (IF p # 0 THEN branch[p].files ELSE {}),
      budget |-> budget,
      upTo |-> branch[last].id]

-----------------------------------------------------------------------------
(* The session *)

Init ==
  /\ branch = <<>>
  /\ pending = <<>>
  /\ prepared = None
  /\ drawn = 0
  /\ moves = 0

Appending(e) ==
  /\ drawn < MaxEntries
  /\ drawn' = drawn + 1
  /\ branch' = Append(branch, e)

IsExtra(e) ==
  e.type \in {"bashExecution", "custom_message", "branch_summary", "setting"}

\* A message of the user, the result of a command of theirs, the message of
\* an extension or a setting.  Only settings come in the middle of a batch.
AppendPlain ==
  /\ \E type \in Plain :
       /\ type # "setting" => pending = <<>>
       /\ type # "user" => Len(SelectSeq(branch, IsExtra)) < MaxPlain
       /\ Appending(Entry(drawn + 1, type))
  /\ UNCHANGED <<pending, prepared, moves>>

\* An answer, which a request that ends with an answer does not get.
AppendAnswer ==
  /\ pending = <<>>
  /\ Request # <<>> /\ Request[Len(Request)].type # "assistant"
  /\ \E a \in Answers :
       LET e == Answer(drawn + 1, a[1], a[2])
       IN /\ Appending(e)
          /\ pending' = IF e.failed THEN <<>> ELSE e.calls
  /\ UNCHANGED <<prepared, moves>>

AppendResult ==
  /\ pending # <<>>
  /\ Appending(Result(drawn + 1, Head(pending)))
  /\ pending' = Tail(pending)
  /\ UNCHANGED <<prepared, moves>>

\* The run is aborted: the calls left have no result.
Interrupt ==
  /\ pending # <<>>
  /\ pending' = <<>>
  /\ UNCHANGED <<branch, prepared, drawn, moves>>

\* compact() aborts the run.  A branch that ends with a compaction has
\* nothing to compact, nor has an empty one.
Prepare ==
  /\ prepared = None
  /\ branch # <<>> /\ branch[Len(branch)].type # "compaction"
  /\ \E budget \in Budgets : prepared' = Preparation(budget)
  /\ pending' = <<>>
  /\ UNCHANGED <<branch, drawn, moves>>

\* The summary has come.
AppendCompaction ==
  /\ prepared # None
  /\ Appending([id |-> drawn + 1, type |-> "compaction", kept |-> prepared.kept,
                told |-> prepared.told, files |-> prepared.files,
                budget |-> prepared.budget, upTo |-> prepared.upTo])
  /\ prepared' = None
  /\ UNCHANGED <<pending, moves>>

\* The request for the summary fails or is aborted.
CompactionFails ==
  /\ prepared # None
  /\ prepared' = None
  /\ UNCHANGED <<branch, pending, drawn, moves>>

\* The leaf moves to an entry of the branch, to the one before it if it is a
\* message to be edited.  Nothing keeps this from happening while a summary is
\* asked for or a run goes on.  Other branches are reached by appending.
Navigate ==
  /\ moves < MaxMoves
  /\ moves' = moves + 1
  /\ \E target \in 1..(Len(branch) - 1), summarize \in BOOLEAN :
       LET edited == branch[target].type \in {"user", "custom_message"}
           stem == SubSeq(branch, 1, IF edited THEN target - 1 ELSE target)
       IN IF summarize
          THEN /\ drawn < MaxEntries
               /\ Len(SelectSeq(stem, IsExtra)) < MaxPlain
               /\ drawn' = drawn + 1
               /\ branch' = Append(stem, Entry(drawn + 1, "branch_summary"))
          ELSE branch' = stem /\ UNCHANGED drawn
  /\ UNCHANGED <<pending, prepared>>

Next ==
  \/ AppendPlain \/ AppendAnswer \/ AppendResult \/ Interrupt
  \/ Prepare \/ AppendCompaction \/ CompactionFails \/ Navigate

Spec == Init /\ [][Next]_vars

-----------------------------------------------------------------------------
(* Properties of the requests *)

\* The leaf was moved away between the preparation of a compaction and its
\* end: what it keeps is not on this branch.
Mislaid(c) == Position(branch[c].kept) \notin 1..(c - 1)

\* A result that is not behind its answer, because the leaf was moved while the
\* batch went on, or one that a mislaid compaction separates from it.
Astray(i) ==
  /\ branch[i].type = "toolResult"
  /\ LET answer == Position(branch[i].call[1])
     IN \/ answer = 0
        \/ \E j \in (answer + 1)..i :
             \/ HasMessage(branch[j]) /\ branch[j].type # "toolResult"
             \/ branch[j].type = "compaction" /\ Mislaid(j)

\* Providers reject a request in which a call has no result, or a result no
\* call.  Wherever runs were aborted or failed and compactions cut, and
\* whatever came between: each call sent has one result, right behind its
\* answer, and no result comes without its call.  Only a leaf that was moved
\* under a running batch or compaction breaks this.
RequestsAreComplete ==
  LET r == Request
      Results(i, n) == {j \in (i + 1)..(i + n) :
                          j <= Len(r) /\ r[j].type = "toolResult"}
  IN (\E i \in DOMAIN branch : Astray(i))
     \/ \A i \in DOMAIN r :
          /\ r[i].type = "assistant" =>
               LET n == Len(r[i].calls)
               IN /\ ~r[i].failed
                  /\ Cardinality(Results(i, n)) = n
                  /\ {r[j].call : j \in Results(i, n)}
                       = {r[i].calls[k] : k \in 1..n}
          /\ r[i].type = "toolResult" =>
               \E j \in 1..(i - 1) : /\ r[j].type = "assistant"
                                     /\ i \in Results(j, Len(r[j].calls))

-----------------------------------------------------------------------------
(* Properties of the compactions *)

\* What a compaction takes out of the context.
Hidden(c) == {i \in 1..(Position(branch[c].kept) - 1) : HasMessage(branch[i])}

\* ... and was not taken out by the one before it.
NewlyHidden(c) ==
  LET p == CompactionBefore(c)
  IN IF p = 0 THEN Hidden(c)
     ELSE IF Mislaid(p) THEN {i \in Hidden(c) : i > p}
     ELSE Hidden(c) \ Hidden(p)

\* All that a compaction takes out belongs to the turn with which what was
\* kept begins.
CutsFirstTurn(c) ==
  /\ NewlyHidden(c) # {}
  /\ LET kept == Position(branch[c].kept)
         first == Least(NewlyHidden(c))
     IN \A i \in first..kept : StartsTurn(branch[i]) <=> i = first

\* No message disappears untold: what a compaction takes out of the context is
\* in its summary, and so is all that the summary before it was told, except
\* where the code forgets it: when what is taken out belongs to a single turn.
Covers(c) ==
  LET p == CompactionBefore(c)
  IN /\ IdsOf(NewlyHidden(c)) \subseteq branch[c].told
     /\ p = 0 \/ CutsFirstTurn(c) \/ branch[p].told \subseteq branch[c].told

\* The files of every call ever taken out stay known, summary or not.
TracksFiles(c) ==
  LET p == CompactionBefore(c)
  IN /\ Files(NewlyHidden(c)) \subseteq branch[c].files
     /\ p = 0 \/ branch[p].files \subseteq branch[c].files

\* What is kept is not more than the budget or a single message, or nothing
\* was cut but results astray; and what is within the budget is kept but for
\* results.
Fits(c) ==
  LET kept == Position(branch[c].kept)
      last == Position(branch[c].upTo)
  IN /\ (\E i \in NewlyHidden(c) : branch[i].type # "toolResult")
          => Size(kept, last) <= branch[c].budget \/ Size(kept, last) = 1
     /\ \A i \in NewlyHidden(c) :
          IsMessage(branch[i]) /\ Size(i, last) <= branch[c].budget
            => branch[i].type = "toolResult"

\* The branch the compaction was prepared on was not left before it came.
InPlace(c) == Position(branch[c].upTo) \in 1..(c - 1)

\* prepareCompaction and compact(): a compaction that stands on the branch it
\* was prepared on loses nothing and keeps what its budget says.
CompactionIsSound ==
  \A c \in Compactions :
    InPlace(c) => Covers(c) /\ TracksFiles(c) /\ Fits(c)
=============================================================================
