------------------------- MODULE AgentSessionProofs -------------------------
(***************************************************************************)
(* Proofs about AgentSession, for any callers, texts, ends of requests and *)
(* bounds: retries and recoveries from an overflow are bounded and end,    *)
(* nothing stays in the agent's queues when nothing goes on, no text is    *)
(* shown as queued that is not, calls and their results stay together, the *)
(* agent holds what the session does, and continue() finds something to go *)
(* on from.                                                                *)
(*                                                                         *)
(* One call of prompt() is under way at a time (Alone), so the counter of  *)
(* retries changes hands in order.  A request has failed at most as often  *)
(* as that counter says before it is made, and once more at the end of its *)
(* run (Retrying): the end of the run either counts it or, when no retry   *)
(* is left, resets the counter; then continue() finds the failed answer at *)
(* the end of the messages and does not repeat the request.  That the      *)
(* counter is reset needs the session to have heard of the answer          *)
(* (Hearing), and that queued messages are delivered needs what is begun   *)
(* to have something to continue from (Going).                             *)
(*                                                                         *)
(* The messages and the branch change at different times: a message is in  *)
(* the one before the listener adds it to the other.  Both claims about    *)
(* them are of the branch with the message that is on its way (Told).      *)
(* Pairs adds where compactions may cut, Agrees that no two entries share  *)
(* the number of an answer: the answers that were dropped are named by it. *)
(* Of a batch of tool calls the results follow the answer one by one, and  *)
(* what was broken off is named by it too (Pairing).                       *)
(*                                                                         *)
(* Little can be said of the session once its handler failed or an event   *)
(* passed it by (Astray): the invariants are of what comes before, but for *)
(* the pairs of calls and results, which outlast a failure.                *)
(*                                                                         *)
(* What continue() finds is what a compaction has left at the end of the   *)
(* branch.  Ends says which answers may stand there: one that follows      *)
(* another follows one whose request was made again, and a failed one that *)
(* follows an overflow comes after the recovery, so that no second one is  *)
(* begun that would bring the first back.                                  *)
(***************************************************************************)
EXTENDS AgentSession, TLAPS, FiniteSetTheorems, WellFoundedInduction

Kinds == Texts \union Outcomes
           \union {"none", "aborted", "abortedLarge", "retryable", "fatal",
                   "overflow", "threshold", "manual"}
Roles == {"none", "user", "assistant", "toolResult", "bash", "summary"}
Entries == [id : Nat, role : Roles, kind : Kinds, keep : Nat, calls : Nat]
Users == {m \in Entries : m.role = "user"}
Places ==
  {"idle", "check", "ready", "running", "sleep", "cancelled", "compact", "continue"}
Phases ==
  {"none", "emit", "poll", "request", "tool", "pollEnd", "ending", "failing",
   "reported"}

\* The agent's messages are a sequence, of whatever a compaction has left.
IsSequence(s) == s \in Seq({s[i] : i \in DOMAIN s})

IsLocal(l) ==
  /\ l = [prompt |-> l.prompt, msg |-> l.msg, pre |-> l.pre,
          reason |-> l.reason, keep |-> l.keep]
  /\ l.prompt \in Entries
  /\ l.pre \in {"no", "check", "rounds"}
  /\ l.reason \in {"none", "overflow", "threshold"}
  /\ l.keep \in Nat

Locals ==
  /\ local = [p \in Callers |-> local[p]]
  /\ \A p \in Callers :
       /\ IsLocal(local[p])
       /\ pc[p] = "ready" \/ local[p].pre # "no" => local[p].prompt \in Users
       /\ pc[p] = "check" => local[p].pre = "check"

Buffers ==
  /\ IsSequence(messages)
  /\ branch \in Seq(Entries) /\ pendingBash \in Seq(Entries)

Types ==
  /\ Buffers /\ Locals
  /\ steering \in Seq(Users) /\ followUps \in Seq(Users) /\ outbox \in Seq(Users)
  /\ held \in Entries /\ lastAssistant \in Entries /\ batch \in Entries
  /\ phase \in Phases /\ after \in {"poll", "request"}
  /\ pc \in [Callers -> Places]
  /\ cpc \in {"idle", "waiting", "compacting"} /\ ckeep \in Nat
  /\ retryAttempt \in 0..MaxRetries
  /\ {drawn, failures, recoveries, results} \subseteq Nat
  /\ connected \in BOOLEAN /\ aborted \in BOOLEAN /\ crossed \in BOOLEAN
  /\ overflowTried \in BOOLEAN /\ handlerFailed \in BOOLEAN /\ early \in BOOLEAN

\* One call of prompt() at a time, which the run belongs to.
Alone ==
  /\ \A p, q \in Callers : pc[p] # "idle" /\ pc[q] # "idle" => p = q
  /\ phase # "none" => owner \in Callers /\ pc[owner] = "running"
  /\ phase = "none" => held = None /\ (handlerFailed \/ lastAssistant = None)
  /\ phase = "emit" => outbox # <<>>
  /\ phase # "tool" => results = 0
  /\ phase \in {"failing", "reported"} => handlerFailed
  /\ cpc = "compacting" /\ ~crossed => Quiet

\* The last answer of the run that the session knows or is told of.
LastHeard == IF held.role = "assistant" THEN held ELSE lastAssistant

\* What the session has heard of the run when it ends.
Hearing ==
  /\ held.role = "assistant" /\ ~IsError(held) => recoveries = 0
  /\ ~handlerFailed =>
       /\ held.role = "assistant" /\ ~IsError(held) => failures = 0
       /\ phase \in {"pollEnd", "ending"} /\ held # None => held.role = "assistant"
       /\ phase \notin {"none", "ending"} /\ ~connected
            /\ (held.role = "assistant" \/ lastAssistant # None) => aborted
       /\ phase = "ending" =>
            failures = 0 \/ LastHeard = None \/ IsRetryable(LastHeard)

\* How often the request may have failed that is made next.
Retrying ==
  /\ recoveries <= (IF overflowTried THEN 1 ELSE 0)
  /\ ~handlerFailed =>
       /\ failures <= MaxRetries + 1
       /\ phase \in {"tool", "pollEnd"} => failures = 0
       /\ phase \in {"poll", "request"} => failures <= retryAttempt
       /\ phase = "ending" =>
            /\ failures <= retryAttempt + 1
            /\ failures = 0 \/ LastOf(messages).role = "assistant"
       /\ \A p \in Callers :
            /\ pc[p] = "check" => failures = 0
            /\ pc[p] = "sleep" => failures <= retryAttempt
            /\ pc[p] \in {"compact", "continue"} =>
                 failures <= retryAttempt \/ LastOf(messages).role = "assistant"

\* There is something to send, and no answer at its end.
Unanswered == messages # <<>> /\ LastOf(messages).role # "assistant"

Answered ==
  /\ Len(messages) >= 2 /\ messages[Len(messages)].role = "assistant"
  /\ messages[Len(messages) - 1].role # "assistant"

\* The answer heard last needs no other: no error and no overflow.
Satisfied ==
  LastHeard # None /\ ~IsError(LastHeard) /\ ~IsOverflow(LastHeard)

\* What is begun goes on.
Begun ==
  /\ phase \in {"poll", "request"} => Unanswered
  /\ phase = "tool" =>
       /\ Satisfied
       /\ results > 0 => Unanswered
       /\ held.role = "assistant" \/ retryAttempt = 0
  /\ phase \in {"pollEnd", "ending"} =>
       /\ Answered \/ (Unanswered /\ Satisfied)
       /\ LastHeard # None
       /\ held = None => retryAttempt = 0 \/ IsError(lastAssistant)
  /\ \A p \in Callers :
       /\ pc[p] \in {"sleep", "cancelled"} => Unanswered
       /\ pc[p] = "continue" =>
            messages # <<>> /\ (retryAttempt > 0 => Unanswered)
       /\ pc[p] = "compact" => messages # <<>> \/ local[p].pre = "check"
  /\ Quiet => early \/ ~HasQueued
  /\ retryAttempt > 0 =>
       \E p \in Callers : pc[p] \in {"sleep", "cancelled", "continue", "running"}

\* Unless an event has passed the session by, or it failed to handle one.
Going == crossed \/ handlerFailed \/ Begun

IInv == Types /\ Alone /\ Hearing /\ Retrying /\ Going
-----------------------------------------------------------------------------
(* Sequences *)

LEMMA IsSequenceIntro ==
  ASSUME NEW S, NEW s \in Seq(S)
  PROVE  IsSequence(s)
BY DEF IsSequence

LEMMA AppendIs ==
  ASSUME NEW s, NEW m, IsSequence(s)
  PROVE  /\ IsSequence(Append(s, m))
         /\ Append(s, m) # <<>> /\ Len(Append(s, m)) = Len(s) + 1
         /\ LastOf(Append(s, m)) = m
         /\ Append(s, m)[Len(s) + 1] = m
         /\ s # <<>> => Len(s) >= 1 /\ Append(s, m)[Len(s)] = LastOf(s)
<1> DEFINE S == {s[i] : i \in DOMAIN s}
           T == S \union {m}
<1>1. s \in Seq(T)
  BY DEF IsSequence
<1> HIDE DEF T
<1>2. m \in T
  BY DEF T
<1>3. Append(s, m) \in Seq(T)
  BY <1>1, <1>2
<1>4. IsSequence(Append(s, m))
  BY <1>3, IsSequenceIntro
<1>5. /\ Len(s) \in Nat /\ Len(Append(s, m)) = Len(s) + 1
      /\ Append(s, m)[Len(s) + 1] = m
      /\ \A i \in 1..Len(s) : Append(s, m)[i] = s[i]
  BY <1>1, <1>2
<1>6. s # <<>> => Len(s) >= 1
  BY <1>1
<1>7. Append(s, m) # <<>>
  BY <1>3, <1>5
<1> QED
  BY <1>4, <1>5, <1>6, <1>7 DEF LastOf

LEMMA CatIs ==
  ASSUME NEW s, NEW t, IsSequence(s), IsSequence(t)
  PROVE  /\ IsSequence(s \o t)
         /\ s # <<>> => s \o t # <<>>
         /\ Len(s \o t) = Len(s) + Len(t)
<1> DEFINE T == {s[i] : i \in DOMAIN s} \union {t[i] : i \in DOMAIN t}
<1>1. s \in Seq(T) /\ t \in Seq(T)
  BY DEF IsSequence
<1> HIDE DEF T
<1>2. s \o t \in Seq(T)
  BY <1>1
<1>3. IsSequence(s \o t)
  BY <1>2, IsSequenceIntro
<1> QED
  BY <1>1, <1>2, <1>3

LEMMA CatBegins ==
  ASSUME NEW s, NEW t, NEW u, IsSequence(s), IsSequence(t), IsSequence(u),
         Len(s) = 1
  PROVE  Len((s \o t) \o u) >= 1 /\ ((s \o t) \o u)[1] = s[1]
<1> DEFINE T == {s[i] : i \in DOMAIN s} \union {t[i] : i \in DOMAIN t}
                  \union {u[i] : i \in DOMAIN u}
<1>1. s \in Seq(T) /\ t \in Seq(T) /\ u \in Seq(T)
  BY DEF IsSequence
<1> HIDE DEF T
<1>2. \A x \in Seq(T), y \in Seq(T) :
         Len(x) >= 1 => /\ x \o y \in Seq(T) /\ Len(x \o y) >= 1
                        /\ (x \o y)[1] = x[1]
  OBVIOUS
<1>3. s \o t \in Seq(T) /\ Len(s \o t) >= 1 /\ (s \o t)[1] = s[1]
  <2>1. Len(s) >= 1
    OBVIOUS
  <2> QED BY <1>1, <1>2, <2>1
<1> DEFINE v == s \o t
<1>4. v \in Seq(T) /\ Len(v) >= 1 /\ v[1] = s[1]
  BY <1>3
<1> HIDE DEF v
<1>5. Len(v \o u) >= 1 /\ (v \o u)[1] = v[1]
  BY <1>1, <1>2, <1>4
<1> QED
  BY <1>4, <1>5 DEF v

LEMMA WithoutAnswerIs ==
  ASSUME NEW s, IsSequence(s)
  PROVE  /\ IsSequence(WithoutAnswer(s))
         /\ Len(s) >= 2 => WithoutAnswer(s) # <<>>
         /\ LastOf(s).role # "assistant" => WithoutAnswer(s) = s
         /\ Len(s) >= 2 /\ s[Len(s)].role = "assistant"
              /\ s[Len(s) - 1].role # "assistant"
            => LastOf(WithoutAnswer(s)).role # "assistant"
<1> DEFINE T == {s[i] : i \in DOMAIN s}
<1>1. s \in Seq(T)
  BY DEF IsSequence
<1> HIDE DEF T
<1>2. SubSeq(s, 1, Len(s) - 1) \in Seq(T)
  BY <1>1
<1>3. Len(s) >= 2 => /\ Len(SubSeq(s, 1, Len(s) - 1)) = Len(s) - 1
                     /\ SubSeq(s, 1, Len(s) - 1)[Len(s) - 1] = s[Len(s) - 1]
  BY <1>1
<1>4. Len(s) >= 2 => /\ s # <<>> /\ SubSeq(s, 1, Len(s) - 1) # <<>>
                     /\ LastOf(s) = s[Len(s)]
                     /\ LastOf(SubSeq(s, 1, Len(s) - 1)) = s[Len(s) - 1]
  <2> SUFFICES ASSUME Len(s) >= 2
               PROVE  /\ s # <<>> /\ SubSeq(s, 1, Len(s) - 1) # <<>>
                      /\ LastOf(s) = s[Len(s)]
                      /\ LastOf(SubSeq(s, 1, Len(s) - 1)) = s[Len(s) - 1]
    OBVIOUS
  <2>1. s # <<>>
    BY <1>1
  <2>2. SubSeq(s, 1, Len(s) - 1) # <<>>
    BY <1>1, <1>2, <1>3
  <2> QED
    BY <2>1, <2>2, <1>3 DEF LastOf
<1>5. IsSequence(SubSeq(s, 1, Len(s) - 1))
  BY <1>2, IsSequenceIntro
<1> QED
  BY <1>1, <1>4, <1>5 DEF WithoutAnswer

LEMMA LastOfIs ==
  ASSUME NEW s, IsSequence(s), s # <<>>
  PROVE  Len(s) \in Nat /\ Len(s) >= 1 /\ LastOf(s) = s[Len(s)]
BY DEF IsSequence, LastOf

-----------------------------------------------------------------------------
(* The context *)

\* A set of positions that is not empty has a greatest one.
LEMMA GreatestExists ==
  ASSUME NEW n \in Nat, NEW S \in SUBSET (1..n), S # {}
  PROVE  \E i \in S : \A j \in S : j <= i
<1> DEFINE T == {n - i : i \in S}
<1>1. T \subseteq Nat /\ T # {}
  <2>1. \A i \in S : n - i \in Nat
    OBVIOUS
  <2> QED BY <2>1
<1>2. PICK x \in T : \A y \in T : ~(<<y, x>> \in OpToRel(<, Nat))
  <2> HIDE DEF T
  <2> QED BY <1>1, WFMin, NatLessThanWellFounded
<1>3. \A y \in T : x <= y
  <2> SUFFICES ASSUME NEW y \in T, y < x PROVE FALSE
    BY <1>1
  <2>1. <<y, x>> \in OpToRel(<, Nat)
    BY <1>1 DEF OpToRel
  <2> QED BY <1>2, <2>1
<1>4. PICK i \in S : x = n - i
  BY <1>2
<1>5. \A j \in S : x <= n - j
  BY <1>3
<1>6. \A j \in S : j <= i
  BY <1>4, <1>5
<1> QED
  BY <1>6

LEMMA LastSummaryIs ==
  ASSUME NEW b \in Seq(Entries)
  PROVE  /\ LastSummary(b) \in 0..Len(b)
         /\ LastSummary(b) # 0 => b[LastSummary(b)].role = "summary"
         /\ (\E i \in DOMAIN b : b[i].role = "summary") => LastSummary(b) # 0
<1> DEFINE at == {i \in DOMAIN b : b[i].role = "summary"}
<1>1. at \in SUBSET (1..Len(b)) /\ Len(b) \in Nat
  OBVIOUS
<1>2. CASE at = {}
  BY <1>1, <1>2 DEF LastSummary
<1>3. CASE at # {}
  <2>1. \E i \in at : \A j \in at : j <= i
    <3> HIDE DEF at
    <3> QED BY <1>1, <1>3, GreatestExists
  <2>2. LastSummary(b) \in at
    BY <1>3, <2>1 DEF LastSummary
  <2> QED
    BY <1>1, <2>2
<1> QED
  BY <1>2, <1>3

LEMMA KeepFromIs ==
  ASSUME NEW b \in Seq(Entries)
  PROVE  KeepFrom(b) \subseteq Nat
<1>1. LastSummary(b) # 0 => b[LastSummary(b)].keep \in Nat
  <2>1. LastSummary(b) \in 0..Len(b)
    BY LastSummaryIs
  <2>2. LastSummary(b) # 0 => b[LastSummary(b)] \in Entries
    BY <2>1
  <2> QED BY <2>2 DEF Entries
<1> QED
  BY <1>1, LastSummaryIs DEF KeepFrom

LEMMA KeptIs ==
  ASSUME NEW b, NEW first \in Int, NEW last \in Int
  PROVE  IsSequence(KeptOf(b, first, last))
<1> DEFINE kept == {i \in first..last : NotSummary(b[i])}
           val(n) == b[CHOOSE i \in kept : Cardinality({j \in kept : j <= i}) = n]
           N == Cardinality(kept)
<1>1. N \in Nat
  BY FS_Interval, FS_Subset, FS_CardinalityType
<1>2. KeptOf(b, first, last) = [n \in 1..N |-> val(n)]
  BY DEF KeptOf, Picked
<1>3. [n \in 1..N |-> val(n)] \in Seq({val(n) : n \in 1..N})
  <2> HIDE DEF N, val
  <2> QED BY <1>1
<1> QED
  BY <1>2, <1>3, IsSequenceIntro

LEMMA ContextIs ==
  ASSUME NEW b \in Seq(Entries)
  PROVE  /\ IsSequence(ContextOf(b))
         /\ LastSummary(b) # 0 =>
              Len(ContextOf(b)) >= 1 /\ ContextOf(b)[1].role = "summary"
<1> DEFINE c == LastSummary(b)
<1>1. CASE c = 0
  BY <1>1, IsSequenceIntro DEF ContextOf
<1>2. CASE c # 0
  <2>0. c \in 1..Len(b) /\ b[c].role = "summary"
    BY <1>2, LastSummaryIs
  <2>a. b[c] \in Entries
    BY <2>0
  <2>1. c \in 1..Len(b) /\ b[c].keep \in Nat /\ b[c] \in Entries
    BY <2>0, <2>a DEF Entries
  <2>2. IsSequence(KeptOf(b, b[c].keep, c - 1))
    BY <2>1, KeptIs
  <2>3. IsSequence(SubSeq(b, c + 1, Len(b)))
    <3>1. SubSeq(b, c + 1, Len(b)) \in Seq(Entries)
      BY <2>1
    <3> QED BY <3>1, IsSequenceIntro
  <2>4. IsSequence(<<b[c]>>)
    <3>1. <<b[c]>> \in Seq(Entries)
      BY <2>1
    <3> QED BY <3>1, IsSequenceIntro
  <2> DEFINE first == <<b[c]>>
             kept == KeptOf(b, b[c].keep, c - 1)
             rest == SubSeq(b, c + 1, Len(b))
  <2>5. ContextOf(b) = first \o kept \o rest
    BY <1>2 DEF ContextOf
  <2>6. IsSequence(first \o kept) /\ IsSequence(first \o kept \o rest)
    BY <2>2, <2>3, <2>4, CatIs
  <2>7. Len(first) = 1 /\ first[1] = b[c]
    OBVIOUS
  <2> HIDE DEF first, kept, rest
  <2>8. /\ Len((first \o kept) \o rest) >= 1
        /\ ((first \o kept) \o rest)[1] = first[1]
    BY <2>2, <2>3, <2>4, <2>7, CatIs, CatBegins DEF first, kept, rest
  <2> QED
    BY <2>0, <2>5, <2>6, <2>7, <2>8
<1> QED
  BY <1>1, <1>2
-----------------------------------------------------------------------------
(* What follows a run *)

\* A call goes on at a place.
GoesTo(p, place) ==
  /\ pc' = [pc EXCEPT ![p] = place]
  /\ Buffers' /\ Locals'

LEMMA FlushIs ==
  ASSUME Buffers, NEW msgs, IsSequence(msgs)
  PROVE  /\ IsSequence(msgs \o pendingBash)
         /\ branch \o pendingBash \in Seq(Entries)
         /\ <<>> \in Seq(Entries)
<1>1. IsSequence(pendingBash)
  BY IsSequenceIntro DEF Buffers
<1> QED
  BY <1>1, CatIs DEF Buffers

LEMMA LocalsSet ==
  ASSUME Locals, pc \in [Callers -> Places], NEW p \in Callers, NEW place \in Places,
         NEW l, IsLocal(l), pc' = [pc EXCEPT ![p] = place],
         local' = [local EXCEPT ![p] = l],
         place = "ready" \/ l.pre # "no" => l.prompt \in Users,
         place = "check" => l.pre = "check"
  PROVE  Locals'
BY DEF Locals, IsLocal

LEMMA LocalUpdate ==
  ASSUME NEW l, IsLocal(l)
  PROVE  /\ \A x \in {"no", "check", "rounds"} :
              /\ IsLocal([l EXCEPT !.pre = x])
              /\ [l EXCEPT !.pre = x].pre = x
              /\ [l EXCEPT !.pre = x].prompt = l.prompt
         /\ \A r \in {"none", "overflow", "threshold"}, k \in Nat :
              /\ IsLocal([l EXCEPT !.reason = r, !.keep = k])
              /\ [l EXCEPT !.reason = r, !.keep = k].pre = l.pre
              /\ [l EXCEPT !.reason = r, !.keep = k].prompt = l.prompt
<1>1. PICK a, b, c, d, e :
        l = [prompt |-> a, msg |-> b, pre |-> c, reason |-> d, keep |-> e]
  BY DEF IsLocal
<1>2. \A x : [l EXCEPT !.pre = x]
               = [prompt |-> a, msg |-> b, pre |-> x, reason |-> d, keep |-> e]
  BY <1>1
<1>4. \A r, k : [l EXCEPT !.reason = r, !.keep = k]
                  = [prompt |-> a, msg |-> b, pre |-> c, reason |-> r, keep |-> k]
  <2> TAKE r, k
  <2>1. [l EXCEPT !.reason = r]
          = [prompt |-> a, msg |-> b, pre |-> c, reason |-> r, keep |-> e]
    BY <1>1
  <2> DEFINE n == [l EXCEPT !.reason = r]
  <2>2. [n EXCEPT !.keep = k]
          = [prompt |-> a, msg |-> b, pre |-> c, reason |-> r, keep |-> k]
    <3> HIDE DEF n
    <3>1. n = [prompt |-> a, msg |-> b, pre |-> c, reason |-> r, keep |-> e]
      BY <2>1 DEF n
    <3> QED BY <3>1
  <2> QED BY <2>2
<1>5. /\ a \in Entries /\ c \in {"no", "check", "rounds"}
      /\ d \in {"none", "overflow", "threshold"} /\ e \in Nat
      /\ l.pre = c /\ l.prompt = a
  BY <1>1 DEF IsLocal
<1>6. \A x \in {"no", "check", "rounds"} :
        /\ IsLocal([l EXCEPT !.pre = x])
        /\ [l EXCEPT !.pre = x].pre = x
        /\ [l EXCEPT !.pre = x].prompt = l.prompt
  BY <1>2, <1>5 DEF IsLocal
<1>8. \A r \in {"none", "overflow", "threshold"}, k \in Nat :
        /\ IsLocal([l EXCEPT !.reason = r, !.keep = k])
        /\ [l EXCEPT !.reason = r, !.keep = k].pre = l.pre
        /\ [l EXCEPT !.reason = r, !.keep = k].prompt = l.prompt
  <2> TAKE r \in {"none", "overflow", "threshold"}, k \in Nat
  <2> DEFINE n == [l EXCEPT !.reason = r, !.keep = k]
  <2>1. n = [prompt |-> a, msg |-> b, pre |-> c, reason |-> r, keep |-> k]
    BY <1>4
  <2> HIDE DEF n
  <2>2. IsLocal(n) /\ n.pre = l.pre /\ n.prompt = l.prompt
    BY <1>5, <2>1 DEF IsLocal
  <2> QED BY <2>2 DEF n
<1> QED
  BY <1>6, <1>8

LEMMA MessageUpdate ==
  ASSUME NEW l, NEW m, IsLocal(l)
  PROVE  LET n == [l EXCEPT !.msg = m]
         IN IsLocal(n) /\ n.pre = l.pre /\ n.prompt = l.prompt
<1> DEFINE n == [l EXCEPT !.msg = m]
<1>1. n = [prompt |-> l.prompt, msg |-> m, pre |-> l.pre,
           reason |-> l.reason, keep |-> l.keep]
  BY DEF IsLocal
<1> HIDE DEF n
<1>2. IsLocal(n) /\ n.pre = l.pre /\ n.prompt = l.prompt
  BY <1>1 DEF IsLocal
<1> QED BY <1>2 DEF n

LEMMA NoLocalsIs == IsLocal(NoLocals) /\ NoLocals.pre = "no"
BY DEF IsLocal, NoLocals, None, Message, Entries, Roles, Kinds

LEMMA RoundsDoneIs ==
  ASSUME Types, NEW p \in Callers, NEW msgs, IsSequence(msgs),
         RoundsDone(p, msgs)
  PROVE  \E place \in {"ready", "idle"} : GoesTo(p, place)
<1>1. Buffers'
  BY FlushIs DEF RoundsDone, Types, Buffers
<1>2. CASE local[p].pre = "rounds"
  <2>1. local' = [local EXCEPT ![p] = [@ EXCEPT !.pre = "no"]]
    BY <1>2 DEF RoundsDone
  <2>2. IsLocal([local[p] EXCEPT !.pre = "no"])
    BY LocalUpdate DEF Types, Locals
  <2>3. [local[p] EXCEPT !.pre = "no"].prompt \in Users
    BY <1>2, LocalUpdate DEF Types, Locals
  <2>4. pc' = [pc EXCEPT ![p] = "ready"]
    BY <1>2 DEF RoundsDone, Goto
  <2>5. Locals'
    BY <2>1, <2>2, <2>3, <2>4, LocalsSet DEF Types, Places
  <2> QED
    BY <1>1, <2>4, <2>5 DEF GoesTo
<1>3. CASE local[p].pre # "rounds"
  <2>1. local' = [local EXCEPT ![p] = NoLocals] /\ pc' = [pc EXCEPT ![p] = "idle"]
    BY <1>3 DEF RoundsDone, Goto
  <2>2. Locals'
    BY <2>1, NoLocalsIs, LocalsSet DEF Types, Places
  <2> QED
    BY <1>1, <2>1, <2>2 DEF GoesTo
<1> QED
  BY <1>2, <1>3

LEMMA NotContinuedIs ==
  ASSUME Types, NEW p \in Callers, NEW msgs, IsSequence(msgs),
         NotContinued(p, msgs)
  PROVE  \E place \in {"ready", "continue", "idle"} :
           /\ GoesTo(p, place)
           /\ place = "continue" => HasQueued /\ messages' = msgs
           /\ place = "idle" => ~HasQueued
           /\ local[p].pre = "check" => place = "ready"
<1>1. CASE local[p].pre = "check"
  <2>1. local' = [local EXCEPT ![p] = [@ EXCEPT !.pre = "no"]]
    BY <1>1 DEF NotContinued
  <2>2. IsLocal([local[p] EXCEPT !.pre = "no"])
    BY LocalUpdate DEF Types, Locals
  <2>3. [local[p] EXCEPT !.pre = "no"].prompt \in Users
    BY <1>1, LocalUpdate DEF Types, Locals
  <2>4. pc' = [pc EXCEPT ![p] = "ready"]
    BY <1>1 DEF NotContinued, Goto
  <2>5. Locals'
    BY <2>1, <2>2, <2>3, <2>4, LocalsSet DEF Types, Places
  <2>6. Buffers'
    BY <1>1 DEF NotContinued, Types, Buffers
  <2> QED
    BY <2>4, <2>5, <2>6 DEF GoesTo
<1>2. CASE local[p].pre # "check" /\ HasQueued
  <2>1. /\ pc' = [pc EXCEPT ![p] = "continue"] /\ messages' = msgs
        /\ UNCHANGED <<branch, pendingBash, local>>
    BY <1>2 DEF NotContinued, Goto
  <2>2. Buffers' /\ Locals'
    BY <2>1 DEF Types, Buffers, Locals, IsLocal
  <2> QED
    BY <1>2, <2>1, <2>2 DEF GoesTo
<1>3. CASE local[p].pre # "check" /\ ~HasQueued
  BY <1>3, RoundsDoneIs DEF NotContinued
<1> QED
  BY <1>1, <1>2, <1>3

LEMMA CheckCompactionIs ==
  ASSUME Types, recoveries <= (IF overflowTried THEN 1 ELSE 0),
         NEW p \in Callers, NEW m, CheckCompaction(p, m)
  PROVE  /\ \E place \in {"ready", "continue", "idle", "compact"} :
              /\ GoesTo(p, place)
              /\ place = "idle" => ~HasQueued
              /\ place = "continue" => HasQueued
              /\ local[p].pre = "check" => place \in {"ready", "compact"}
              /\ place = "compact" => local'[p].pre = local[p].pre
              /\ place \in {"compact", "continue"} =>
                   \/ messages' = messages
                   \/ IsOverflow(m) /\ messages' = WithoutAnswer(messages)
         /\ recoveries' \in Nat /\ overflowTried' \in BOOLEAN
         /\ recoveries' <= (IF overflowTried' THEN 1 ELSE 0)
<1> DEFINE v == Verdict(p, m)
           msgs == IF v = "overflow" THEN WithoutAnswer(messages) ELSE messages
<1>1. v = "overflow" => IsOverflow(m) /\ ~overflowTried
  BY DEF Verdict
<1>2. v \in {"none", "overflow", "threshold"}
  BY DEF Verdict
<1>3. /\ overflowTried' = (overflowTried \/ v = "overflow")
      /\ \/ NotContinued(p, msgs) /\ UNCHANGED recoveries
         \/ /\ v # "none" /\ messages' = msgs
            /\ pc' = [pc EXCEPT ![p] = "compact"]
            /\ \E k \in KeepFrom(branch) :
                 local' = [local EXCEPT ![p].reason = v, ![p].keep = k]
            /\ recoveries' = IF v = "overflow" THEN recoveries + 1 ELSE recoveries
            /\ UNCHANGED <<branch, pendingBash>>
  BY DEF CheckCompaction, Goto
<1> HIDE DEF v
<1>4. /\ IsSequence(msgs)
      /\ \/ msgs = messages
         \/ IsOverflow(m) /\ msgs = WithoutAnswer(messages)
  <2>1. IsSequence(messages)
    BY DEF Types, Buffers
  <2>2. CASE v = "overflow"
    BY <1>1, <2>1, <2>2, WithoutAnswerIs
  <2>3. CASE v # "overflow"
    <3>1. msgs = messages
      BY <2>3
    <3> QED BY <2>1, <3>1
  <2> QED BY <2>2, <2>3
<1>5. /\ recoveries' \in Nat /\ overflowTried' \in BOOLEAN
      /\ recoveries' <= (IF overflowTried' THEN 1 ELSE 0)
  <2>1. UNCHANGED recoveries
          \/ recoveries' = IF v = "overflow" THEN recoveries + 1 ELSE recoveries
    BY <1>3
  <2> QED
    <3>1. CASE v = "overflow"
      <4>1. overflowTried' = TRUE /\ overflowTried = FALSE
        BY <1>1, <1>3, <3>1 DEF Types
      <4>2. recoveries' = recoveries \/ recoveries' = recoveries + 1
        BY <2>1
      <4>3. recoveries \in Nat /\ recoveries <= 0
        BY <4>1 DEF Types
      <4> QED BY <4>1, <4>2, <4>3
    <3>2. CASE v # "overflow"
      <4>1. overflowTried' = overflowTried
        BY <1>3, <3>2 DEF Types
      <4>2. recoveries' = recoveries
        BY <2>1, <3>2
      <4> QED BY <4>1, <4>2 DEF Types
    <3> QED BY <3>1, <3>2
<1> HIDE DEF msgs
<1>6. CASE NotContinued(p, msgs)
  BY <1>4, <1>5, <1>6, NotContinuedIs
<1>7. CASE /\ v # "none" /\ messages' = msgs
           /\ pc' = [pc EXCEPT ![p] = "compact"]
           /\ \E k \in KeepFrom(branch) :
                local' = [local EXCEPT ![p].reason = v, ![p].keep = k]
           /\ UNCHANGED <<branch, pendingBash>>
  <2>1. PICK k \in KeepFrom(branch) :
          local' = [local EXCEPT ![p].reason = v, ![p].keep = k]
    BY <1>7
  <2> DEFINE l == [local[p] EXCEPT !.reason = v, !.keep = k]
  <2>2. k \in Nat
    BY KeepFromIs DEF Types, Buffers
  <2>3. local' = [local EXCEPT ![p] = l]
    BY <2>1 DEF Types, Locals
  <2>4. IsLocal(l) /\ l.pre = local[p].pre /\ l.prompt = local[p].prompt
    <3>1. v \in {"none", "overflow", "threshold"} /\ IsLocal(local[p])
      BY <1>2 DEF Types, Locals
    <3>2. \A r \in {"none", "overflow", "threshold"}, i \in Nat :
            /\ IsLocal([local[p] EXCEPT !.reason = r, !.keep = i])
            /\ [local[p] EXCEPT !.reason = r, !.keep = i].pre = local[p].pre
            /\ [local[p] EXCEPT !.reason = r, !.keep = i].prompt = local[p].prompt
      BY <3>1, LocalUpdate
    <3> QED BY <3>1, <3>2, <2>2
  <2>5. Locals'
    <3> HIDE DEF l
    <3> QED BY <1>7, <2>3, <2>4, LocalsSet DEF Types, Places, Locals
  <2>6. Buffers'
    BY <1>4, <1>7 DEF Types, Buffers
  <2>7. local'[p].pre = local[p].pre
    <3> HIDE DEF l
    <3> QED BY <2>3, <2>4 DEF Types, Locals
  <2> QED
    BY <1>4, <1>5, <1>7, <2>5, <2>6, <2>7 DEF GoesTo
<1> QED
  BY <1>3, <1>6, <1>7
-----------------------------------------------------------------------------
(* The run *)

LEMMA NoneIs == None \in Entries /\ None.role = "none" /\ None.kind = "none"
BY DEF None, Message, Entries, Roles, Kinds

LEMMA NewIs ==
  ASSUME drawn \in Nat, NEW role \in Roles, NEW kind \in Kinds
  PROVE  /\ New(role, kind) \in Entries /\ New(role, kind) # None
         /\ New(role, kind).role = role /\ New(role, kind).kind = kind
BY DEF New, None, Message, Entries

LEMMA EmitKeeps ==
  ASSUME IInv, Emit
  PROVE  IInv'
<1> USE DEF agent, calls, run, shown, retry, compact, marks, history
<1> DEFINE m == Head(outbox)
<1>1. /\ phase = "emit" /\ outbox # <<>> /\ outbox \in Seq(Users)
      /\ IsSequence(messages)
  BY DEF IInv, Types, Alone, Emit, Buffers
<1>2. m \in Users /\ m \in Entries /\ m # None /\ m.role = "user"
  BY <1>1, NoneIs DEF Users
<1>3. /\ outbox' = Tail(outbox) /\ outbox' \in Seq(Users)
      /\ phase' = IF Len(outbox) = 1 THEN after ELSE "emit"
      /\ Len(outbox) # 1 => outbox' # <<>>
  <2>1. /\ outbox' = Tail(outbox)
        /\ phase' = IF Len(outbox) = 1 THEN after ELSE "emit"
    BY DEF Emit
  <2>2. Tail(outbox) \in Seq(Users) /\ Len(Tail(outbox)) = Len(outbox) - 1
    BY <1>1
  <2>3. Len(outbox) # 1 => Len(outbox') >= 1 /\ outbox' \in Seq(Users)
    BY <1>1, <2>1, <2>2
  <2>4. Len(outbox) # 1 => outbox' # <<>>
    BY <2>3
  <2> QED
    BY <2>1, <2>2, <2>4
<1>4. /\ messages' = Append(messages, m) /\ held = None
      /\ held' = (IF connected THEN m ELSE None)
      /\ crossed' = (crossed \/ ~connected)
      /\ overflowTried' = (overflowTried /\ ~connected)
      /\ failures' = 0 /\ recoveries' = 0
  BY DEF Emit, Emitted
<1>5. IsSequence(messages') /\ messages' # <<>> /\ LastOf(messages') = m
  BY <1>1, <1>4, AppendIs
<1>6. UNCHANGED <<steering, followUps, owner, after, aborted, branch, connected,
                  lastAssistant, retryAttempt, pendingBash, pc, local, compact,
                  drawn, batch, results, handlerFailed, early>>
  BY DEF Emit
<1> HIDE DEF m
<1>7. Buffers' /\ Locals'
  BY <1>5, <1>6 DEF IInv, Types, Buffers, Locals, IsLocal
<1>8. Types'
  BY <1>2, <1>3, <1>4, <1>6, <1>7, NoneIs DEF IInv, Types, Phases
<1>9. Alone'
  BY <1>1, <1>3, <1>4, <1>6 DEF IInv, Alone, Types, Quiet
<1>10. Hearing'
  BY <1>1, <1>2, <1>3, <1>4, <1>6, NoneIs
     DEF IInv, Hearing, Types, IsError, IsRetryable, LastHeard
<1>11. Retrying'
  BY <1>1, <1>3, <1>4, <1>5, <1>6, AgentSessionBounds
     DEF IInv, Retrying, Types, Alone
<1>12. Going'
  BY <1>1, <1>2, <1>3, <1>4, <1>5, <1>6
     DEF IInv, Going, Begun, Types, Alone, Unanswered, Quiet, HasQueued
<1> QED
  BY <1>8, <1>9, <1>10, <1>11, <1>12 DEF IInv

LEMMA HandleKeeps ==
  ASSUME IInv, Handle
  PROVE  IInv'
<1> USE DEF agent, calls, run, shown, retry, compact, marks, history
<1>1. /\ held # None /\ held' = None /\ phase # "none"
      /\ branch' = Append(branch, held)
      /\ UNCHANGED <<messages, steering, followUps, phase, owner, outbox, after,
                     aborted, connected, pendingBash, pc, local, cpc, cwait,
                     ckeep, drawn, crossed, failures, recoveries, batch, results,
                     handlerFailed, early>>
  BY DEF Handle, IInv, Alone
<1>2. CASE held.role = "assistant"
  <2>1. /\ lastAssistant' = held
        /\ overflowTried' = (overflowTried /\ IsError(held))
        /\ retryAttempt' = IF IsError(held) THEN retryAttempt ELSE 0
    BY <1>2 DEF Handle
  <2>2. Buffers' /\ Locals'
    BY <1>1 DEF IInv, Types, Buffers, Locals, IsLocal
  <2>3. Types'
    BY <1>1, <2>1, <2>2, NoneIs, AgentSessionBounds DEF IInv, Types, IsError
  <2>4. Alone'
    BY <1>1 DEF IInv, Alone, Quiet
  <2>5. Hearing'
    BY <1>1, <1>2, <2>1, NoneIs DEF IInv, Hearing, Types, IsError, IsRetryable, LastHeard
  <2>6. ~IsError(held) => (handlerFailed \/ failures = 0) /\ recoveries = 0
    BY <1>2 DEF IInv, Hearing
  <2>7. Retrying'
    BY <1>1, <1>2, <2>1, <2>6 DEF IInv, Retrying, Types, Alone, IsError
  <2>8. Going'
    <3>1. SUFFICES ASSUME ~crossed, ~handlerFailed PROVE Begun'
      BY <1>1 DEF Going
    <3>2. Begun
      BY <3>1 DEF IInv, Going
    <3>3. LastHeard' = held /\ LastHeard = held
      BY <1>1, <1>2, <2>1, NoneIs DEF LastHeard
    <3>4. Satisfied' <=> Satisfied
      BY <3>3 DEF Satisfied, IsError, IsOverflow
    <3>5. /\ Unanswered' <=> Unanswered
          /\ Answered' <=> Answered
          /\ Quiet' <=> Quiet
          /\ HasQueued' <=> HasQueued
      BY <1>1 DEF Unanswered, Answered, Quiet, HasQueued
    <3>6. /\ retryAttempt' \in {0, retryAttempt}
          /\ retryAttempt' = 0 \/ IsError(held)
          /\ Satisfied => retryAttempt' = 0
      BY <2>1, <3>3 DEF Satisfied
    <3>7. held # None
      BY <1>1
    <3> HIDE DEF agent, calls, run, shown, retry, compact, marks, history
    <3> QED
      <4>1. /\ phase \in {"poll", "request"} => Unanswered
            /\ phase = "tool" => Satisfied /\ (results > 0 => Unanswered)
            /\ phase \in {"pollEnd", "ending"} =>
                 Answered \/ (Unanswered /\ Satisfied)
        BY <3>2 DEF Begun
      <4>2. \A p \in Callers :
              /\ pc[p] \in {"sleep", "cancelled"} => Unanswered
              /\ pc[p] = "continue" => messages # <<>>
              /\ pc[p] = "compact" => messages # <<>> \/ local[p].pre = "check"
              /\ pc[p] = "continue" /\ retryAttempt > 0 => Unanswered
        BY <3>2 DEF Begun
      <4>3. /\ Quiet => early \/ ~HasQueued
            /\ retryAttempt > 0 =>
                 \E p \in Callers :
                   pc[p] \in {"sleep", "cancelled", "continue", "running"}
        BY <3>2 DEF Begun
      <4> QED
        BY <1>1, <2>1, <3>3, <3>4, <3>5, <3>6, <3>7, <4>1, <4>2, <4>3 DEF Begun
  <2> QED
    BY <2>3, <2>4, <2>5, <2>7, <2>8 DEF IInv
<1>3. CASE held.role # "assistant"
  <2>1. UNCHANGED <<lastAssistant, overflowTried, retryAttempt>>
    BY <1>3 DEF Handle
  <2>2. handlerFailed \/ phase \notin {"pollEnd", "ending"}
    BY <1>1, <1>3 DEF IInv, Hearing
  <2>3. Buffers' /\ Locals'
    BY <1>1 DEF IInv, Types, Buffers, Locals, IsLocal
  <2>4. Types'
    BY <1>1, <2>1, <2>3, NoneIs DEF IInv, Types
  <2>5. Alone'
    BY <1>1 DEF IInv, Alone, Quiet
  <2>6. Hearing'
    BY <1>1, <1>3, <2>1, <2>2, NoneIs DEF IInv, Hearing, LastHeard
  <2>7. Retrying'
    BY <1>1, <2>1 DEF IInv, Retrying
  <2>8. Going'
    BY <1>1, <1>3, <2>1, <2>2, NoneIs
       DEF IInv, Going, Begun, Satisfied, Unanswered, Answered, Quiet, HasQueued,
           LastHeard
  <2> QED
    BY <2>4, <2>5, <2>6, <2>7, <2>8 DEF IInv
<1> QED
  BY <1>2, <1>3

LEMMA PollKeeps ==
  ASSUME IInv, Poll
  PROVE  IInv'
<1> USE DEF agent, calls, run, shown, retry, compact, marks, history
<1>1. /\ held = None /\ phase \in {"poll", "pollEnd"}
      /\ UNCHANGED <<messages, owner, aborted, held, branch, connected,
                     lastAssistant, retryAttempt, overflowTried, pendingBash, pc,
                     local, cpc, cwait, ckeep, drawn, crossed, failures,
                     recoveries, batch, results, handlerFailed, early>>
  BY DEF Poll
<1>2. steering \in Seq(Users) /\ followUps \in Seq(Users)
  BY DEF IInv, Types
<1>3. \/ /\ phase' = "emit" /\ after' = "request" /\ outbox' # <<>>
         /\ outbox' \in Seq(Users)
         /\ steering' \in Seq(Users) /\ followUps' \in Seq(Users)
      \/ /\ phase = "poll" /\ phase' = "request"
         /\ UNCHANGED <<outbox, after, steering, followUps>>
      \/ /\ phase = "pollEnd" /\ phase' = "ending"
         /\ UNCHANGED <<outbox, after, steering, followUps>>
  <2>1. \A q \in Seq(Users) :
          q # <<>> => /\ Tail(q) \in Seq(Users)
                      /\ <<Head(q)>> \in Seq(Users) /\ <<Head(q)>> # <<>>
    OBVIOUS
  <2> QED
    BY <1>1, <1>2, <2>1 DEF Poll, Deliver
<1>4. Buffers' /\ Locals'
  BY <1>1 DEF IInv, Types, Buffers, Locals, IsLocal
<1>5. Types'
  BY <1>1, <1>3, <1>4 DEF IInv, Types, Phases
<1>6. Alone'
  BY <1>1, <1>3 DEF IInv, Alone, Quiet
<1>7. Hearing'
  BY <1>1, <1>3 DEF IInv, Hearing, Retrying, LastHeard
<1>8. Retrying'
  BY <1>1, <1>3 DEF IInv, Retrying, Types
<1>9. Going'
  <2>1. ~Quiet /\ ~Quiet' /\ phase # "none"
    BY <1>1 DEF IInv, Alone, Quiet
  <2>2. \A p \in Callers : pc[p] \in {"check", "compact"} => FALSE
    BY <1>1, <2>1 DEF IInv, Alone
  <2> QED
    BY <1>1, <1>3, <2>1, <2>2
       DEF IInv, Going, Begun, Satisfied, Unanswered, Answered, LastHeard
<1> QED
  BY <1>5, <1>6, <1>7, <1>8, <1>9 DEF IInv

LEMMA AnswerIs ==
  ASSUME drawn \in Nat, NEW kind \in Kinds, NEW n \in Nat
  PROVE  LET m == [New("assistant", kind) EXCEPT !.calls = n]
         IN /\ m \in Entries /\ m # None
            /\ m.role = "assistant" /\ m.kind = kind /\ m.calls = n
            /\ m.id = drawn + 1
<1> DEFINE o == New("assistant", kind)
<1>1. o = [id |-> drawn + 1, role |-> "assistant", kind |-> kind, keep |-> 0,
           calls |-> 0]
  BY DEF New, Message
<1> HIDE DEF o
<1> DEFINE m == [o EXCEPT !.calls = n]
<1>2. m = [id |-> drawn + 1, role |-> "assistant", kind |-> kind, keep |-> 0,
           calls |-> n]
  BY <1>1
<1> HIDE DEF m
<1>3. /\ m \in Entries /\ m.role = "assistant" /\ m.kind = kind
      /\ m.calls = n /\ m.id = drawn + 1
  BY <1>2 DEF Entries, Roles
<1>4. m # None
  BY <1>3, NoneIs
<1> QED
  BY <1>3, <1>4 DEF m, o

LEMMA AnswerKeeps ==
  ASSUME IInv, Answer
  PROVE  IInv'
<1> USE DEF agent, calls, run, shown, retry, compact, marks, history
<1>0. PICK kind \in IF aborted THEN {"aborted", "abortedLarge"} ELSE Outcomes :
        \E n \in IF kind \in {"ok", "large"} THEN 0..MaxCalls ELSE {0} :
          LET m == [New("assistant", kind) EXCEPT !.calls = n]
          IN /\ Emitted(m)
             /\ phase' = CASE n > 0 -> "tool"
                         [] IsError(m) \/ IsAborted(m) -> "ending"
                         [] OTHER -> "pollEnd"
             /\ batch' = IF n > 0 THEN m ELSE None
             /\ failures' = IF IsRetryable(m) THEN failures + 1 ELSE 0
             /\ recoveries' = IF IsError(m) THEN recoveries ELSE 0
  BY DEF Answer
<1>1. PICK n \in IF kind \in {"ok", "large"} THEN 0..MaxCalls ELSE {0} :
        LET m == [New("assistant", kind) EXCEPT !.calls = n]
        IN /\ Emitted(m)
           /\ phase' = CASE n > 0 -> "tool"
                       [] IsError(m) \/ IsAborted(m) -> "ending"
                       [] OTHER -> "pollEnd"
           /\ batch' = IF n > 0 THEN m ELSE None
           /\ failures' = IF IsRetryable(m) THEN failures + 1 ELSE 0
           /\ recoveries' = IF IsError(m) THEN recoveries ELSE 0
  BY <1>0
<1> DEFINE m == [New("assistant", kind) EXCEPT !.calls = n]
<1>2. /\ phase = "request" /\ drawn' = drawn + 1
      /\ UNCHANGED <<steering, followUps, owner, outbox, after, aborted, branch,
                     connected, lastAssistant, retryAttempt, overflowTried,
                     pendingBash, pc, local, cpc, cwait, ckeep, results,
                     handlerFailed, early>>
  BY DEF Answer
<1>3. /\ m \in Entries /\ m # None /\ m.role = "assistant" /\ m.kind = kind
      /\ n > 0 => kind \in {"ok", "large"}
  <2>1. kind \in Kinds /\ n \in Nat
    BY AgentSessionBounds DEF Kinds
  <2>2. drawn \in Nat
    BY DEF IInv, Types
  <2> QED BY <2>1, <2>2, AnswerIs
<1> HIDE DEF m
<1>4. /\ messages' = Append(messages, m) /\ held = None
      /\ held' = (IF connected THEN m ELSE None)
      /\ crossed' = (crossed \/ ~connected)
  BY <1>1 DEF Emitted, m
<1>5. /\ phase' \in {"tool", "pollEnd", "ending"}
      /\ batch' \in {m, None}
      /\ failures' = IF m.kind = "retryable" THEN failures + 1 ELSE 0
      /\ recoveries' = IF IsError(m) THEN recoveries ELSE 0
      /\ m.kind = "retryable" => phase' = "ending" /\ IsError(m)
      /\ phase' = "tool" => ~IsError(m) /\ ~IsOverflow(m)
  BY <1>1, <1>3 DEF m, IsError, IsRetryable, IsOverflow
<1>6. IsSequence(messages)
  BY DEF IInv, Types, Buffers
<1>7. /\ IsSequence(messages') /\ messages' # <<>> /\ LastOf(messages') = m
      /\ Len(messages') = Len(messages) + 1 /\ messages'[Len(messages')] = m
      /\ messages # <<>> => /\ Len(messages) >= 1
                            /\ messages'[Len(messages)] = LastOf(messages)
  BY <1>4, <1>6, AppendIs
<1>8. Len(messages) \in Nat
  BY <1>6 DEF IsSequence
<1>9. /\ handlerFailed \/ failures <= retryAttempt
      /\ retryAttempt \in 0..MaxRetries /\ failures \in Nat /\ results = 0
  BY <1>2 DEF IInv, Retrying, Types, Alone
<1>10. Buffers' /\ Locals'
  BY <1>2, <1>7 DEF IInv, Types, Buffers, Locals, IsLocal
<1>11. Types'
  BY <1>2, <1>3, <1>4, <1>5, <1>10, NoneIs DEF IInv, Types, Phases
<1>12. Alone'
  BY <1>2, <1>4, <1>5, <1>9 DEF IInv, Alone, Quiet
<1>13. /\ ~handlerFailed /\ ~connected /\ lastAssistant # None =>
            aborted /\ m.kind # "retryable"
       /\ aborted => m.kind \in {"aborted", "abortedLarge"}
  BY <1>1, <1>2, <1>3 DEF IInv, Hearing
<1>14. Hearing'
  BY <1>2, <1>3, <1>4, <1>5, <1>13, NoneIs
     DEF IInv, Hearing, LastHeard, IsRetryable, IsError, Types
<1>15. Retrying'
  <2>1. ~handlerFailed =>
          /\ failures' <= retryAttempt + 1 /\ failures' <= MaxRetries + 1
          /\ phase' \in {"tool", "pollEnd"} => failures' = 0
    BY <1>5, <1>9, AgentSessionBounds
  <2>2. recoveries' <= (IF overflowTried THEN 1 ELSE 0)
    BY <1>5 DEF IInv, Retrying
  <2>3. LastOf(messages').role = "assistant"
    BY <1>3, <1>7
  <2>4. \A p \in Callers : pc[p] # "idle" => pc[p] = "running"
    BY <1>2 DEF IInv, Alone
  <2> QED
    BY <1>2, <1>5, <1>9, <2>1, <2>2, <2>3, <2>4 DEF Retrying
<1>16. Going'
  <2>1. \A p \in Callers : pc[p] # "idle" => pc[p] = "running"
    BY <1>2 DEF IInv, Alone
  <2>2. ~Quiet' /\ owner \in Callers /\ pc[owner] = "running"
    BY <1>2 DEF IInv, Alone, Quiet
  <2>3. SUFFICES ASSUME ~crossed', ~handlerFailed PROVE Begun'
    BY <1>2 DEF Going
  <2>4. ~crossed /\ connected
    BY <1>4, <2>3 DEF IInv, Types
  <2>5. Answered' /\ held' = m
    BY <1>2, <1>3, <1>4, <1>7, <1>8, <2>3, <2>4
       DEF IInv, Going, Begun, Unanswered, Answered
  <2> QED
    BY <1>2, <1>3, <1>5, <1>9, <2>1, <2>2, <2>5 DEF Begun, Satisfied, LastHeard
<1> QED
  BY <1>11, <1>12, <1>14, <1>15, <1>16 DEF IInv

LEMMA ToolResultKeeps ==
  ASSUME IInv, ToolResult
  PROVE  IInv'
<1> USE DEF agent, calls, run, shown, retry, compact, marks, history
<1> DEFINE m == New("toolResult", "none")
<1>1. /\ phase = "tool" /\ Emitted(m)
      /\ drawn' = drawn + 1 /\ results' = results + 1
      /\ UNCHANGED <<steering, followUps, phase, owner, outbox, after, aborted,
                     batch, branch, connected, lastAssistant, retryAttempt,
                     overflowTried, pendingBash, pc, local, cpc, cwait, ckeep,
                     failures, recoveries, handlerFailed, early>>
  BY DEF ToolResult
<1>2. m \in Entries /\ m # None /\ m.role = "toolResult"
  BY NewIs DEF Kinds, Roles, IInv, Types
<1> HIDE DEF m
<1>3. /\ messages' = Append(messages, m) /\ held = None
      /\ held' = (IF connected THEN m ELSE None)
      /\ crossed' = (crossed \/ ~connected)
  BY <1>1 DEF Emitted
<1>4. IsSequence(messages') /\ messages' # <<>> /\ LastOf(messages') = m
  BY <1>3, AppendIs DEF IInv, Types, Buffers
<1>5. Buffers' /\ Locals'
  BY <1>1, <1>4 DEF IInv, Types, Buffers, Locals, IsLocal
<1>6. Types'
  BY <1>1, <1>2, <1>3, <1>5, NoneIs DEF IInv, Types
<1>7. Alone'
  BY <1>1, <1>3 DEF IInv, Alone, Quiet
<1>8. Hearing'
  BY <1>1, <1>2, <1>3, NoneIs DEF IInv, Hearing, LastHeard
<1>9. \A p \in Callers : pc[p] # "idle" => pc[p] = "running"
  BY <1>1 DEF IInv, Alone
<1>10. Retrying'
  BY <1>1, <1>9 DEF IInv, Retrying, Types
<1>11. Going'
  <2>1. ~Quiet' /\ owner \in Callers /\ pc[owner] = "running"
    BY <1>1 DEF IInv, Alone, Quiet
  <2> QED
    BY <1>1, <1>2, <1>3, <1>4, <1>9, <2>1, NoneIs
       DEF IInv, Going, Begun, Satisfied, LastHeard, Unanswered, Types
<1> QED
  BY <1>6, <1>7, <1>8, <1>10, <1>11 DEF IInv

LEMMA BatchEndsKeeps ==
  ASSUME IInv, BatchEnds
  PROVE  IInv'
<1> USE DEF agent, calls, run, shown, retry, compact, marks, history
<1>1. /\ phase = "tool" /\ held = None /\ results > 0
      /\ phase' \in {"poll", "pollEnd"} /\ batch' = None /\ results' = 0
      /\ UNCHANGED <<messages, steering, followUps, owner, outbox, after, aborted,
                     held, branch, connected, lastAssistant, retryAttempt,
                     overflowTried, pendingBash, pc, local, cpc, cwait, ckeep,
                     drawn, crossed, failures, recoveries, handlerFailed, early>>
  BY DEF BatchEnds
<1>2. Buffers' /\ Locals'
  BY <1>1 DEF IInv, Types, Buffers, Locals, IsLocal
<1>3. Types'
  BY <1>1, <1>2, NoneIs DEF IInv, Types, Phases
<1>4. Alone'
  BY <1>1 DEF IInv, Alone, Quiet
<1>5. Hearing'
  BY <1>1 DEF IInv, Hearing, LastHeard
<1>6. Retrying'
  BY <1>1 DEF IInv, Retrying, Types
<1>7. Going'
  BY <1>1, NoneIs
     DEF IInv, Going, Begun, Satisfied, Alone, Quiet, LastHeard, Unanswered, HasQueued
<1> QED
  BY <1>3, <1>4, <1>5, <1>6, <1>7 DEF IInv

\* From here on only the bounds and the one call of prompt() are kept.
LEMMA HandlerFailsKeeps ==
  ASSUME IInv, HandlerFails
  PROVE  IInv'
<1> USE DEF agent, calls, run, shown, retry, compact, marks, history
<1>1. /\ phase # "none" /\ phase' = "failing" /\ held' = None /\ outbox' = <<>>
      /\ handlerFailed' = TRUE /\ batch' = None /\ results' = 0
      /\ UNCHANGED <<messages, steering, followUps, owner, after, aborted,
                     connected, retryAttempt, pendingBash, pc, local, cpc, cwait,
                     ckeep, drawn, crossed, failures, early>>
  BY DEF HandlerFails, Active
<1>2. \/ /\ branch' \in {branch, Append(branch, held)}
         /\ UNCHANGED recoveries
         /\ \/ UNCHANGED <<lastAssistant, overflowTried>>
            \/ /\ held.role = "assistant" /\ ~IsError(held)
               /\ lastAssistant' = held /\ overflowTried' = FALSE
      \/ /\ UNCHANGED <<branch, lastAssistant>>
         /\ \/ UNCHANGED <<overflowTried, recoveries>>
            \/ overflowTried' = FALSE /\ recoveries' = 0
  BY DEF HandlerFails, Unfinished, Unheard
<1>3. branch' \in Seq(Entries)
  <2>1. branch \in Seq(Entries) /\ held \in Entries
    BY DEF IInv, Types, Buffers
  <2>2. Append(branch, held) \in Seq(Entries)
    BY <2>1
  <2> QED BY <1>2, <2>1, <2>2
<1>4. Buffers' /\ Locals'
  BY <1>1, <1>3 DEF IInv, Types, Buffers, Locals, IsLocal
<1>5. Types'
  <2>0. /\ lastAssistant \in Entries /\ held \in Entries
        /\ overflowTried \in BOOLEAN /\ recoveries \in Nat
    BY DEF IInv, Types
  <2>a. /\ lastAssistant' \in {lastAssistant, held}
        /\ recoveries' = recoveries \/ recoveries' = 0
        /\ overflowTried' = overflowTried \/ overflowTried' = FALSE
    BY <1>2
  <2>b. lastAssistant' \in Entries /\ recoveries' \in Nat
    BY <2>0, <2>a
  <2>1. /\ lastAssistant' \in Entries /\ overflowTried' \in BOOLEAN
        /\ recoveries' \in Nat
    BY <2>0, <2>a, <2>b
  <2>2. <<>> \in Seq(Users)
    OBVIOUS
  <2> QED BY <1>1, <1>4, <2>1, <2>2, NoneIs DEF IInv, Types, Phases
<1>6. Alone'
  BY <1>1 DEF IInv, Alone, Quiet
<1>7. Hearing'
  BY <1>1, NoneIs DEF Hearing
<1>8. Retrying'
  <2>1. recoveries <= (IF overflowTried THEN 1 ELSE 0)
    BY DEF IInv, Retrying
  <2>2. held.role = "assistant" /\ ~IsError(held) => recoveries = 0
    BY DEF IInv, Hearing
  <2>3. recoveries' <= (IF overflowTried' THEN 1 ELSE 0)
    BY <1>2, <2>1, <2>2
  <2> QED BY <1>1, <2>3 DEF Retrying
<1>9. Going'
  BY <1>1 DEF Going
<1> QED
  BY <1>5, <1>6, <1>7, <1>8, <1>9 DEF IInv

LEMMA ReportKeeps ==
  ASSUME IInv, Report
  PROVE  IInv'
<1> USE DEF agent, calls, run, shown, retry, compact, marks, history
<1>1. PICK kind \in {"aborted", "retryable", "fatal"} :
        /\ Emitted(New("assistant", kind))
        /\ recoveries' = IF IsError(New("assistant", kind)) THEN recoveries ELSE 0
  BY DEF Report
<1> DEFINE m == New("assistant", kind)
<1>2. /\ phase = "failing" /\ phase' = "reported" /\ drawn' = drawn + 1
      /\ UNCHANGED <<steering, followUps, owner, outbox, after, aborted, batch,
                     results, branch, connected, lastAssistant, retryAttempt,
                     overflowTried, pendingBash, pc, local, cpc, cwait, ckeep,
                     failures, handlerFailed, early>>
  BY DEF Report
<1>3. m \in Entries /\ m # None /\ m.role = "assistant" /\ drawn \in Nat
  BY NewIs DEF Kinds, Roles, IInv, Types
<1>4. /\ messages' = Append(messages, m) /\ held' = (IF connected THEN m ELSE None)
      /\ crossed' = (crossed \/ ~connected)
      /\ recoveries' = IF IsError(m) THEN recoveries ELSE 0
  BY <1>1 DEF Emitted
<1> HIDE DEF m
<1>5. handlerFailed
  BY <1>2 DEF IInv, Alone
<1>6. IsSequence(messages')
  BY <1>4, AppendIs DEF IInv, Types, Buffers
<1>7. Buffers' /\ Locals'
  BY <1>2, <1>6 DEF IInv, Types, Buffers, Locals, IsLocal
<1>8. Types'
  BY <1>2, <1>3, <1>4, <1>7, NoneIs DEF IInv, Types, Phases
<1>9. Alone'
  BY <1>2, <1>4, <1>5 DEF IInv, Alone, Quiet
<1>10. Hearing'
  BY <1>2, <1>4, <1>5, NoneIs DEF Hearing
<1>11. Retrying'
  BY <1>2, <1>4, <1>5 DEF IInv, Retrying
<1>12. Going'
  BY <1>2, <1>5 DEF Going
<1> QED
  BY <1>8, <1>9, <1>10, <1>11, <1>12 DEF IInv
-----------------------------------------------------------------------------
(* After the run *)

\* While a call is anywhere, no other is, and none runs unless it does.
LEMMA OnlyOne ==
  ASSUME IInv, NEW p \in Callers, pc[p] # "idle"
  PROVE  /\ \A q \in Callers : q # p => pc[q] = "idle"
         /\ pc[p] # "running" =>
              /\ phase = "none" /\ held = None
              /\ handlerFailed \/ lastAssistant = None
BY DEF IInv, Alone

\* A call goes on to another place with the run over.
LEMMA GoesOn ==
  ASSUME IInv, NEW p \in Callers, pc[p] # "idle",
         NEW place \in {"ready", "continue", "idle", "compact", "sleep"},
         GoesTo(p, place),
         phase' = "none", held' = None,
         lastAssistant' \in Entries, handlerFailed \/ lastAssistant' = None,
         UNCHANGED <<steering, followUps, outbox, after, connected, cpc, ckeep,
                     crossed, batch, handlerFailed, early>>,
         results' = 0,
         aborted' \in BOOLEAN, drawn' \in Nat, retryAttempt' \in 0..MaxRetries,
         failures' \in Nat,
         overflowTried' \in BOOLEAN, recoveries' \in Nat,
         recoveries' <= (IF overflowTried' THEN 1 ELSE 0),
         ~handlerFailed =>
           /\ failures' <= MaxRetries + 1
           /\ place = "sleep" => failures' <= retryAttempt'
           /\ place \in {"compact", "continue"} =>
                failures' <= retryAttempt' \/ LastOf(messages').role = "assistant",
         ~crossed /\ ~handlerFailed =>
           /\ place = "sleep" => Unanswered'
           /\ place = "continue" =>
                messages' # <<>> /\ (retryAttempt' > 0 => Unanswered')
           /\ place = "compact" => messages' # <<>> \/ local'[p].pre = "check"
           /\ place = "idle" => ~HasQueued
           /\ retryAttempt' > 0 => place \in {"sleep", "continue"}
  PROVE  IInv'
<1>1. /\ \A q \in Callers : q # p => pc[q] = "idle"
      /\ pc \in [Callers -> Places]
  BY OnlyOne DEF IInv, Types
<1>2. /\ pc'[p] = place /\ \A q \in Callers : q # p => pc'[q] = "idle"
      /\ pc' \in [Callers -> Places] /\ Buffers' /\ Locals'
  BY <1>1 DEF GoesTo, Places
<1>3. Types'
  BY <1>2, NoneIs DEF IInv, Types, Phases
<1>4. Alone'
  <2>1. cpc = "compacting" => crossed
    BY DEF IInv, Alone, Quiet
  <2> QED
    BY <1>2, <2>1 DEF Alone
<1>5. Hearing'
  BY NoneIs DEF Hearing
<1>6. Retrying'
  BY <1>2 DEF Retrying
<1>7. Going'
  <2>1. SUFFICES ASSUME ~crossed, ~handlerFailed PROVE Begun'
    BY DEF Going
  <2>2. \A q \in Callers :
          /\ pc'[q] \in {"sleep", "cancelled"} => Unanswered'
          /\ pc'[q] = "continue" =>
               messages' # <<>> /\ (retryAttempt' > 0 => Unanswered')
          /\ pc'[q] = "compact" => messages' # <<>> \/ local'[q].pre = "check"
    BY <1>2, <2>1
  <2>3. Quiet' => ~HasQueued'
    BY <1>2, <2>1 DEF Quiet, HasQueued
  <2>4. retryAttempt' > 0 => pc'[p] \in {"sleep", "continue"}
    BY <1>2, <2>1
  <2> QED
    BY <2>2, <2>3, <2>4 DEF Begun
<1> QED
  BY <1>3, <1>4, <1>5, <1>6, <1>7 DEF IInv

LEMMA EndRunKeeps ==
  ASSUME IInv, EndRun
  PROVE  IInv'
<1> USE DEF agent, calls, run, shown, retry, compact, marks, history
<1> DEFINE p == owner
           m == lastAssistant
<1>0. phase \in {"ending", "reported"}
  BY DEF EndRun
<1>1. /\ phase = "ending" \/ handlerFailed
      /\ held = None /\ phase' = "none" /\ aborted' = FALSE
      /\ lastAssistant' = None /\ lastAssistant' \in Entries /\ results' = 0
      /\ UNCHANGED <<steering, followUps, outbox, after, held, connected, cpc,
                     ckeep, drawn, crossed, failures, batch, handlerFailed, early>>
  BY <1>0, NoneIs DEF EndRun, IInv, Alone
<1>2. p \in Callers /\ pc[p] = "running" /\ Types
  BY <1>0 DEF IInv, Alone
<1>3. /\ ~handlerFailed =>
           /\ failures <= retryAttempt + 1 /\ failures <= MaxRetries + 1
           /\ failures = 0 \/ LastOf(messages).role = "assistant"
           /\ failures = 0 \/ m = None \/ IsRetryable(m)
      /\ recoveries <= (IF overflowTried THEN 1 ELSE 0)
      /\ failures \in Nat /\ retryAttempt \in 0..MaxRetries
  BY <1>1, NoneIs DEF IInv, Retrying, Hearing, LastHeard, Types
<1>4. ~crossed /\ ~handlerFailed =>
        /\ Answered \/ (Unanswered /\ ~IsError(m) /\ ~IsOverflow(m))
        /\ m # None /\ (retryAttempt = 0 \/ IsError(m))
  BY <1>1, NoneIs DEF IInv, Going, Begun, Satisfied, LastHeard
<1>5. IsSequence(messages)
  BY <1>2 DEF Types, Buffers
<1>6. Answered => WithoutAnswer(messages) # <<>>
                  /\ LastOf(WithoutAnswer(messages)).role # "assistant"
  BY <1>5, WithoutAnswerIs DEF Answered
<1>7. CASE m = None
  <2>1. /\ RoundsDone(p, messages)
        /\ UNCHANGED <<retryAttempt, overflowTried, recoveries>>
    <3>1. ~RetriesLeft(m)
      BY <1>7, NoneIs DEF RetriesLeft, IsRetryable
    <3> QED BY <1>7, <3>1 DEF EndRun
  <2>2. PICK place \in {"ready", "idle"} : GoesTo(p, place)
    BY <1>2, <1>5, <2>1, RoundsDoneIs
  <2> QED
    BY <1>1, <1>2, <1>3, <1>4, <1>7, <2>1, <2>2, GoesOn DEF IInv, Types
<1>8. CASE m # None /\ RetriesLeft(m)
  <2>1. PrepareRetry(p, m)
    BY <1>8 DEF EndRun
  <2>2. /\ retryAttempt' = retryAttempt + 1 /\ messages' = WithoutAnswer(messages)
        /\ pc' = [pc EXCEPT ![p] = "sleep"]
        /\ local' = [local EXCEPT ![p].msg = m]
        /\ UNCHANGED <<branch, pendingBash, overflowTried, recoveries>>
    BY <2>1 DEF PrepareRetry, Goto
  <2>3. retryAttempt < MaxRetries
    BY <1>8 DEF RetriesLeft
  <2>4. Buffers'
    BY <1>5, <2>2, WithoutAnswerIs DEF IInv, Types, Buffers
  <2>5. Locals'
    <3> DEFINE l == [local[p] EXCEPT !.msg = m]
    <3>1. IsLocal(l) /\ l.pre = local[p].pre /\ l.prompt = local[p].prompt
      <4> DEFINE old == local[p]
      <4>1. IsLocal(old)
        BY <1>2 DEF Types, Locals
      <4> HIDE DEF old, m, p
      <4>2. LET n == [old EXCEPT !.msg = m]
            IN IsLocal(n) /\ n.pre = old.pre /\ n.prompt = old.prompt
        BY <4>1, MessageUpdate
      <4> QED BY <4>2 DEF old
    <3>2. local' = [local EXCEPT ![p] = l]
      BY <2>2
    <3> HIDE DEF l
    <3> QED
      BY <1>2, <2>2, <3>1, <3>2, LocalsSet DEF Types, Places, Locals
  <2>6. GoesTo(p, "sleep")
    BY <2>2, <2>4, <2>5 DEF GoesTo
  <2>7. retryAttempt' \in 0..MaxRetries
        /\ (~handlerFailed => failures' <= retryAttempt')
    BY <1>1, <1>3, <2>2, <2>3, AgentSessionBounds
  <2>8. ~crossed /\ ~handlerFailed => Unanswered'
    <3>1. IsError(m)
      BY <1>8 DEF RetriesLeft, IsRetryable, IsError
    <3> QED BY <1>4, <1>6, <2>2, <3>1 DEF Unanswered
  <2> QED
    BY <1>1, <1>2, <1>3, <2>2, <2>6, <2>7, <2>8, GoesOn DEF IInv, Types
<1>9. CASE m # None /\ ~RetriesLeft(m)
  <2>1. /\ retryAttempt' = IF IsError(m) THEN 0 ELSE retryAttempt
        /\ CheckCompaction(p, m)
    BY <1>9 DEF EndRun
  <2>2. /\ recoveries' \in Nat /\ overflowTried' \in BOOLEAN
        /\ recoveries' <= (IF overflowTried' THEN 1 ELSE 0)
    BY <1>2, <1>3, <2>1, CheckCompactionIs
  <2>3. PICK place \in {"ready", "continue", "idle", "compact"} :
          /\ GoesTo(p, place)
          /\ place = "idle" => ~HasQueued
          /\ place \in {"compact", "continue"} =>
               \/ messages' = messages
               \/ IsOverflow(m) /\ messages' = WithoutAnswer(messages)
    BY <1>2, <1>3, <2>1, CheckCompactionIs
  <2>4. /\ retryAttempt' \in 0..MaxRetries
        /\ ~crossed /\ ~handlerFailed => retryAttempt' = 0
    BY <1>3, <1>4, <2>1, AgentSessionBounds
  <2>5. ~handlerFailed /\ IsOverflow(m) => failures = 0
    BY <1>3, <1>9 DEF IsOverflow, IsRetryable
  <2>6. ~handlerFailed /\ place \in {"compact", "continue"} =>
          failures' <= retryAttempt' \/ LastOf(messages').role = "assistant"
    BY <1>1, <1>3, <2>3, <2>4, <2>5
  <2>7. ~crossed /\ ~handlerFailed /\ place \in {"compact", "continue"} =>
          messages' # <<>>
    <3>1. Answered \/ Unanswered => messages # <<>>
      BY <1>5 DEF Answered, Unanswered, IsSequence
    <3> QED
      BY <1>4, <1>6, <2>3, <3>1
  <2>8. aborted' \in BOOLEAN /\ drawn' \in Nat /\ failures' \in Nat
        /\ (~handlerFailed => failures' <= MaxRetries + 1)
    BY <1>1, <1>2, <1>3 DEF Types
  <2>9. ~crossed /\ ~handlerFailed =>
           /\ place = "continue" =>
                messages' # <<>> /\ (retryAttempt' > 0 => Unanswered')
           /\ place = "compact" => messages' # <<>>
           /\ place = "idle" => ~HasQueued
           /\ retryAttempt' > 0 => place \in {"sleep", "continue"}
    BY <2>3, <2>4, <2>7
  <2> QED
    BY <1>1, <1>2, <2>2, <2>3, <2>4, <2>6, <2>8, <2>9, GoesOn
<1> QED
  BY <1>7, <1>8, <1>9

LEMMA ReportFailsKeeps ==
  ASSUME IInv, ReportFails
  PROVE  IInv'
<1> USE DEF agent, calls, run, shown, retry, compact, marks, history
<1>1. /\ phase \in {"failing", "reported"} /\ held' = None /\ phase' = "none"
      /\ aborted' = FALSE /\ handlerFailed' = TRUE
      /\ UNCHANGED <<steering, followUps, outbox, after, batch, results, connected,
                     lastAssistant, retryAttempt, overflowTried, cpc, ckeep, drawn,
                     crossed, failures, recoveries, early>>
  BY DEF ReportFails
<1>2. /\ handlerFailed /\ owner \in Callers /\ pc[owner] = "running"
      /\ results = 0 /\ Types
  BY <1>1 DEF IInv, Alone
<1>3. PICK b \in {branch} \union {Append(branch, m) : m \in {held} \ {None}} :
        Throws(owner, b)
  BY DEF ReportFails
<1>4. b \in Seq(Entries)
  <2>1. branch \in Seq(Entries) /\ held \in Entries
    BY <1>2 DEF Types, Buffers
  <2>2. Append(branch, held) \in Seq(Entries)
    BY <2>1
  <2> QED BY <2>1, <2>2
<1>5. /\ messages' = messages \o pendingBash /\ branch' = b \o pendingBash
      /\ pendingBash' = <<>> /\ pc' = [pc EXCEPT ![owner] = "idle"]
      /\ local' = [local EXCEPT ![owner] = NoLocals]
  BY <1>3 DEF Throws, Goto
<1>6. Buffers'
  <2>1. IsSequence(messages) /\ pendingBash \in Seq(Entries) /\ Buffers
    BY <1>2 DEF Types, Buffers
  <2>2. IsSequence(messages \o pendingBash)
    BY <2>1, FlushIs
  <2>3. b \o pendingBash \in Seq(Entries) /\ <<>> \in Seq(Entries)
    BY <1>4, <2>1
  <2> QED BY <1>5, <2>2, <2>3 DEF Buffers
<1>7. Locals'
  BY <1>2, <1>5, NoLocalsIs, LocalsSet DEF Types, Places
<1>8. GoesTo(owner, "idle")
  BY <1>5, <1>6, <1>7 DEF GoesTo
<1>9. recoveries <= (IF overflowTried THEN 1 ELSE 0)
  BY DEF IInv, Retrying
<1>10. lastAssistant' \in Entries /\ drawn' \in Nat /\ failures' \in Nat
       /\ recoveries' \in Nat /\ overflowTried' \in BOOLEAN
       /\ retryAttempt' \in 0..MaxRetries
  BY <1>1, <1>2 DEF Types
<1> QED
  BY <1>1, <1>2, <1>8, <1>9, <1>10, GoesOn

LEMMA WakeKeeps ==
  ASSUME IInv, NEW p \in Callers, Wake(p)
  PROVE  IInv'
<1> USE DEF agent, calls, run, shown, retry, compact, marks, history
<1>1. /\ pc[p] = "sleep" /\ pc' = [pc EXCEPT ![p] = "continue"]
      /\ UNCHANGED <<agent, run, held, branch, connected, retry, pendingBash,
                     local, compact, drawn, crossed, failures, recoveries,
                     handlerFailed, early>>
  BY DEF Wake, Goto
<1>2. /\ phase = "none" /\ held = None /\ results = 0 /\ Types
      /\ handlerFailed \/ lastAssistant = None
  BY <1>1, OnlyOne DEF IInv, Alone
<1>3. GoesTo(p, "continue")
  <2>1. Buffers' /\ IsLocal(local[p])
    BY <1>1, <1>2 DEF Types, Buffers, Locals
  <2>2. Locals'
    BY <1>1, <1>2 DEF Types, Locals, IsLocal
  <2> QED BY <1>1, <2>1, <2>2 DEF GoesTo
<1>4. /\ ~handlerFailed => failures <= retryAttempt /\ failures <= MaxRetries + 1
      /\ recoveries <= (IF overflowTried THEN 1 ELSE 0)
  BY <1>1 DEF IInv, Retrying
<1>5. ~crossed /\ ~handlerFailed => Unanswered'
  BY <1>1 DEF IInv, Going, Begun, Unanswered
<1> QED
  BY <1>1, <1>2, <1>3, <1>4, <1>5, GoesOn DEF IInv, Types, Unanswered

LEMMA RetryCancelledKeeps ==
  ASSUME IInv, NEW p \in Callers, RetryCancelled(p)
  PROVE  IInv'
<1> USE DEF agent, calls, run, shown, retry, compact, marks, history
<1> DEFINE m == local[p].msg
<1>1. /\ pc[p] = "cancelled" /\ retryAttempt' = 0 /\ failures' = 0
      /\ CheckCompaction(p, m)
      /\ UNCHANGED <<steering, followUps, run, held, connected, lastAssistant,
                     compact, drawn, crossed, handlerFailed, early>>
  BY DEF RetryCancelled
<1>2. /\ phase = "none" /\ held = None /\ results = 0 /\ Types
      /\ handlerFailed \/ lastAssistant = None
  BY <1>1, OnlyOne DEF IInv, Alone
<1>3. recoveries <= (IF overflowTried THEN 1 ELSE 0)
  BY DEF IInv, Retrying
<1>4. /\ recoveries' \in Nat /\ overflowTried' \in BOOLEAN
      /\ recoveries' <= (IF overflowTried' THEN 1 ELSE 0)
  BY <1>1, <1>2, <1>3, CheckCompactionIs
<1>5. PICK place \in {"ready", "continue", "idle", "compact"} :
        /\ GoesTo(p, place)
        /\ place = "idle" => ~HasQueued
        /\ place \in {"compact", "continue"} =>
             \/ messages' = messages
             \/ IsOverflow(m) /\ messages' = WithoutAnswer(messages)
  BY <1>1, <1>2, <1>3, CheckCompactionIs
<1>6. ~crossed /\ ~handlerFailed /\ place \in {"compact", "continue"} =>
        messages' # <<>>
  <2>1. ~crossed /\ ~handlerFailed => Unanswered
    BY <1>1 DEF IInv, Going, Begun
  <2>2. Unanswered => WithoutAnswer(messages) = messages
    BY DEF Unanswered, WithoutAnswer
  <2> QED BY <1>5, <2>1, <2>2 DEF Unanswered
<1> QED
  BY <1>1, <1>2, <1>4, <1>5, <1>6, AgentSessionBounds, GoesOn DEF IInv, Types

LEMMA PreCheckKeeps ==
  ASSUME IInv, NEW p \in Callers, PreCheck(p)
  PROVE  IInv'
<1> USE DEF agent, calls, run, shown, retry, compact, marks, history
<1>1. /\ pc[p] = "check" /\ CheckCompaction(p, local[p].msg)
      /\ UNCHANGED <<steering, followUps, run, held, connected, lastAssistant,
                     retryAttempt, compact, drawn, crossed, failures,
                     handlerFailed, early>>
  BY DEF PreCheck
<1>2. /\ phase = "none" /\ held = None /\ results = 0 /\ Types
      /\ handlerFailed \/ lastAssistant = None
      /\ local[p].pre = "check"
  BY <1>1, OnlyOne DEF IInv, Alone, Types, Locals
<1>3. /\ recoveries <= (IF overflowTried THEN 1 ELSE 0)
      /\ handlerFailed \/ failures = 0
  BY <1>1 DEF IInv, Retrying
<1>4. /\ recoveries' \in Nat /\ overflowTried' \in BOOLEAN
      /\ recoveries' <= (IF overflowTried' THEN 1 ELSE 0)
  BY <1>1, <1>2, <1>3, CheckCompactionIs
<1>5. PICK place \in {"ready", "compact"} :
        /\ GoesTo(p, place)
        /\ place = "compact" => local'[p].pre = "check"
  BY <1>1, <1>2, <1>3, CheckCompactionIs
<1>6. ~crossed /\ ~handlerFailed => retryAttempt = 0
  <2>1. ~crossed /\ ~handlerFailed => ~(retryAttempt > 0)
    BY <1>1, OnlyOne DEF IInv, Going, Begun
  <2> QED BY <1>2, <2>1, AgentSessionBounds DEF Types
<1>7. /\ aborted' \in BOOLEAN /\ drawn' \in Nat /\ retryAttempt' \in 0..MaxRetries
      /\ failures' \in Nat /\ lastAssistant' \in Entries
  BY <1>1, <1>2 DEF Types
<1> QED
  BY <1>1, <1>2, <1>3, <1>4, <1>5, <1>6, <1>7, AgentSessionBounds, GoesOn

LEMMA AutoCompactedKeeps ==
  ASSUME IInv, NEW p \in Callers, AutoCompacted(p)
  PROVE  IInv'
<1> USE DEF agent, calls, run, shown, retry, compact, marks, history
<1> DEFINE e == [New("summary", local[p].reason) EXCEPT !.keep = local[p].keep]
           context == ContextOf(Append(branch, e))
           failed == LastOf(context).role = "assistant" /\ IsError(LastOf(context))
           retries == local[p].reason = "overflow"
           msgs == IF retries /\ failed THEN WithoutAnswer(context) ELSE context
           goesOn == retries \/ HasQueued
           flush == ~goesOn /\ local[p].pre # "check"
           place == IF goesOn THEN "continue"
                    ELSE IF local[p].pre # "no" THEN "ready" ELSE "idle"
<1>1. /\ pc[p] = "compact" /\ drawn' = drawn + 1 /\ failures' = 0
      /\ branch' = Append(branch, e) \o (IF flush THEN pendingBash ELSE <<>>)
      /\ messages' = msgs \o (IF flush THEN pendingBash ELSE <<>>)
      /\ pendingBash' = IF flush THEN <<>> ELSE pendingBash
      /\ pc' = [pc EXCEPT ![p] = place]
      /\ local' = [local EXCEPT
                     ![p] = IF goesOn \/ local[p].pre # "no" THEN @ ELSE NoLocals,
                     ![p].pre = IF goesOn /\ local[p].pre = "check" THEN "rounds"
                                ELSE IF goesOn THEN @ ELSE "no"]
      /\ UNCHANGED <<steering, followUps, run, held, connected, retry, compact,
                     crossed, recoveries, handlerFailed, early>>
  BY DEF AutoCompacted, Goto
<1>2. /\ phase = "none" /\ held = None /\ results = 0 /\ Types
      /\ handlerFailed \/ lastAssistant = None
      /\ branch \in Seq(Entries) /\ pendingBash \in Seq(Entries)
      /\ IsLocal(local[p])
      /\ local[p].pre # "no" => local[p].prompt \in Users
  BY <1>1, OnlyOne DEF IInv, Alone, Types, Buffers, Locals
<1>3. e \in Entries /\ e.role = "summary"
  <2> DEFINE n == New("summary", local[p].reason)
  <2>1. local[p].reason \in Kinds /\ "summary" \in Roles /\ local[p].keep \in Nat
    BY <1>2 DEF IsLocal, Kinds, Roles
  <2>2. n \in Entries /\ n.role = "summary"
    BY <1>2, <2>1, NewIs DEF Types
  <2> HIDE DEF n
  <2>3. [n EXCEPT !.keep = local[p].keep] \in Entries
        /\ [n EXCEPT !.keep = local[p].keep].role = "summary"
    BY <2>1, <2>2 DEF Entries
  <2> QED BY <2>3 DEF n
<1> HIDE DEF e
<1> DEFINE b == Append(branch, e)
<1>4. b \in Seq(Entries) /\ \E i \in DOMAIN b : b[i].role = "summary"
  <2>1. b \in Seq(Entries) /\ Len(b) = Len(branch) + 1 /\ Len(branch) \in Nat
        /\ b[Len(branch) + 1] = e
    BY <1>2, <1>3
  <2>2. Len(branch) + 1 \in DOMAIN b
    BY <2>1
  <2> QED BY <1>3, <2>1, <2>2
<1>5. /\ IsSequence(context) /\ Len(context) >= 1
      /\ context[1].role = "summary"
  <2> HIDE DEF b
  <2>1. LastSummary(b) # 0
    BY <1>4, LastSummaryIs
  <2> QED BY <1>4, <2>1, ContextIs DEF b
<1> HIDE DEF context
<1>6. IsSequence(msgs) /\ msgs # <<>>
  <2>1. context # <<>>
    BY <1>5 DEF IsSequence
  <2>2. Len(context) \in Nat /\ LastOf(context) = context[Len(context)]
    BY <1>5, <2>1, LastOfIs
  <2>3. failed => Len(context) >= 2
    <3>1. failed => Len(context) # 1
      BY <1>5, <2>2
    <3> QED BY <1>5, <2>2, <3>1
  <2>4. IsSequence(WithoutAnswer(context))
        /\ (Len(context) >= 2 => WithoutAnswer(context) # <<>>)
    BY <1>5, WithoutAnswerIs
  <2> QED BY <1>5, <2>1, <2>3, <2>4
<1> HIDE DEF msgs, failed, b
<1>7. Buffers'
  <2>1. IsSequence(pendingBash)
    BY <1>2, IsSequenceIntro
  <2>2. <<>> \in Seq(Entries)
    OBVIOUS
  <2>3. IsSequence(<<>>)
    BY <2>2, IsSequenceIntro
  <2>4. IsSequence(messages')
    BY <1>1, <1>6, <2>1, <2>3, CatIs
  <2>5. branch' \in Seq(Entries)
    <3>1. branch' = b \o (IF flush THEN pendingBash ELSE <<>>)
      BY <1>1 DEF b
    <3> QED BY <1>2, <1>4, <2>2, <3>1
  <2>6. pendingBash' \in Seq(Entries)
    BY <1>1, <1>2, <2>2
  <2> QED BY <2>4, <2>5, <2>6 DEF Buffers
<1>8. Locals'
  <2> DEFINE old == IF goesOn \/ local[p].pre # "no" THEN local[p] ELSE NoLocals
             pre == IF goesOn /\ local[p].pre = "check" THEN "rounds"
                    ELSE IF goesOn THEN old.pre ELSE "no"
             l == [old EXCEPT !.pre = pre]
  <2>1. local' = [local EXCEPT ![p] = l]
    BY <1>1, <1>2 DEF Types, Locals
  <2>2. IsLocal(old)
    BY <1>2, NoLocalsIs
  <2>3. pre \in {"no", "check", "rounds"}
    BY <1>2, <2>2 DEF IsLocal
  <2>4. /\ place = "ready" \/ pre # "no" => old.prompt \in Users
        /\ place # "check"
    BY <1>2
  <2> HIDE DEF old, pre
  <2>5. IsLocal(l) /\ l.pre = pre /\ l.prompt = old.prompt
    BY <2>2, <2>3, LocalUpdate
  <2>6. place \in Places
    BY DEF Places
  <2> HIDE DEF l, place
  <2>7. pc \in [Callers -> Places] /\ Locals
    BY <1>2 DEF Types
  <2> QED
    BY <1>1, <2>1, <2>4, <2>5, <2>6, <2>7, LocalsSet
<1>9. ~crossed /\ ~handlerFailed => retryAttempt = 0
  <2>1. ~crossed /\ ~handlerFailed => ~(retryAttempt > 0)
    BY <1>1, OnlyOne DEF IInv, Going, Begun
  <2> QED BY <1>2, <2>1, AgentSessionBounds DEF Types
<1>10. place = "continue" => messages' # <<>>
  <2>1. goesOn => messages' = msgs \o <<>>
    BY <1>1
  <2>2. msgs \o <<>> = msgs
    BY <1>6 DEF IsSequence
  <2> QED BY <1>6, <2>1, <2>2
<1>11. recoveries <= (IF overflowTried THEN 1 ELSE 0)
  BY DEF IInv, Retrying
<1>12. GoesTo(p, place)
  BY <1>1, <1>7, <1>8 DEF GoesTo
<1>13. place \in {"ready", "continue", "idle"}
       /\ (place = "idle" => ~HasQueued)
  OBVIOUS
<1> HIDE DEF place
<1>14. /\ aborted' \in BOOLEAN /\ drawn' \in Nat /\ retryAttempt' \in 0..MaxRetries
       /\ overflowTried' \in BOOLEAN /\ recoveries' \in Nat
       /\ lastAssistant' \in Entries
  BY <1>1, <1>2 DEF Types
<1>15. /\ phase' = "none" /\ held' = None /\ failures' = 0
       /\ results' = 0 /\ (handlerFailed \/ lastAssistant' = None)
       /\ UNCHANGED <<steering, followUps, outbox, after, connected, cpc, ckeep,
                      crossed, batch, handlerFailed, early>>
  BY <1>1, <1>2
<1> QED
  BY <1>1, <1>9, <1>10, <1>11, <1>12, <1>13, <1>14, <1>15, AgentSessionBounds,
     GoesOn

LEMMA AutoCompactFailsKeeps ==
  ASSUME IInv, NEW p \in Callers, AutoCompactFails(p)
  PROVE  IInv'
<1> USE DEF agent, calls, run, shown, retry, compact, marks, history
<1>1. /\ pc[p] = "compact" /\ NotContinued(p, messages)
      /\ UNCHANGED <<steering, followUps, run, held, connected, retry, compact,
                     drawn, crossed, failures, recoveries, handlerFailed, early>>
  BY DEF AutoCompactFails
<1>2. /\ phase = "none" /\ held = None /\ results = 0 /\ Types
      /\ handlerFailed \/ lastAssistant = None
      /\ IsSequence(messages)
  BY <1>1, OnlyOne DEF IInv, Alone, Types, Buffers
<1>3. PICK place \in {"ready", "continue", "idle"} :
        /\ GoesTo(p, place)
        /\ place = "continue" => HasQueued /\ messages' = messages
        /\ place = "idle" => ~HasQueued
        /\ local[p].pre = "check" => place = "ready"
  BY <1>1, <1>2, NotContinuedIs
<1>4. ~crossed /\ ~handlerFailed =>
        retryAttempt = 0 /\ (messages # <<>> \/ local[p].pre = "check")
  <2>1. ~crossed /\ ~handlerFailed =>
          ~(retryAttempt > 0) /\ (messages # <<>> \/ local[p].pre = "check")
    BY <1>1, OnlyOne DEF IInv, Going, Begun
  <2> QED BY <1>2, <2>1, AgentSessionBounds DEF Types
<1>5. /\ ~handlerFailed =>
           /\ failures <= retryAttempt \/ LastOf(messages).role = "assistant"
           /\ failures <= MaxRetries + 1
      /\ recoveries <= (IF overflowTried THEN 1 ELSE 0)
  BY <1>1 DEF IInv, Retrying
<1> QED
  BY <1>1, <1>2, <1>3, <1>4, <1>5, AgentSessionBounds, GoesOn DEF Types

-----------------------------------------------------------------------------
(* Calls *)

\* A call starts a run: with prompts, or where something is left to answer.
LEMMA Starts ==
  ASSUME IInv, NEW p \in Callers, pc[p] \notin {"idle", "running"},
         pc' = [pc EXCEPT ![p] = "running"],
         NEW prompts \in Seq(Users), NEW then \in {"poll", "request"},
         StartRun(p, prompts, then),
         prompts = <<>> =>
           /\ then = "poll" /\ messages # <<>>
           /\ LastOf(messages).role # "assistant",
         Buffers', Locals', messages' = messages,
         steering' \in Seq(Users), followUps' \in Seq(Users),
         pc[p] = "continue" \/ prompts # <<>>,
         UNCHANGED <<held, connected, lastAssistant, retryAttempt, overflowTried,
                     cpc, ckeep, drawn, crossed, failures, recoveries,
                     handlerFailed, early>>
  PROVE  IInv'
<1>1. /\ \A q \in Callers : q # p => pc[q] = "idle"
      /\ pc \in [Callers -> Places] /\ Types /\ results = 0
      /\ held = None /\ (handlerFailed \/ lastAssistant = None)
  BY OnlyOne DEF IInv, Alone, Types
<1>2. /\ owner' = p /\ aborted' = FALSE /\ outbox' = prompts /\ after' = then
      /\ phase' = IF prompts = <<>> THEN then ELSE "emit"
      /\ UNCHANGED <<batch, results>>
  BY DEF StartRun, calls
<1>3. /\ pc'[p] = "running" /\ \A q \in Callers : q # p => pc'[q] = "idle"
      /\ pc' \in [Callers -> Places]
  BY <1>1 DEF Places
<1>4. Types'
  BY <1>1, <1>2, <1>3 DEF Types, Phases
<1>5. Alone'
  <2>1. cpc = "compacting" => crossed
    BY DEF IInv, Alone, Quiet
  <2> QED
    BY <1>1, <1>2, <1>3, <2>1 DEF Alone
<1>6. Hearing'
  BY <1>1, <1>2, NoneIs DEF Hearing
<1>7. Retrying'
  <2>1. ~handlerFailed /\ phase' = "poll" => failures <= retryAttempt
    BY <1>2 DEF IInv, Retrying
  <2> QED
    BY <1>2, <1>3, <2>1 DEF IInv, Retrying
<1>8. Going'
  BY <1>2, <1>3 DEF Going, Begun, Unanswered, Quiet
<1> QED
  BY <1>4, <1>5, <1>6, <1>7, <1>8 DEF IInv

LEMMA ContinueKeeps ==
  ASSUME IInv, NEW p \in Callers, Continue(p)
  PROVE  IInv'
<1> USE DEF agent, calls, run, shown, retry, compact, marks, history
<1> DEFINE answered == LastOf(messages).role = "assistant"
<1>1. /\ pc[p] = "continue"
      /\ UNCHANGED <<held, connected, lastAssistant, retryAttempt, overflowTried,
                     cpc, ckeep, drawn, crossed, failures, recoveries,
                     handlerFailed, early>>
  BY DEF Continue
<1>2. /\ phase = "none" /\ held = None /\ results = 0 /\ Types
      /\ handlerFailed \/ lastAssistant = None
      /\ ~Active /\ IsSequence(messages)
      /\ steering \in Seq(Users) /\ followUps \in Seq(Users)
  BY <1>1, OnlyOne DEF IInv, Alone, Types, Buffers, Active
<1>3. \A q \in Seq(Users) :
        q # <<>> => /\ Tail(q) \in Seq(Users)
                    /\ <<Head(q)>> \in Seq(Users) /\ <<Head(q)>> # <<>>
  OBVIOUS
<1>4. ~crossed /\ ~handlerFailed =>
        messages # <<>> /\ (retryAttempt > 0 => ~answered)
  BY <1>1 DEF IInv, Going, Begun, Unanswered
<1>5. CASE messages = <<>> \/ (answered /\ ~HasQueued)
  <2>1. Throws(p, branch) /\ UNCHANGED <<steering, followUps, run>>
    <3>1. CASE messages = <<>>
      <4>1. ~answered
        BY <3>1, NoneIs DEF LastOf
      <4> QED BY <1>2, <3>1, <4>1 DEF Continue
    <3>2. CASE messages # <<>> /\ answered /\ ~HasQueued
      BY <1>2, <3>2 DEF Continue, HasQueued
    <3> QED BY <1>5, <3>1, <3>2
  <2>2. /\ messages' = messages \o pendingBash /\ branch' = branch \o pendingBash
        /\ pendingBash' = <<>> /\ pc' = [pc EXCEPT ![p] = "idle"]
        /\ local' = [local EXCEPT ![p] = NoLocals]
    BY <2>1 DEF Throws, Goto
  <2>3. Buffers'
    BY <1>2, <2>2, FlushIs DEF Types, Buffers
  <2>4. Locals'
    BY <1>2, <2>2, NoLocalsIs, LocalsSet DEF Types, Places
  <2>5. GoesTo(p, "idle")
    BY <2>2, <2>3, <2>4 DEF GoesTo
  <2>6. /\ ~handlerFailed => failures <= MaxRetries + 1
        /\ recoveries <= (IF overflowTried THEN 1 ELSE 0)
    BY DEF IInv, Retrying
  <2>7. ~crossed /\ ~handlerFailed => ~HasQueued /\ ~(retryAttempt > 0)
    BY <1>4, <1>5
  <2> QED
    BY <1>1, <1>2, <2>1, <2>5, <2>6, <2>7, GoesOn DEF Types
<1>6. CASE messages # <<>> /\ ~(answered /\ ~HasQueued)
  <2>1. PICK prompts \in Seq(Users), then \in {"poll", "request"} :
          /\ StartRun(p, prompts, then) /\ pc' = [pc EXCEPT ![p] = "running"]
          /\ prompts = <<>> => then = "poll" /\ ~answered
          /\ steering' \in Seq(Users) /\ followUps' \in Seq(Users)
          /\ UNCHANGED <<messages, branch, pendingBash, local>>
    <3>1. CASE answered /\ steering # <<>>
      <4>1. StartRun(p, <<Head(steering)>>, "request") /\ steering' = Tail(steering)
            /\ pc' = [pc EXCEPT ![p] = "running"]
            /\ UNCHANGED <<messages, branch, pendingBash, followUps, local>>
        BY <1>2, <1>6, <3>1 DEF Continue, Goto, HasQueued
      <4> QED BY <1>2, <1>3, <3>1, <4>1
    <3>2. CASE answered /\ steering = <<>> /\ followUps # <<>>
      <4>1. StartRun(p, <<Head(followUps)>>, "poll") /\ followUps' = Tail(followUps)
            /\ pc' = [pc EXCEPT ![p] = "running"]
            /\ UNCHANGED <<messages, branch, pendingBash, steering, local>>
        BY <1>2, <1>6, <3>2 DEF Continue, Goto, HasQueued
      <4> QED BY <1>2, <1>3, <3>2, <4>1
    <3>3. CASE ~answered
      <4>1. StartRun(p, <<>>, "poll") /\ pc' = [pc EXCEPT ![p] = "running"]
            /\ UNCHANGED <<agent, branch, pendingBash, local>>
        BY <1>2, <1>6, <3>3 DEF Continue, Goto, HasQueued
      <4>2. <<>> \in Seq(Users)
        OBVIOUS
      <4> QED BY <1>2, <3>3, <4>1, <4>2
    <3> QED BY <1>6, <3>1, <3>2, <3>3 DEF HasQueued
  <2>2. Buffers' /\ Locals'
    <3>1. \A q \in Callers : pc'[q] \in {"ready", "check"} => pc[q] = pc'[q]
      BY <1>2, <2>1 DEF Types
    <3> QED BY <1>2, <2>1, <3>1 DEF Types, Buffers, Locals, IsLocal
  <2> HIDE DEF answered
  <2> QED
    BY <1>1, <1>6, <2>1, <2>2, Starts DEF answered
<1> QED
  BY <1>5, <1>6

LEMMA SendKeeps ==
  ASSUME IInv, NEW p \in Callers, Send(p)
  PROVE  IInv'
<1> USE DEF agent, calls, run, shown, retry, compact, marks, history
<1>1. pc[p] = "ready"
  BY DEF Send
<1>2. phase = "none" /\ Types /\ local[p].prompt \in Users /\ ~Active
  BY <1>1, OnlyOne DEF IInv, Types, Locals, Active
<1>3. /\ StartRun(p, <<local[p].prompt>>, "poll")
      /\ pc' = [pc EXCEPT ![p] = "running"]
      /\ local' = [local EXCEPT ![p] = NoLocals]
      /\ UNCHANGED <<messages, branch, pendingBash, steering, followUps, held,
                     connected, lastAssistant, retryAttempt, overflowTried, cpc,
                     ckeep, drawn, crossed, failures, recoveries, handlerFailed,
                     early>>
  BY <1>2 DEF Send, Goto
<1>4. <<local[p].prompt>> \in Seq(Users) /\ <<local[p].prompt>> # <<>>
  BY <1>2
<1>5. Buffers' /\ Locals'
  <2>1. Buffers'
    BY <1>2, <1>3 DEF Types, Buffers
  <2>2. Locals'
    BY <1>2, <1>3, NoLocalsIs, LocalsSet DEF Types, Places
  <2> QED BY <2>1, <2>2
<1>6. steering' \in Seq(Users) /\ followUps' \in Seq(Users)
  BY <1>2, <1>3 DEF Types
<1> DEFINE prompts == <<local[p].prompt>>
<1> HIDE DEF prompts
<1>7. /\ StartRun(p, prompts, "poll") /\ prompts \in Seq(Users) /\ prompts # <<>>
  BY <1>3, <1>4 DEF prompts
<1> QED
  BY <1>1, <1>3, <1>5, <1>6, <1>7, Starts

LEMMA PromptKeeps ==
  ASSUME IInv, NEW p \in Callers, Prompt(p)
  PROVE  IInv'
<1> USE DEF agent, calls, run, shown, retry, compact, marks, history
<1> DEFINE flushed == messages \o pendingBash
           answers == {i \in DOMAIN flushed : flushed[i].role = "assistant"}
           last == IF answers = {} THEN None
                   ELSE flushed[CHOOSE i \in answers : \A j \in answers : j <= i]
           place == IF last = None THEN "ready" ELSE "check"
<1>1. /\ Quiet /\ phase = "none" /\ cpc = "idle"
      /\ drawn' = drawn + 1 /\ failures' = 0 /\ early' = FALSE
      /\ messages' = flushed /\ branch' = branch \o pendingBash
      /\ pendingBash' = <<>> /\ pc' = [pc EXCEPT ![p] = place]
      /\ UNCHANGED <<steering, followUps, run, held, connected, retry, compact,
                     crossed, recoveries, handlerFailed>>
  BY Zenon DEF Prompt, Goto, AtRest, Active
<1>2. PICK text \in Texts :
        local' = [local EXCEPT ![p] =
                    [NoLocals EXCEPT !.prompt = New("user", text), !.msg = last,
                                     !.pre = "check"]]
  BY Zenon DEF Prompt
<1> HIDE DEF last, flushed
<1>3. /\ Types /\ pc \in [Callers -> Places] /\ pc[p] = "idle"
      /\ \A q \in Callers : pc[q] = "idle"
      /\ held = None /\ (handlerFailed \/ lastAssistant = None)
  BY <1>1 DEF IInv, Types, Alone, Quiet
<1>4. New("user", text) \in Users
  BY <1>3, NewIs DEF Types, Users, Roles, Kinds
<1>5. Buffers'
  <2>1. IsSequence(messages)
    BY <1>3 DEF Types, Buffers
  <2> QED BY <1>1, <1>3, <2>1, FlushIs DEF Types, Buffers, flushed
<1>6. Locals'
  <2> DEFINE u == New("user", text)
             l == [prompt |-> u, msg |-> last, pre |-> "check",
                   reason |-> "none", keep |-> 0]
  <2> HIDE DEF u
  <2>1. local' = [local EXCEPT ![p] = l]
    <3>1. [NoLocals EXCEPT !.prompt = u, !.msg = last, !.pre = "check"] = l
      <4> DEFINE n == [NoLocals EXCEPT !.prompt = u]
                 o == [n EXCEPT !.msg = last]
      <4>1. n = [prompt |-> u, msg |-> None, pre |-> "no",
                 reason |-> "none", keep |-> 0]
        BY DEF NoLocals
      <4> HIDE DEF n
      <4>2. o = [prompt |-> u, msg |-> last, pre |-> "no",
                 reason |-> "none", keep |-> 0]
        BY <4>1
      <4> HIDE DEF o
      <4>3. [o EXCEPT !.pre = "check"] = l
        BY <4>2
      <4> QED BY <4>3 DEF n, o
    <3> HIDE DEF l
    <3> QED BY <1>2, <3>1 DEF u
  <2>2. IsLocal(l) /\ l.prompt \in Users /\ l.pre = "check"
    BY <1>4 DEF IsLocal, Users, u
  <2>3. place \in Places
    BY DEF Places
  <2> HIDE DEF l, place
  <2>4. Locals
    BY <1>3 DEF Types
  <2> QED BY <1>1, <1>3, <2>1, <2>2, <2>3, <2>4, LocalsSet
<1>7. /\ pc'[p] \in {"ready", "check"} /\ \A q \in Callers : q # p => pc'[q] = "idle"
      /\ pc' \in [Callers -> Places]
  BY <1>1, <1>3 DEF Places
<1>8. Types'
  <2>1. drawn' \in Nat /\ failures' \in Nat
    BY <1>1, <1>3 DEF Types
  <2> QED BY <1>1, <1>3, <1>5, <1>6, <1>7, <2>1 DEF Types
<1>9. Alone'
  BY <1>1, <1>3, <1>7 DEF IInv, Alone
<1>10. Hearing'
  BY <1>1, <1>3, NoneIs DEF Hearing
<1>11. Retrying'
  BY <1>1, <1>3, <1>7, AgentSessionBounds DEF IInv, Retrying, Types
<1>12. Going'
  <2>1. SUFFICES ASSUME ~crossed, ~handlerFailed PROVE Begun'
    BY <1>1 DEF Going
  <2>2. ~(retryAttempt > 0)
    BY <1>1, <1>3, <2>1 DEF IInv, Going, Begun
  <2> QED
    BY <1>1, <1>3, <1>7, <2>2 DEF Begun, Quiet
<1> QED
  BY <1>8, <1>9, <1>10, <1>11, <1>12 DEF IInv

\* Nothing changes but the queues.
LEMMA QueueKeeps ==
  ASSUME IInv, Queue \/ ClearQueue
  PROVE  IInv'
<1> USE DEF agent, calls, run, shown, retry, compact, marks, history
<1>1. /\ UNCHANGED <<messages, run, held, branch, connected, retry, pendingBash,
                     pc, local, compact, crossed, failures, recoveries,
                     handlerFailed>>
      /\ drawn' \in Nat
  BY DEF Queue, ClearQueue, IInv, Types
<1>2. steering' \in Seq(Users) /\ followUps' \in Seq(Users)
  <2>1. CASE Queue
    <3>1. PICK text \in Texts :
            \/ steering' = Append(steering, New("user", text)) /\ UNCHANGED followUps
            \/ followUps' = Append(followUps, New("user", text)) /\ UNCHANGED steering
      BY <2>1 DEF Queue
    <3>2. New("user", text) \in Users
      BY NewIs DEF IInv, Types, Users, Roles, Kinds
    <3>3. steering \in Seq(Users) /\ followUps \in Seq(Users)
      BY DEF IInv, Types
    <3>4. \A s \in Seq(Users), m \in Users : Append(s, m) \in Seq(Users)
      OBVIOUS
    <3> QED BY <3>1, <3>2, <3>3, <3>4
  <2>2. CASE ClearQueue
    BY <2>2 DEF ClearQueue
  <2> QED BY <2>1, <2>2
<1>3. Buffers' /\ Locals'
  BY <1>1 DEF IInv, Types, Buffers, Locals, IsLocal
<1>4. Types'
  <2>1. early' \in BOOLEAN
    <3>1. CASE Queue
      <4>1. early' = (early \/ Quiet)
        BY <3>1 DEF Queue
      <4> QED BY <4>1
    <3>2. CASE ClearQueue
      BY <3>2 DEF ClearQueue, IInv, Types
    <3> QED BY <3>1, <3>2
  <2> QED BY <1>1, <1>2, <1>3, <2>1 DEF IInv, Types
<1>5. Alone'
  BY <1>1 DEF IInv, Alone, Quiet
<1>6. Hearing' /\ Retrying'
  BY <1>1 DEF IInv, Hearing, Retrying, LastHeard
<1>7. Going'
  <2>1. Quiet' => early' \/ ~HasQueued' \/ (~HasQueued /\ HasQueued' = HasQueued)
                   \/ (early' = early /\ HasQueued' = HasQueued)
    <3>1. CASE Queue
      BY <1>1, <3>1 DEF Queue, Quiet
    <3>2. CASE ClearQueue
      BY <3>2 DEF ClearQueue, HasQueued
    <3> QED BY <3>1, <3>2
  <2>2. Begun /\ Quiet => early \/ ~HasQueued
    BY DEF Begun
  <2>3. early => early'
    BY DEF Queue, ClearQueue
  <2>4. Begun /\ Quiet' => early' \/ ~HasQueued'
    <3>1. Quiet' => Quiet
      BY <1>1 DEF Quiet
    <3> QED BY <2>1, <2>2, <2>3, <3>1
  <2> QED
    BY <1>1, <2>4
       DEF IInv, Going, Begun, Satisfied, Unanswered, Answered, LastHeard
<1> QED
  BY <1>4, <1>5, <1>6, <1>7 DEF IInv

LEMMA BashKeeps ==
  ASSUME IInv, Bash
  PROVE  IInv'
<1> USE DEF agent, calls, run, shown, retry, compact, marks, history
<1> DEFINE m == New("bash", "none")
<1>1. /\ UNCHANGED <<steering, followUps, run, held, connected, retry, pc, local,
                     compact, crossed, recoveries, handlerFailed, early>>
      /\ drawn' = drawn + 1
      /\ \/ /\ Active /\ pendingBash' = Append(pendingBash, m)
            /\ UNCHANGED <<messages, branch, failures>>
         \/ /\ ~Active /\ messages' = Append(messages, m)
            /\ branch' = Append(branch, m)
            /\ failures' = 0 /\ UNCHANGED pendingBash
  BY DEF Bash
<1>2. m \in Entries /\ m.role = "bash"
  BY NewIs DEF IInv, Types, Roles, Kinds
<1> HIDE DEF m
<1>3. IsSequence(messages) /\ branch \in Seq(Entries) /\ pendingBash \in Seq(Entries)
  BY DEF IInv, Types, Buffers
<1>4. Buffers'
  <2>1. CASE Active
    <3>1. pendingBash' \in Seq(Entries)
      <4>1. Append(pendingBash, m) \in Seq(Entries)
        BY <1>2, <1>3
      <4> QED BY <1>1, <2>1, <4>1
    <3> QED BY <1>1, <1>3, <2>1, <3>1 DEF Buffers, IsSequence
  <2>2. CASE ~Active
    <3>1. IsSequence(messages')
      <4>1. IsSequence(Append(messages, m))
        BY <1>3, AppendIs
      <4> QED BY <1>1, <2>2, <4>1
    <3>2. branch' \in Seq(Entries)
      <4>1. Append(branch, m) \in Seq(Entries)
        BY <1>2, <1>3
      <4> QED BY <1>1, <2>2, <4>1
    <3> QED BY <1>1, <1>3, <2>2, <3>1, <3>2 DEF Buffers
  <2> QED BY <2>1, <2>2
<1>5. Locals'
  BY <1>1 DEF IInv, Types, Locals, IsLocal
<1>6. Types'
  BY <1>1, <1>4, <1>5 DEF IInv, Types
<1>7. Alone'
  BY <1>1 DEF IInv, Alone, Quiet
<1>8. CASE Active
  <2>1. UNCHANGED <<messages, failures>>
    BY <1>1, <1>8
  <2>2. Hearing' /\ Retrying'
    BY <1>1, <2>1 DEF IInv, Hearing, Retrying, LastHeard
  <2>3. Going'
    BY <1>1, <2>1
       DEF IInv, Going, Begun, Satisfied, Unanswered, Answered, Quiet, LastHeard,
           HasQueued
  <2> QED BY <1>6, <1>7, <2>2, <2>3 DEF IInv
<1>9. CASE ~Active
  <2>1. /\ failures' = 0 /\ phase = "none" /\ messages' # <<>>
        /\ LastOf(messages').role # "assistant"
    <3>1. /\ failures' = 0 /\ phase = "none"
          /\ messages' = Append(messages, m)
      BY <1>1, <1>9 DEF Active
    <3>2. Append(messages, m) # <<>> /\ LastOf(Append(messages, m)) = m
      BY <1>3, AppendIs
    <3> QED BY <1>2, <3>1, <3>2
  <2>2. held = None /\ (handlerFailed \/ lastAssistant = None)
    BY <2>1 DEF IInv, Alone
  <2>3. Hearing'
    BY <1>1, <2>1, <2>2, NoneIs DEF Hearing
  <2>4. Retrying'
    BY <1>1, <2>1, AgentSessionBounds DEF IInv, Retrying, Types
  <2>5. Going'
    BY <1>1, <2>1 DEF IInv, Going, Begun, Unanswered, Quiet, HasQueued
  <2> QED BY <1>6, <1>7, <2>3, <2>4, <2>5 DEF IInv
<1> QED
  BY <1>8, <1>9

\* What an abort does to the calls.
LEMMA AbortsIs ==
  ASSUME IInv, Aborts
  PROVE  /\ aborted' = (phase # "none") /\ pc' \in [Callers -> Places]
         /\ \A p \in Callers :
              /\ pc[p] = "sleep" => pc'[p] = "cancelled"
              /\ pc[p] # "sleep" => pc'[p] = pc[p]
BY DEF Aborts, Active, IInv, Types, Places

LEMMA AbortKeeps ==
  ASSUME IInv, Abort \/ CompactBegins
  PROVE  IInv'
<1> USE DEF agent, calls, run, shown, retry, compact, marks, history
<1>1. /\ Aborts /\ connected' \in BOOLEAN /\ cpc' \in {cpc, "waiting"}
      /\ UNCHANGED <<agent, phase, owner, outbox, after, batch, results, held,
                     branch, retry, pendingBash, local, ckeep, drawn, crossed,
                     failures, recoveries, handlerFailed, early>>
  BY DEF Abort, CompactBegins, IInv, Types
<1>2. /\ aborted' = (phase # "none") /\ pc' \in [Callers -> Places]
      /\ \A p \in Callers :
           /\ pc[p] = "sleep" => pc'[p] = "cancelled"
           /\ pc[p] # "sleep" => pc'[p] = pc[p]
  BY <1>1, AbortsIs
<1>3. Buffers' /\ Locals'
  BY <1>1, <1>2 DEF IInv, Types, Buffers, Locals, IsLocal
<1>4. Types'
  BY <1>1, <1>2, <1>3 DEF IInv, Types
<1>5. Quiet' <=> Quiet
  BY <1>2 DEF Quiet
<1>6. Alone'
  BY <1>1, <1>2, <1>5 DEF IInv, Alone
<1>7. Hearing'
  BY <1>1, <1>2 DEF IInv, Hearing, LastHeard
<1>8. Retrying'
  BY <1>1, <1>2 DEF IInv, Retrying
<1>9. Going'
  BY <1>1, <1>2, <1>5
     DEF IInv, Going, Begun, Satisfied, Unanswered, Answered, LastHeard, HasQueued
<1> QED
  BY <1>4, <1>6, <1>7, <1>8, <1>9 DEF IInv

LEMMA CompactPreparesKeeps ==
  ASSUME IInv, CompactPrepares
  PROVE  IInv'
<1> USE DEF agent, calls, run, shown, retry, compact, marks, history
<1>1. /\ crossed' = (crossed \/ ~Quiet)
      /\ cpc' \in {"idle", "compacting"} /\ connected' \in BOOLEAN
      /\ (~connected' => ~connected)
      /\ ckeep' \in KeepFrom(branch) \union {ckeep}
      /\ UNCHANGED <<agent, run, held, branch, retry, pendingBash, pc, local, drawn,
                     failures, recoveries, handlerFailed, early>>
  BY DEF CompactPrepares, IInv, Types
<1>2. KeepFrom(branch) \subseteq Nat
  BY KeepFromIs DEF IInv, Types, Buffers
<1>3. Buffers' /\ Locals'
  BY <1>1 DEF IInv, Types, Buffers, Locals, IsLocal
<1>4. Types'
  BY <1>1, <1>2, <1>3 DEF IInv, Types
<1>5. Alone'
  BY <1>1 DEF IInv, Alone, Quiet
<1>6. Hearing' /\ Retrying'
  BY <1>1 DEF IInv, Hearing, Retrying, LastHeard, Types
<1>7. Going'
  BY <1>1
     DEF IInv, Going, Begun, Satisfied, Unanswered, Answered, LastHeard, HasQueued,
         Quiet
<1> QED
  BY <1>4, <1>5, <1>6, <1>7 DEF IInv

LEMMA CompactEndsKeeps ==
  ASSUME IInv, CompactEnds
  PROVE  IInv'
<1> USE DEF agent, calls, run, shown, retry, compact, marks, history
<1> DEFINE e == [New("summary", "manual") EXCEPT !.keep = ckeep]
<1>1. /\ cpc = "compacting" /\ cpc' = "idle" /\ connected' = TRUE /\ ckeep' = 0
      /\ \/ /\ branch' = Append(branch, e) /\ messages' = ContextOf(branch')
            /\ drawn' = drawn + 1 /\ failures' = 0
         \/ UNCHANGED <<messages, branch, drawn, failures>>
      /\ UNCHANGED <<steering, followUps, run, held, retry, pendingBash, pc, local,
                     crossed, recoveries, handlerFailed, early>>
  BY DEF CompactEnds
<1>2. e \in Entries
  <2> DEFINE n == New("summary", "manual")
  <2>1. n \in Entries /\ ckeep \in Nat
    BY NewIs DEF IInv, Types, Roles, Kinds
  <2> HIDE DEF n
  <2>2. [n EXCEPT !.keep = ckeep] \in Entries
    BY <2>1 DEF Entries
  <2> QED BY <2>2 DEF n
<1> HIDE DEF e
<1>3. Buffers'
  <2>1. branch' \in Seq(Entries)
    <3>1. branch \in Seq(Entries)
      BY DEF IInv, Types, Buffers
    <3>2. Append(branch, e) \in Seq(Entries)
      BY <1>2, <3>1
    <3> QED BY <1>1, <3>1, <3>2
  <2>2. IsSequence(messages')
    <3>1. IsSequence(ContextOf(branch'))
      BY <2>1, ContextIs
    <3> QED BY <1>1, <3>1 DEF IInv, Types, Buffers, IsSequence
  <2> QED BY <1>1, <2>1, <2>2 DEF IInv, Types, Buffers
<1>4. Locals'
  BY <1>1 DEF IInv, Types, Locals, IsLocal
<1>5. Types'
  BY <1>1, <1>3, <1>4 DEF IInv, Types
<1>6. Alone'
  BY <1>1 DEF IInv, Alone, Quiet
<1>7. failures' = 0 \/ UNCHANGED <<messages, failures>>
  BY <1>1
<1>8. Hearing'
  BY <1>1, <1>7 DEF IInv, Hearing, LastHeard
<1>9. Retrying'
  <2>1. CASE UNCHANGED <<messages, failures>>
    BY <1>1, <2>1 DEF IInv, Retrying
  <2>2. CASE failures' = 0
    BY <1>1, <2>2, AgentSessionBounds DEF IInv, Retrying, Types
  <2> QED BY <1>7, <2>1, <2>2
<1>10. Going'
  <2>1. SUFFICES ASSUME ~crossed, ~handlerFailed PROVE Begun'
    BY <1>1 DEF Going
  <2>2. Quiet
    BY <1>1, <2>1 DEF IInv, Alone
  <2>3. phase = "none" /\ \A p \in Callers : pc[p] = "idle"
    BY <2>2 DEF IInv, Alone, Quiet
  <2> QED
    BY <1>1, <2>1, <2>3 DEF IInv, Going, Begun, Quiet, HasQueued
<1> QED
  BY <1>5, <1>6, <1>8, <1>9, <1>10 DEF IInv

-----------------------------------------------------------------------------
(* The theorems *)

LEMMA InitIs == Init => IInv
<1> SUFFICES ASSUME Init PROVE IInv
  OBVIOUS
<1> USE DEF Init
<1>1. Types
  <2>1. <<>> \in Seq(Entries) /\ <<>> \in Seq(Users)
    OBVIOUS
  <2>2. Buffers
    BY <2>1, IsSequenceIntro DEF Buffers
  <2>3. Locals
    BY NoLocalsIs DEF Locals
  <2>4. pc \in [Callers -> Places]
    BY DEF Places
  <2>5. /\ steering \in Seq(Users) /\ followUps \in Seq(Users)
        /\ outbox \in Seq(Users) /\ held \in Entries /\ lastAssistant \in Entries
        /\ batch \in Entries /\ phase \in Phases
    BY <2>1, NoneIs DEF Phases
  <2>6. /\ retryAttempt \in 0..MaxRetries
        /\ {drawn, failures, recoveries, results} \subseteq Nat
    BY AgentSessionBounds
  <2> QED
    BY <2>2, <2>3, <2>4, <2>5, <2>6 DEF Types
<1>2. Alone
  BY DEF Alone, Quiet
<1>3. Hearing
  BY NoneIs DEF Hearing
<1>4. Retrying
  BY AgentSessionBounds DEF Retrying
<1>5. Going
  BY DEF Going, Begun, HasQueued
<1> QED
  BY <1>1, <1>2, <1>3, <1>4, <1>5 DEF IInv

LEMMA StutterKeeps ==
  ASSUME IInv, UNCHANGED vars
  PROVE  IInv'
<1> USE DEF vars, agent, calls, run, shown, retry, compact, marks, history
<1>1. Types'
  BY DEF IInv, Types, Buffers, Locals, IsLocal, IsSequence
<1>2. Alone' /\ Hearing' /\ Retrying'
  BY DEF IInv, Alone, Hearing, Retrying, Quiet, LastHeard
<1>3. Going'
  BY DEF IInv, Going, Begun, Satisfied, Unanswered, Answered, Quiet, LastHeard,
         HasQueued
<1> QED
  BY <1>1, <1>2, <1>3 DEF IInv

LEMMA NextKeeps == IInv /\ [Next]_vars => IInv'
<1> SUFFICES ASSUME IInv, [Next]_vars PROVE IInv'
  OBVIOUS
<1>1. CASE Loop
  BY <1>1, EmitKeeps, HandleKeeps, PollKeeps, AnswerKeeps, ToolResultKeeps,
     BatchEndsKeeps, EndRunKeeps, HandlerFailsKeeps, ReportKeeps, ReportFailsKeeps
     DEF Loop
<1>2. ASSUME NEW p \in Callers, Step(p)
      PROVE  IInv'
  BY <1>2, PreCheckKeeps, SendKeeps, ContinueKeeps, WakeKeeps, RetryCancelledKeeps,
     AutoCompactedKeeps, AutoCompactFailsKeeps DEF Step
<1>3. ASSUME NEW p \in Callers, Prompt(p)
      PROVE  IInv'
  BY <1>3, PromptKeeps
<1>4. CASE Queue \/ ClearQueue \/ Bash \/ Abort \/ CompactBegins
  BY <1>4, QueueKeeps, BashKeeps, AbortKeeps
<1>5. CASE Compact
  BY <1>5, CompactPreparesKeeps, CompactEndsKeeps DEF Compact
<1>6. CASE Rest \/ UNCHANGED vars
  BY <1>6, StutterKeeps DEF Rest
<1> QED
  BY <1>1, <1>2, <1>3, <1>4, <1>5, <1>6 DEF Next

\* The session's inductive invariant.
THEOREM SessionGoesOn == Spec => []IInv
BY InitIs, NextKeeps, PTL DEF Spec

\* For any setting of the retries and any number of callers: a failing request
\* is made at most once more than the setting says, the context is compacted
\* for an overflow once, and no retry is under way when nothing goes on
\* (_prepareRetry, _checkCompaction, _handlePostAgentRun).
THEOREM RetriesEnd == Spec => []RetriesAreOver
<1>1. IInv => RetriesAreOver
  <2> SUFFICES ASSUME IInv PROVE RetriesAreOver
    OBVIOUS
  <2>1. RetriesAreBounded
    BY DEF IInv, Retrying, RetriesAreBounded
  <2>2. RetryEnds
    <3> SUFFICES ASSUME AtRest, ~crossed, ~handlerFailed PROVE retryAttempt = 0
      BY DEF RetryEnds
    <3>1. ~(retryAttempt > 0)
      BY DEF AtRest, Quiet, IInv, Going, Begun
    <3> QED BY <3>1, AgentSessionBounds DEF IInv, Types
  <2>3. RecoversOnce
    BY DEF IInv, Retrying, Types, RecoversOnce
  <2> QED BY <2>1, <2>2, <2>3 DEF RetriesAreOver
<1> QED
  BY <1>1, SessionGoesOn, PTL

\* What came too late for a run is delivered by another before nothing goes
\* on (_handlePostAgentRun).
THEOREM QueuesAreServed == Spec => []NothingStranded
<1>1. IInv => NothingStranded
  BY DEF IInv, Going, Begun, NothingStranded, AtRest
<1> QED
  BY <1>1, SessionGoesOn, PTL
-----------------------------------------------------------------------------
(* Counting texts *)

LEMMA CountCat ==
  ASSUME NEW S, NEW s \in Seq(S), NEW t \in Seq(S), NEW x
  PROVE  /\ CountOf(s, x) \in Nat /\ CountOf(t, x) \in Nat
         /\ CountOf(s \o t, x) = CountOf(s, x) + CountOf(t, x)
<1> DEFINE m == Len(s)
           n == Len(t)
           A == {i \in 1..m : s[i] = x}
           B == {i \in 1..n : t[i] = x}
           C == {i \in (m + 1)..(m + n) : t[i - m] = x}
           u == s \o t
<1>1. /\ m \in Nat /\ n \in Nat /\ DOMAIN s = 1..m /\ DOMAIN t = 1..n
      /\ DOMAIN u = 1..(m + n)
      /\ \A i \in 1..m : u[i] = s[i]
      /\ \A i \in (m + 1)..(m + n) : u[i] = t[i - m]
  OBVIOUS
<1> HIDE DEF m, n, u
<1>2. {i \in DOMAIN u : u[i] = x} = A \union C
  <2>1. 1..(m + n) = (1..m) \union ((m + 1)..(m + n))
    BY <1>1
  <2> QED BY <1>1, <2>1
<1>3. A \cap C = {}
  BY <1>1
<1>4. IsFiniteSet(A) /\ IsFiniteSet(B) /\ IsFiniteSet(C)
  <2>0. 1 \in Int /\ m \in Int /\ n \in Int /\ m + 1 \in Int /\ m + n \in Int
    BY <1>1
  <2>1. IsFiniteSet(1..m) /\ IsFiniteSet(1..n) /\ IsFiniteSet((m + 1)..(m + n))
    <3> HIDE <1>1
    <3> QED BY <2>0, FS_Interval
  <2>2. A \subseteq 1..m /\ B \subseteq 1..n /\ C \subseteq (m + 1)..(m + n)
    OBVIOUS
  <2> QED BY <2>1, <2>2, FS_Subset
<1>5. Cardinality(C) = Cardinality(B)
  <2> DEFINE f == [i \in B |-> i + m]
  <2>1. f \in [B -> C]
    BY <1>1
  <2>2. \A a, b \in B : f[a] = f[b] => a = b
    BY <1>1
  <2>3. \A c \in C : \E b \in B : f[b] = c
    <3> SUFFICES ASSUME NEW c \in C PROVE \E b \in B : f[b] = c
      OBVIOUS
    <3>1. c - m \in B /\ f[c - m] = c
      BY <1>1
    <3> QED BY <3>1
  <2>4. f \in Bijection(B, C)
    <3> HIDE DEF f, B, C
    <3>1. f \in Injection(B, C)
      BY <2>1, <2>2 DEF Injection, IsInjective
    <3>2. f \in Surjection(B, C)
      BY <2>1, <2>3 DEF Surjection
    <3> QED BY <3>1, <3>2 DEF Bijection
  <2>5. ExistsBijection(B, C)
    BY <2>4 DEF ExistsBijection
  <2> HIDE DEF B, C
  <2> QED BY <1>4, <2>5, FS_Bijection
<1>6. Cardinality(A \union C) = Cardinality(A) + Cardinality(C) - Cardinality(A \cap C)
  <2> HIDE DEF A, C
  <2> QED BY <1>4, FS_Union
<1>7. Cardinality(A) \in Nat /\ Cardinality(B) \in Nat /\ Cardinality(C) \in Nat
  <2> HIDE DEF A, B, C
  <2> QED BY <1>4, FS_CardinalityType
<1>8. CountOf(s, x) = Cardinality(A) /\ CountOf(t, x) = Cardinality(B)
  BY <1>1 DEF CountOf
<1>9. CountOf(u, x) = Cardinality(A \union C)
  BY <1>2 DEF CountOf
<1>10. Cardinality(A \cap C) = 0
  BY <1>3, FS_EmptySet
<1> HIDE DEF A, B, C
<1> QED
  BY <1>5, <1>6, <1>7, <1>8, <1>9, <1>10 DEF u

LEMMA CountFew ==
  /\ \A x : CountOf(<<>>, x) = 0
  /\ \A a, x : CountOf(<<a>>, x) = IF a = x THEN 1 ELSE 0
<1>1. \A x : CountOf(<<>>, x) = 0
  <2> TAKE x
  <2>1. {i \in DOMAIN <<>> : <<>>[i] = x} = {}
    OBVIOUS
  <2> QED BY <2>1, FS_EmptySet DEF CountOf
<1>2. \A a, x : CountOf(<<a>>, x) = IF a = x THEN 1 ELSE 0
  <2> TAKE a, x
  <2>1. CASE a = x
    <3>1. {i \in DOMAIN <<a>> : <<a>>[i] = x} = {1}
      BY <2>1
    <3> QED BY <2>1, <3>1, FS_Singleton DEF CountOf
  <2>2. CASE a # x
    <3>1. {i \in DOMAIN <<a>> : <<a>>[i] = x} = {}
      BY <2>2
    <3> QED BY <2>2, <3>1, FS_EmptySet DEF CountOf
  <2> QED BY <2>1, <2>2
<1> QED BY <1>1, <1>2

\* A set of positions that is not empty has a least one.
LEMMA LeastExists ==
  ASSUME NEW n \in Nat, NEW S \in SUBSET (1..n), S # {}
  PROVE  \E i \in S : \A j \in S : i <= j
<1>1. S \subseteq Nat
  OBVIOUS
<1>2. PICK x \in S : \A y \in S : ~(<<y, x>> \in OpToRel(<, Nat))
  BY <1>1, WFMin, NatLessThanWellFounded
<1>3. \A y \in S : x <= y
  <2> SUFFICES ASSUME NEW y \in S, y < x PROVE FALSE
    BY <1>1
  <2>1. <<y, x>> \in OpToRel(<, Nat)
    BY <1>1 DEF OpToRel
  <2> QED BY <1>2, <2>1
<1> QED
  BY <1>3

LEMMA CatLeft ==
  ASSUME NEW S, NEW s \in Seq(S), NEW t \in Seq(S), NEW i \in 1..Len(s)
  PROVE  (s \o t)[i] = s[i]
  OBVIOUS

LEMMA CatRight ==
  ASSUME NEW S, NEW s \in Seq(S), NEW t \in Seq(S), NEW i \in 1..Len(t)
  PROVE  (s \o t)[Len(s) + i] = t[i]
<1>1. Len(s) \in Nat /\ Len(t) \in Nat
  OBVIOUS
<1>2. Len(s) + i \in (Len(s) + 1)..(Len(s) + Len(t)) /\ (Len(s) + i) - Len(s) = i
  BY <1>1
<1>3. \A j \in (Len(s) + 1)..(Len(s) + Len(t)) : (s \o t)[j] = t[j - Len(s)]
  OBVIOUS
<1> QED BY <1>2, <1>3

LEMMA SplitAt ==
  ASSUME NEW S, NEW s \in Seq(S), NEW k \in 1..Len(s)
  PROVE  s = (SubSeq(s, 1, k - 1) \o <<s[k]>>) \o SubSeq(s, k + 1, Len(s))
<1> DEFINE n == Len(s)
           a == SubSeq(s, 1, k - 1)
           x == <<s[k]>>
           b == SubSeq(s, k + 1, n)
<1>1. n \in Nat /\ k \in 1..n /\ k - 1 \in 0..n /\ k + 1 \in 1..(n + 1)
  OBVIOUS
<1>2. a \in Seq(S) /\ Len(a) = k - 1 /\ \A i \in 1..(k - 1) : a[i] = s[i]
  BY <1>1
<1>3. b \in Seq(S) /\ Len(b) = n - k /\ \A i \in 1..(n - k) : b[i] = s[k + i]
  <2>1. b \in Seq(S) /\ Len(b) = n - k
    BY <1>1
  <2>2. \A i \in 1..(n - k) : b[i] = s[(k + 1) + i - 1]
    BY <1>1
  <2>3. \A i \in 1..(n - k) : (k + 1) + i - 1 = k + i
    BY <1>1
  <2> QED BY <2>1, <2>2, <2>3
<1>4. x \in Seq(S) /\ Len(x) = 1 /\ x[1] = s[k]
  OBVIOUS
<1>5. s \in Seq(S) /\ Len(s) = n
  OBVIOUS
<1> HIDE DEF n, a, b, x
<1>6. PICK c : c = a \o x
  OBVIOUS
<1>7. c \in Seq(S) /\ Len(c) = k /\ \A i \in 1..k : c[i] = s[i]
  <2>1. c \in Seq(S) /\ Len(c) = k
    <3>0. a \in Seq(S) /\ x \in Seq(S)
      BY <1>2, <1>4
    <3>1. a \o x \in Seq(S) /\ Len(a \o x) = Len(a) + Len(x)
      BY <3>0
    <3>2. Len(a) + Len(x) = k
      BY <1>1, <1>2, <1>4
    <3>3. c \in Seq(S) /\ Len(c) = Len(a) + Len(x)
      BY <1>6, <3>1
    <3>4. Len(c) = k
      BY <3>2, <3>3
    <3> QED BY <3>3, <3>4
  <2>2. ASSUME NEW i \in 1..(k - 1) PROVE c[i] = s[i]
    <3>1. i \in 1..Len(a)
      BY <1>2
    <3>2. (a \o x)[i] = a[i]
      BY <1>2, <1>4, <3>1, CatLeft
    <3> QED BY <1>2, <1>6, <3>2
  <2>3. c[k] = s[k]
    <3>1. 1 \in 1..Len(x)
      BY <1>4
    <3>2. (a \o x)[Len(a) + 1] = x[1]
      BY <1>2, <1>4, <3>1, CatRight
    <3>3. Len(a) + 1 = k
      BY <1>1, <1>2
    <3> QED BY <1>4, <1>6, <3>2, <3>3
  <2>4. \A i \in 1..k : i = k \/ i \in 1..(k - 1)
    BY <1>1
  <2> QED BY <2>1, <2>2, <2>3, <2>4
<1>8. PICK d : d = c \o b
  OBVIOUS
<1>9. d \in Seq(S) /\ Len(d) = n /\ \A i \in 1..n : d[i] = s[i]
  <2>1. d \in Seq(S) /\ Len(d) = n
    <3>0. c \in Seq(S) /\ b \in Seq(S)
      BY <1>3, <1>7
    <3>1. c \o b \in Seq(S) /\ Len(c \o b) = Len(c) + Len(b)
      BY <3>0
    <3>2. Len(c) + Len(b) = n
      BY <1>1, <1>3, <1>7
    <3>3. d \in Seq(S) /\ Len(d) = Len(c) + Len(b)
      BY <1>8, <3>1
    <3> QED BY <3>2, <3>3
  <2>2. ASSUME NEW i \in 1..k PROVE d[i] = s[i]
    <3>1. i \in 1..Len(c)
      BY <1>7
    <3>2. (c \o b)[i] = c[i]
      BY <1>3, <1>7, <3>1, CatLeft
    <3> QED BY <1>7, <1>8, <3>2
  <2>3. ASSUME NEW i \in 1..(n - k) PROVE d[k + i] = s[k + i]
    <3>1. i \in 1..Len(b)
      BY <1>3
    <3>2. (c \o b)[Len(c) + i] = b[i]
      BY <1>3, <1>7, <3>1, CatRight
    <3> QED BY <1>3, <1>7, <1>8, <3>2
  <2>4. \A i \in 1..n : i \in 1..k \/ (i - k \in 1..(n - k) /\ k + (i - k) = i)
    BY <1>1
  <2> QED BY <2>1, <2>2, <2>3, <2>4
<1>10. s = d
  <2> HIDE DEF n
  <2> QED BY <1>5, <1>9
<1> QED
  BY <1>6, <1>8, <1>10 DEF a, b, x, n

LEMMA WithoutTextIs ==
  ASSUME NEW S, NEW s \in Seq(S), NEW t
  PROVE  /\ WithoutText(s, t) \in Seq(S)
         /\ \A x : CountOf(WithoutText(s, t), x) =
              IF Contains(s, t) /\ x = t THEN CountOf(s, x) - 1 ELSE CountOf(s, x)
         /\ ~Contains(s, t) => CountOf(s, t) = 0
<1>1. CASE ~Contains(s, t)
  <2>1. WithoutText(s, t) = s
    BY <1>1 DEF WithoutText, Contains
  <2>2. {i \in DOMAIN s : s[i] = t} = {}
    BY <1>1 DEF Contains
  <2> QED BY <1>1, <2>1, <2>2, FS_EmptySet DEF CountOf
<1>2. CASE Contains(s, t)
  <2> DEFINE at == {i \in 1..Len(s) : s[i] = t}
             k == CHOOSE i \in DOMAIN s :
                    s[i] = t /\ \A j \in 1..(i - 1) : s[j] # t
             a == SubSeq(s, 1, k - 1)
             b == SubSeq(s, k + 1, Len(s))
  <2>1. Len(s) \in Nat /\ DOMAIN s = 1..Len(s)
    OBVIOUS
  <2>2. \E i \in at : \A j \in at : i <= j
    <3>1. at \in SUBSET (1..Len(s)) /\ at # {}
      BY <1>2, <2>1 DEF Contains
    <3> HIDE DEF at
    <3> QED BY <2>1, <3>1, LeastExists
  <2>3. \E i \in DOMAIN s : s[i] = t /\ \A j \in 1..(i - 1) : s[j] # t
    <3>1. PICK i \in at : \A j \in at : i <= j
      BY <2>2
    <3>2. \A j \in 1..(i - 1) : s[j] # t
      <4> SUFFICES ASSUME NEW j \in 1..(i - 1), s[j] = t PROVE FALSE
        OBVIOUS
      <4>1. j \in at /\ ~(i <= j)
        BY <2>1
      <4> QED BY <3>1, <4>1
    <3> QED BY <2>1, <3>1, <3>2
  <2>4. k \in 1..Len(s) /\ s[k] = t
    BY <2>1, <2>3
  <2> HIDE DEF k
  <2>5. WithoutText(s, t) = a \o b
    BY <1>2 DEF WithoutText, Contains, k
  <2>6. a \in Seq(S) /\ b \in Seq(S) /\ <<t>> \in Seq(S) /\ a \o <<t>> \in Seq(S)
    BY <2>1, <2>4
  <2>7. s = (a \o <<t>>) \o b
    BY <2>4, SplitAt
  <2> HIDE DEF a, b
  <2>8. \A x : /\ CountOf(a, x) \in Nat /\ CountOf(b, x) \in Nat
               /\ CountOf(<<t>>, x) \in Nat
               /\ CountOf(a \o b, x) = CountOf(a, x) + CountOf(b, x)
               /\ CountOf(s, x) = (CountOf(a, x) + CountOf(<<t>>, x)) + CountOf(b, x)
    <3> TAKE x
    <3>1. /\ CountOf(a, x) \in Nat /\ CountOf(b, x) \in Nat
          /\ CountOf(a \o b, x) = CountOf(a, x) + CountOf(b, x)
      BY <2>6, CountCat
    <3>2. /\ CountOf(<<t>>, x) \in Nat
          /\ CountOf(a \o <<t>>, x) = CountOf(a, x) + CountOf(<<t>>, x)
      BY <2>6, CountCat
    <3>3. CountOf((a \o <<t>>) \o b, x) = CountOf(a \o <<t>>, x) + CountOf(b, x)
      <4> DEFINE c == a \o <<t>>
      <4>1. c \in Seq(S)
        BY <2>6
      <4> HIDE DEF c
      <4>2. CountOf(c \o b, x) = CountOf(c, x) + CountOf(b, x)
        BY <2>6, <4>1, CountCat
      <4> QED BY <4>2 DEF c
    <3> QED BY <2>7, <3>1, <3>2, <3>3
  <2>9. \A x : CountOf(a \o b, x) =
                 IF x = t THEN CountOf(s, x) - 1 ELSE CountOf(s, x)
    <3> TAKE x
    <3>1. CountOf(<<t>>, x) = IF t = x THEN 1 ELSE 0
      BY CountFew
    <3> HIDE DEF CountOf
    <3> QED BY <2>8, <3>1
  <2>10. a \o b \in Seq(S)
    BY <2>6
  <2> QED BY <1>2, <2>5, <2>9, <2>10
<1> QED
  BY <1>1, <1>2
\* How often a text is queued.
Queued(q, x) == CountOf(TextsOf(q), x)

LEMMA TextsIs ==
  ASSUME NEW q \in Seq(Users)
  PROVE  /\ TextsOf(q) \in Seq(Kinds)
         /\ DOMAIN TextsOf(q) = 1..Len(q) /\ Len(TextsOf(q)) = Len(q)
         /\ \A i \in 1..Len(q) : TextsOf(q)[i] = q[i].kind
<1>1. Len(q) \in Nat /\ DOMAIN q = 1..Len(q) /\ \A i \in 1..Len(q) : q[i] \in Users
  OBVIOUS
<1>2. \A i \in 1..Len(q) : q[i].kind \in Kinds
  BY <1>1 DEF Users, Entries
<1>3. TextsOf(q) = [i \in 1..Len(q) |-> q[i].kind]
  BY <1>1 DEF TextsOf
<1>4. \A n \in Nat : \A f \in [1..n -> Kinds] : f \in Seq(Kinds) /\ Len(f) = n
  OBVIOUS
<1>5. TextsOf(q) \in [1..Len(q) -> Kinds]
  BY <1>2, <1>3
<1>6. TextsOf(q) \in Seq(Kinds) /\ Len(TextsOf(q)) = Len(q)
  BY <1>1, <1>4, <1>5
<1> QED
  BY <1>3, <1>6

LEMMA TextsCat ==
  ASSUME NEW q \in Seq(Users), NEW r \in Seq(Users)
  PROVE  TextsOf(q \o r) = TextsOf(q) \o TextsOf(r)
<1> DEFINE c == q \o r
           d == TextsOf(q)
           e == TextsOf(r)
           f == TextsOf(c)
<1>1. c \in Seq(Users) /\ Len(c) = Len(q) + Len(r) /\ Len(q) \in Nat /\ Len(r) \in Nat
  OBVIOUS
<1>2. \A i \in 1..Len(q) : c[i] = q[i]
  OBVIOUS
<1>3. \A i \in 1..Len(r) : c[Len(q) + i] = r[i]
  BY CatRight
<1> HIDE DEF c
<1>4. /\ d \in Seq(Kinds) /\ Len(d) = Len(q)
      /\ \A i \in 1..Len(q) : d[i] = q[i].kind
  BY TextsIs
<1>5. /\ e \in Seq(Kinds) /\ Len(e) = Len(r)
      /\ \A i \in 1..Len(r) : e[i] = r[i].kind
  BY TextsIs
<1>6. /\ f \in Seq(Kinds) /\ Len(f) = Len(c)
      /\ \A i \in 1..Len(c) : f[i] = c[i].kind
  BY <1>1, TextsIs
<1> HIDE DEF d, e, f
<1> DEFINE g == d \o e
<1>7. g \in Seq(Kinds) /\ Len(g) = Len(q) + Len(r)
  <2>1. d \in Seq(Kinds) /\ e \in Seq(Kinds)
    BY <1>4, <1>5
  <2>2. g \in Seq(Kinds) /\ Len(g) = Len(d) + Len(e)
    BY <2>1
  <2> HIDE DEF g
  <2> QED BY <1>4, <1>5, <2>2
<1>8. ASSUME NEW i \in 1..Len(q) PROVE g[i] = f[i]
  <2>1. i \in 1..Len(d) /\ d \in Seq(Kinds) /\ e \in Seq(Kinds)
    BY <1>4, <1>5
  <2>2. g[i] = d[i]
    BY <2>1, CatLeft
  <2>3. i \in 1..Len(c)
    BY <1>1
  <2> HIDE DEF g
  <2> QED BY <1>2, <1>4, <1>6, <2>2, <2>3
<1>9. ASSUME NEW i \in 1..Len(r) PROVE g[Len(q) + i] = f[Len(q) + i]
  <2>1. i \in 1..Len(e) /\ d \in Seq(Kinds) /\ e \in Seq(Kinds)
    BY <1>4, <1>5
  <2>2. g[Len(d) + i] = e[i]
    BY <2>1, CatRight
  <2>3. Len(q) + i \in 1..Len(c)
    BY <1>1
  <2> HIDE DEF g
  <2> QED BY <1>3, <1>4, <1>5, <1>6, <2>2, <2>3
<1> HIDE DEF g
<1>10. \A i \in 1..Len(g) : g[i] = f[i]
  <2> SUFFICES ASSUME NEW i \in 1..Len(g) PROVE g[i] = f[i]
    OBVIOUS
  <2>1. i \in 1..Len(q) \/ (i - Len(q) \in 1..Len(r) /\ Len(q) + (i - Len(q)) = i)
    BY <1>1, <1>7
  <2> QED BY <1>8, <1>9, <2>1
<1>11. Len(f) = Len(g)
  BY <1>1, <1>6, <1>7
<1>12. f = g
  BY <1>6, <1>7, <1>10, <1>11
<1> QED
  BY <1>12 DEF f, g, c, d, e

LEMMA QueuedIs ==
  ASSUME NEW q \in Seq(Users), NEW r \in Seq(Users), NEW x
  PROVE  /\ Queued(q, x) \in Nat
         /\ Queued(q \o r, x) = Queued(q, x) + Queued(r, x)
<1>1. TextsOf(q) \in Seq(Kinds) /\ TextsOf(r) \in Seq(Kinds)
  BY TextsIs
<1>2. CountOf(TextsOf(q), x) \in Nat
  BY <1>1, CountCat
<1>3. CountOf(TextsOf(q) \o TextsOf(r), x)
        = CountOf(TextsOf(q), x) + CountOf(TextsOf(r), x)
  BY <1>1, CountCat
<1> QED
  BY <1>2, <1>3, TextsCat DEF Queued

LEMMA QueuedFew ==
  /\ \A x : Queued(<<>>, x) = 0
  /\ \A m, x : Queued(<<m>>, x) = IF m.kind = x THEN 1 ELSE 0
<1>1. TextsOf(<<>>) = <<>>
  BY DEF TextsOf
<1>2. \A m : TextsOf(<<m>>) = <<m.kind>>
  BY DEF TextsOf
<1> QED
  BY <1>1, <1>2, CountFew DEF Queued

LEMMA QueuedTail ==
  ASSUME NEW q \in Seq(Users), q # <<>>, NEW x
  PROVE  /\ Queued(Tail(q), x) \in Nat
         /\ Queued(q, x) = (IF Head(q).kind = x THEN 1 ELSE 0) + Queued(Tail(q), x)
<1>1. <<Head(q)>> \in Seq(Users) /\ Tail(q) \in Seq(Users)
  OBVIOUS
<1>2. q = <<Head(q)>> \o Tail(q)
  OBVIOUS
<1>3. Queued(<<Head(q)>> \o Tail(q), x) = Queued(<<Head(q)>>, x) + Queued(Tail(q), x)
  BY <1>1, QueuedIs
<1>4. Queued(<<Head(q)>>, x) = IF Head(q).kind = x THEN 1 ELSE 0
  BY QueuedFew
<1>5. Queued(Tail(q), x) \in Nat
  BY <1>1, QueuedIs
<1> QED
  BY <1>2, <1>3, <1>4, <1>5

LEMMA QueuedAppend ==
  ASSUME NEW q \in Seq(Users), NEW m \in Users, NEW x
  PROVE  Queued(Append(q, m), x) = Queued(q, x) + (IF m.kind = x THEN 1 ELSE 0)
<1>1. <<m>> \in Seq(Users) /\ Append(q, m) = q \o <<m>>
  OBVIOUS
<1>2. Queued(q \o <<m>>, x) = Queued(q, x) + Queued(<<m>>, x)
  BY <1>1, QueuedIs
<1>3. Queued(<<m>>, x) = IF m.kind = x THEN 1 ELSE 0
  BY QueuedFew
<1> QED
  BY <1>1, <1>2, <1>3

LEMMA CountAppend ==
  ASSUME NEW S, NEW s \in Seq(S), NEW t \in S, NEW x
  PROVE  CountOf(Append(s, t), x) = CountOf(s, x) + (IF t = x THEN 1 ELSE 0)
<1>1. <<t>> \in Seq(S) /\ Append(s, t) = s \o <<t>>
  OBVIOUS
<1>2. CountOf(s \o <<t>>, x) = CountOf(s, x) + CountOf(<<t>>, x)
  BY <1>1, CountCat
<1>3. CountOf(<<t>>, x) = IF t = x THEN 1 ELSE 0
  BY CountFew
<1> QED
  BY <1>1, <1>2, <1>3
-----------------------------------------------------------------------------
(* What is shown of the queues *)

Showing(x) == CountOf(shownSteering, x) + CountOf(shownFollowUps, x)
Waiting(x) == (Queued(steering, x) + Queued(followUps, x)) + Queued(outbox, x)

\* The texts shown are queued, or in the outbox that a run empties before it
\* goes on: unless it was dropped by a handler's failure.
Mirrored ==
  /\ shownSteering \in Seq(Texts) /\ shownFollowUps \in Seq(Texts)
  /\ phase # "emit" => outbox = <<>>
  /\ ~crossed /\ ~handlerFailed => \A x \in Texts : Showing(x) <= Waiting(x)

LEMMA CountsAre ==
  ASSUME Types, Mirrored, NEW x
  PROVE  /\ CountOf(shownSteering, x) \in Nat /\ CountOf(shownFollowUps, x) \in Nat
         /\ Queued(steering, x) \in Nat /\ Queued(followUps, x) \in Nat
         /\ Queued(outbox, x) \in Nat
<1>1. CountOf(shownSteering, x) \in Nat /\ CountOf(shownFollowUps, x) \in Nat
  BY CountCat DEF Mirrored
<1>2. Queued(steering, x) \in Nat /\ Queued(followUps, x) \in Nat
      /\ Queued(outbox, x) \in Nat
  BY QueuedIs DEF Types
<1> QED BY <1>1, <1>2

LEMMA StartedShows ==
  ASSUME Mirrored, Types, NEW m \in Users, Started(m)
  PROVE  /\ shownSteering' \in Seq(Texts) /\ shownFollowUps' \in Seq(Texts)
         /\ \A x : Showing(x)' <= Showing(x)
         /\ Showing(m.kind)' = 0 \/ Showing(m.kind)' = Showing(m.kind) - 1
<1> DEFINE t == m.kind
           s == shownSteering
           f == shownFollowUps
<1>1. s \in Seq(Texts) /\ f \in Seq(Texts)
  BY DEF Mirrored
<1>2. \A x : CountOf(s, x) \in Nat /\ CountOf(f, x) \in Nat
  BY CountsAre
<1>3. CASE Contains(s, t)
  <2>1. s' = WithoutText(s, t) /\ f' = f
    BY <1>3 DEF Started
  <2>2. /\ WithoutText(s, t) \in Seq(Texts)
        /\ \A x : CountOf(WithoutText(s, t), x) =
                    IF x = t THEN CountOf(s, x) - 1 ELSE CountOf(s, x)
    BY <1>1, <1>3, WithoutTextIs
  <2>3. \A x : /\ CountOf(s', x) =
                    IF x = t THEN CountOf(s, x) - 1 ELSE CountOf(s, x)
               /\ CountOf(f', x) = CountOf(f, x)
    BY <2>1, <2>2
  <2>4. s' \in Seq(Texts) /\ f' \in Seq(Texts)
    BY <1>1, <2>1, <2>2
  <2> HIDE DEF s, f
  <2>5. \A x : CountOf(s', x) + CountOf(f', x) <= CountOf(s, x) + CountOf(f, x)
    BY <1>2, <2>3
  <2>6. CountOf(s', t) + CountOf(f', t) = (CountOf(s, t) + CountOf(f, t)) - 1
    BY <1>2, <2>3
  <2> QED BY <2>4, <2>5, <2>6 DEF Showing, s, f
<1>4. CASE ~Contains(s, t)
  <2>1. f' = WithoutText(f, t) /\ s' = s
    BY <1>4 DEF Started
  <2>2. /\ WithoutText(f, t) \in Seq(Texts)
        /\ \A x : CountOf(WithoutText(f, t), x) =
             IF Contains(f, t) /\ x = t THEN CountOf(f, x) - 1 ELSE CountOf(f, x)
        /\ ~Contains(f, t) => CountOf(f, t) = 0
    BY <1>1, WithoutTextIs
  <2>3. CountOf(s, t) = 0
    BY <1>1, <1>4, WithoutTextIs
  <2>4. \A x : /\ CountOf(f', x) = IF Contains(f, t) /\ x = t
                                   THEN CountOf(f, x) - 1 ELSE CountOf(f, x)
               /\ CountOf(s', x) = CountOf(s, x)
    BY <2>1, <2>2
  <2>5. s' \in Seq(Texts) /\ f' \in Seq(Texts)
    BY <1>1, <2>1, <2>2
  <2> HIDE DEF s, f
  <2>6. \A x : CountOf(s', x) + CountOf(f', x) <= CountOf(s, x) + CountOf(f, x)
    BY <1>2, <2>4
  <2>7. \/ CountOf(s', t) + CountOf(f', t) = 0
        \/ CountOf(s', t) + CountOf(f', t) = (CountOf(s, t) + CountOf(f, t)) - 1
    BY <1>2, <2>2, <2>3, <2>4
  <2> QED BY <2>5, <2>6, <2>7 DEF Showing, s, f
<1> QED
  BY <1>3, <1>4

LEMMA EmitShows ==
  ASSUME Types, Alone, Mirrored, Emit
  PROVE  Mirrored'
<1> USE DEF agent, calls, run, shown, retry, compact, marks, history
<1>0. outbox # <<>> /\ outbox \in Seq(Users)
  BY DEF Emit, Alone, Types
<1>a. PICK m \in Users : m = Head(outbox)
  BY <1>0
<1>b. PICK rest \in Seq(Users) : rest = Tail(outbox)
  <2>1. Tail(outbox) \in Seq(Users)
    BY <1>0
  <2> QED BY <2>1
<1>1. /\ outbox' = rest /\ phase' = (IF Len(outbox) = 1 THEN after ELSE "emit")
      /\ crossed' = (crossed \/ ~connected)
      /\ UNCHANGED <<steering, followUps, handlerFailed>>
      /\ IF connected THEN Started(m) ELSE UNCHANGED shown
  BY <1>a, <1>b DEF Emit, Emitted
<1>3. \A x : Queued(outbox, x) = (IF m.kind = x THEN 1 ELSE 0) + Queued(rest, x)
             /\ Queued(rest, x) \in Nat
  BY <1>0, <1>a, <1>b, QueuedTail
<1>4. phase' # "emit" => rest = <<>>
  <2>1. Len(rest) = Len(outbox) - 1
    BY <1>0, <1>b
  <2> QED BY <1>0, <1>1, <2>1
<1>5. CASE connected
  <2>1. Started(m)
    BY <1>1, <1>5
  <2>2. /\ shownSteering' \in Seq(Texts) /\ shownFollowUps' \in Seq(Texts)
        /\ \A x : Showing(x)' <= Showing(x)
        /\ Showing(m.kind)' = 0 \/ Showing(m.kind)' = Showing(m.kind) - 1
    BY <2>1, StartedShows
  <2>3. ASSUME ~crossed', ~handlerFailed', NEW x \in Texts PROVE Showing(x)' <= Waiting(x)'
    <3>1. Showing(x) <= Waiting(x)
      BY <1>1, <2>3 DEF Mirrored
    <3>2. /\ Queued(steering, x) \in Nat /\ Queued(followUps, x) \in Nat
          /\ Queued(outbox, x) \in Nat /\ Queued(rest, x) \in Nat
          /\ CountOf(shownSteering, x) \in Nat /\ CountOf(shownFollowUps, x) \in Nat
      BY <1>3, CountsAre
    <3>3. Waiting(x)' = (Queued(steering, x) + Queued(followUps, x)) + Queued(rest, x)
      BY <1>1 DEF Waiting
    <3>4. Showing(x) \in Nat /\ Waiting(x)' \in Nat
      BY <3>2, <3>3 DEF Showing
    <3>5. Waiting(x) = Waiting(x)' + (IF m.kind = x THEN 1 ELSE 0)
      BY <1>3, <3>2, <3>3 DEF Waiting
    <3>6. shownSteering' \in Seq(Texts) /\ shownFollowUps' \in Seq(Texts)
      BY <2>2
    <3>7. CountOf(shownSteering', x) \in Nat /\ CountOf(shownFollowUps', x) \in Nat
      BY <3>6, CountCat
    <3>8. Showing(x)' \in Nat
      BY <3>7 DEF Showing
    <3>9. CASE m.kind = x
      <4>1. Showing(x)' = 0 \/ Showing(x)' = Showing(x) - 1
        BY <2>2, <3>9
      <4>2. Waiting(x) = Waiting(x)' + 1
        BY <3>5, <3>9
      <4>3. Showing(x) \in Nat
        BY <3>2 DEF Showing
      <4> QED BY <3>1, <3>4, <4>1, <4>2, <4>3
    <3>10. CASE m.kind # x
      <4>1. Showing(x)' <= Showing(x)
        BY <2>2
      <4> QED BY <3>1, <3>4, <3>5, <3>8, <3>10, <4>1
    <3> QED BY <3>9, <3>10
  <2> QED BY <1>1, <1>4, <2>2, <2>3 DEF Mirrored
<1>6. CASE ~connected
  <2>1. crossed' /\ UNCHANGED <<shownSteering, shownFollowUps>>
    BY <1>1, <1>6
  <2> QED BY <1>1, <1>4, <2>1 DEF Mirrored
<1> QED
  BY <1>5, <1>6

\* The head of a queue goes to the outbox, or nothing does.
LEMMA DeliverShows ==
  ASSUME Types, Mirrored, outbox = <<>>, UNCHANGED <<crossed, handlerFailed, shown>>,
         phase' # "emit" => outbox' = <<>>,
         \/ /\ steering # <<>> /\ outbox' = <<Head(steering)>>
            /\ steering' = Tail(steering) /\ UNCHANGED followUps
         \/ /\ followUps # <<>> /\ outbox' = <<Head(followUps)>>
            /\ followUps' = Tail(followUps) /\ UNCHANGED steering
  PROVE  Mirrored'
<1>1. steering \in Seq(Users) /\ followUps \in Seq(Users)
  BY DEF Types
<1>2. \A x : Queued(outbox, x) = 0
  BY QueuedFew
<1>3. UNCHANGED <<crossed, handlerFailed, shownSteering, shownFollowUps>>
  BY DEF shown
<1>4. ASSUME NEW x PROVE Waiting(x)' = Waiting(x)
  <2>1. /\ Queued(steering, x) \in Nat /\ Queued(followUps, x) \in Nat
        /\ Queued(outbox, x) = 0
    BY <1>2, CountsAre
  <2>2. CASE /\ steering # <<>> /\ outbox' = <<Head(steering)>>
             /\ steering' = Tail(steering) /\ UNCHANGED followUps
    <3>1. /\ Queued(Tail(steering), x) \in Nat
          /\ Queued(steering, x) = (IF Head(steering).kind = x THEN 1 ELSE 0)
                                     + Queued(Tail(steering), x)
      BY <1>1, <2>2, QueuedTail
    <3>2. Queued(outbox', x) = IF Head(steering).kind = x THEN 1 ELSE 0
      BY <2>2, QueuedFew
    <3>3. Queued(steering', x) = Queued(Tail(steering), x)
          /\ Queued(followUps', x) = Queued(followUps, x)
      BY <2>2
    <3> QED BY <2>1, <3>1, <3>2, <3>3 DEF Waiting
  <2>3. CASE /\ followUps # <<>> /\ outbox' = <<Head(followUps)>>
             /\ followUps' = Tail(followUps) /\ UNCHANGED steering
    <3>1. /\ Queued(Tail(followUps), x) \in Nat
          /\ Queued(followUps, x) = (IF Head(followUps).kind = x THEN 1 ELSE 0)
                                     + Queued(Tail(followUps), x)
      BY <1>1, <2>3, QueuedTail
    <3>2. Queued(outbox', x) = IF Head(followUps).kind = x THEN 1 ELSE 0
      BY <2>3, QueuedFew
    <3>3. Queued(followUps', x) = Queued(Tail(followUps), x)
          /\ Queued(steering', x) = Queued(steering, x)
      BY <2>3
    <3> QED BY <2>1, <3>1, <3>2, <3>3 DEF Waiting
  <2> QED BY <2>2, <2>3
<1>5. \A x : Showing(x)' = Showing(x)
  BY <1>3 DEF Showing
<1> QED
  BY <1>3, <1>4, <1>5 DEF Mirrored

\* Neither the queues nor what is shown of them change.
LEMMA ShownStill ==
  ASSUME Mirrored, UNCHANGED <<steering, followUps, outbox, shown>>,
         crossed => crossed', handlerFailed => handlerFailed',
         phase' # "emit" => phase # "emit"
  PROVE  Mirrored'
<1>1. /\ UNCHANGED <<steering, followUps, outbox, shownSteering, shownFollowUps>>
      /\ ~crossed' => ~crossed
      /\ ~handlerFailed' => ~handlerFailed
  BY DEF shown
<1>2. \A x : Showing(x)' = Showing(x) /\ Waiting(x)' = Waiting(x)
  BY <1>1 DEF Showing, Waiting
<1> QED
  BY <1>1, <1>2 DEF Mirrored

LEMMA PollShows ==
  ASSUME Types, Mirrored, Poll
  PROVE  Mirrored'
<1>1. /\ outbox = <<>> /\ phase # "emit"
      /\ UNCHANGED <<crossed, handlerFailed, shown>>
  BY DEF Poll, Mirrored, history, marks
<1>2. CASE /\ steering # <<>>
           /\ Deliver(steering) /\ steering' = Tail(steering)
           /\ UNCHANGED followUps
  <2>1. outbox' = <<Head(steering)>> /\ phase' = "emit"
    BY <1>2 DEF Deliver
  <2> QED BY <1>1, <1>2, <2>1, DeliverShows
<1>3. CASE /\ followUps # <<>>
           /\ Deliver(followUps) /\ followUps' = Tail(followUps)
           /\ UNCHANGED steering
  <2>1. outbox' = <<Head(followUps)>> /\ phase' = "emit"
    BY <1>3 DEF Deliver
  <2> QED BY <1>1, <1>3, <2>1, DeliverShows
<1>4. CASE UNCHANGED <<outbox, after, steering, followUps>>
  BY <1>1, <1>4, ShownStill
<1> QED
  BY <1>2, <1>3, <1>4 DEF Poll

LEMMA ContinueShows ==
  ASSUME Types, Mirrored, NEW p \in Callers, Continue(p)
  PROVE  Mirrored'
<1> USE DEF agent, calls, run, marks, history
<1>1. UNCHANGED <<crossed, handlerFailed, shown>>
  BY DEF Continue
<1>2. CASE Active \/ messages = <<>>
  <2>1. UNCHANGED <<steering, followUps, run>>
    <3>1. Active \/ LastOf(messages).role # "assistant"
      BY <1>2, NoneIs DEF LastOf
    <3> HIDE DEF agent, run
    <3> QED BY <1>2, <3>1 DEF Continue
  <2> QED BY <1>1, <2>1, ShownStill
<1>3. CASE ~Active /\ messages # <<>>
  <2>1. phase # "emit" /\ outbox = <<>>
    BY <1>3 DEF Active, Mirrored
  <2>2. \/ /\ steering # <<>> /\ StartRun(p, <<Head(steering)>>, "request")
           /\ steering' = Tail(steering) /\ UNCHANGED followUps
        \/ /\ followUps # <<>> /\ StartRun(p, <<Head(followUps)>>, "poll")
           /\ followUps' = Tail(followUps) /\ UNCHANGED steering
        \/ UNCHANGED <<steering, followUps, run>>
        \/ StartRun(p, <<>>, "poll") /\ UNCHANGED <<steering, followUps>>
    BY <1>3 DEF Continue
  <2>3. CASE /\ steering # <<>> /\ StartRun(p, <<Head(steering)>>, "request")
             /\ steering' = Tail(steering) /\ UNCHANGED followUps
    <3>1. outbox' = <<Head(steering)>> /\ phase' = "emit"
      BY <2>3 DEF StartRun
    <3> QED BY <1>1, <2>1, <2>3, <3>1, DeliverShows
  <2>4. CASE /\ followUps # <<>> /\ StartRun(p, <<Head(followUps)>>, "poll")
             /\ followUps' = Tail(followUps) /\ UNCHANGED steering
    <3>1. outbox' = <<Head(followUps)>> /\ phase' = "emit"
      BY <2>4 DEF StartRun
    <3> QED BY <1>1, <2>1, <2>4, <3>1, DeliverShows
  <2>5. CASE UNCHANGED <<steering, followUps, run>>
    BY <1>1, <2>5, ShownStill
  <2>6. CASE StartRun(p, <<>>, "poll") /\ UNCHANGED <<steering, followUps>>
    <3>1. outbox' = outbox
      BY <2>1, <2>6 DEF StartRun
    <3> QED BY <1>1, <2>1, <2>6, <3>1, ShownStill
  <2> QED BY <2>2, <2>3, <2>4, <2>5, <2>6
<1> QED
  BY <1>2, <1>3

LEMMA SendShows ==
  ASSUME Types, Mirrored, NEW p \in Callers, Send(p)
  PROVE  Mirrored'
<1> USE DEF calls, run, marks, history, shown
<1>1. UNCHANGED <<steering, followUps, crossed, handlerFailed, shownSteering,
                  shownFollowUps>>
  BY DEF Send
<1>2. CASE Active
  <2>1. UNCHANGED run
    BY <1>2 DEF Send
  <2> QED BY <1>1, <2>1, ShownStill
<1>3. CASE ~Active
  <2>1. outbox = <<>> /\ outbox' = <<local[p].prompt>> /\ phase' = "emit"
    BY <1>3 DEF Send, StartRun, Active, Mirrored
  <2>2. ASSUME ~crossed', ~handlerFailed', NEW x \in Texts PROVE Showing(x)' <= Waiting(x)'
    <3>1. Showing(x)' = Showing(x) /\ Showing(x) <= Waiting(x)
      BY <1>1, <2>2 DEF Showing, Mirrored
    <3>2. Queued(outbox, x) = 0 /\ Queued(outbox', x) \in {0, 1}
      BY <2>1, QueuedFew
    <3>3. /\ Queued(steering, x) \in Nat /\ Queued(followUps, x) \in Nat
          /\ CountOf(shownSteering, x) \in Nat /\ CountOf(shownFollowUps, x) \in Nat
      BY CountsAre
    <3>4. Waiting(x)' = (Queued(steering, x) + Queued(followUps, x))
                          + Queued(outbox', x)
      BY <1>1 DEF Waiting
    <3>5. Waiting(x) = Queued(steering, x) + Queued(followUps, x)
      BY <3>2, <3>3 DEF Waiting
    <3>6. Showing(x) \in Nat
      BY <3>3 DEF Showing
    <3> QED BY <3>1, <3>2, <3>3, <3>4, <3>5, <3>6
  <2> QED BY <1>1, <2>1, <2>2 DEF Mirrored
<1> QED
  BY <1>2, <1>3

LEMMA QueueShows ==
  ASSUME Types, Mirrored, Queue
  PROVE  Mirrored'
<1> USE DEF calls, run, marks, history, shown
<1>1. PICK text \in Texts :
        \/ /\ steering' = Append(steering, New("user", text))
           /\ shownSteering' = Append(shownSteering, text)
           /\ UNCHANGED <<followUps, shownFollowUps>>
        \/ /\ followUps' = Append(followUps, New("user", text))
           /\ shownFollowUps' = Append(shownFollowUps, text)
           /\ UNCHANGED <<steering, shownSteering>>
  BY DEF Queue
<1>2. UNCHANGED <<outbox, phase, crossed, handlerFailed>>
  BY DEF Queue
<1> DEFINE u == New("user", text)
<1>3. u \in Users /\ u.kind = text
  BY NewIs DEF Types, Users, Roles, Kinds
<1> HIDE DEF u
<1>4. /\ steering \in Seq(Users) /\ followUps \in Seq(Users)
      /\ shownSteering \in Seq(Texts) /\ shownFollowUps \in Seq(Texts)
  BY DEF Types, Mirrored
<1>5. ASSUME NEW x
      PROVE  LET one == IF text = x THEN 1 ELSE 0
             IN Showing(x)' = Showing(x) + one /\ Waiting(x)' = Waiting(x) + one
  <2> DEFINE one == IF text = x THEN 1 ELSE 0
  <2>1. /\ CountOf(shownSteering, x) \in Nat /\ CountOf(shownFollowUps, x) \in Nat
        /\ Queued(steering, x) \in Nat /\ Queued(followUps, x) \in Nat
        /\ Queued(outbox, x) \in Nat /\ one \in Nat
    BY CountsAre
  <2>2. CASE /\ steering' = Append(steering, u)
             /\ shownSteering' = Append(shownSteering, text)
             /\ UNCHANGED <<followUps, shownFollowUps>>
    <3>1. Queued(Append(steering, u), x) = Queued(steering, x) + one
      BY <1>3, <1>4, QueuedAppend
    <3>2. CountOf(Append(shownSteering, text), x) = CountOf(shownSteering, x) + one
      BY <1>4, CountAppend
    <3> HIDE DEF one
    <3>3. Queued(steering', x) = Queued(steering, x) + one
          /\ CountOf(shownSteering', x) = CountOf(shownSteering, x) + one
      BY <2>2, <3>1, <3>2
    <3>4. Showing(x)' = Showing(x) + one
      BY <2>1, <2>2, <3>3 DEF Showing
    <3>5. Waiting(x)' = Waiting(x) + one
      BY <1>2, <2>1, <2>2, <3>3 DEF Waiting
    <3> QED BY <3>4, <3>5 DEF one
  <2>3. CASE /\ followUps' = Append(followUps, u)
             /\ shownFollowUps' = Append(shownFollowUps, text)
             /\ UNCHANGED <<steering, shownSteering>>
    <3>1. Queued(Append(followUps, u), x) = Queued(followUps, x) + one
      BY <1>3, <1>4, QueuedAppend
    <3>2. CountOf(Append(shownFollowUps, text), x) = CountOf(shownFollowUps, x) + one
      BY <1>4, CountAppend
    <3> HIDE DEF one
    <3>3. Queued(followUps', x) = Queued(followUps, x) + one
          /\ CountOf(shownFollowUps', x) = CountOf(shownFollowUps, x) + one
      BY <2>3, <3>1, <3>2
    <3>4. Showing(x)' = Showing(x) + one
      BY <2>1, <2>3, <3>3 DEF Showing
    <3>5. Waiting(x)' = Waiting(x) + one
      BY <1>2, <2>1, <2>3, <3>3 DEF Waiting
    <3> QED BY <3>4, <3>5 DEF one
  <2> QED BY <1>1, <2>2, <2>3 DEF u
<1>6. shownSteering' \in Seq(Texts) /\ shownFollowUps' \in Seq(Texts)
  <2>1. \A s \in Seq(Texts) : Append(s, text) \in Seq(Texts)
    OBVIOUS
  <2> QED BY <1>1, <1>4, <2>1
<1>7. ASSUME ~crossed', ~handlerFailed', NEW x \in Texts PROVE Showing(x)' <= Waiting(x)'
  <2>1. Showing(x) <= Waiting(x)
    BY <1>2, <1>7 DEF Mirrored
  <2>2. Showing(x) \in Nat /\ Waiting(x) \in Nat
    BY CountsAre DEF Showing, Waiting
  <2> QED BY <1>5, <2>1, <2>2
<1> QED
  BY <1>2, <1>6, <1>7 DEF Mirrored

LEMMA ClearQueueShows ==
  ASSUME Types, Mirrored, ClearQueue
  PROVE  Mirrored'
<1>1. /\ steering' = <<>> /\ followUps' = <<>>
      /\ shownSteering' = <<>> /\ shownFollowUps' = <<>>
      /\ UNCHANGED <<outbox, phase, crossed, handlerFailed>>
  BY DEF ClearQueue, run, history, marks
<1>2. ASSUME NEW x PROVE Showing(x)' <= Waiting(x)'
  <2>1. Showing(x)' = 0
    BY <1>1, CountFew DEF Showing
  <2>2. Queued(outbox, x) \in Nat
    BY CountsAre
  <2>3. Waiting(x)' = Queued(outbox, x)
    <3>1. Waiting(x)' = (0 + 0) + Queued(outbox, x)
      BY <1>1, QueuedFew DEF Waiting
    <3> QED BY <2>2, <3>1
  <2> QED BY <2>1, <2>2, <2>3
<1>3. <<>> \in Seq(Texts)
  OBVIOUS
<1> QED
  BY <1>1, <1>2, <1>3 DEF Mirrored

\* What the run was about to deliver is dropped.
LEMMA HandlerFailsShows ==
  ASSUME Types, Alone, Mirrored, HandlerFails
  PROVE  Mirrored'
<1>1. outbox' = <<>> /\ handlerFailed' = TRUE
  BY DEF HandlerFails
<1>2. shownSteering' \in Seq(Texts) /\ shownFollowUps' \in Seq(Texts)
  <2>1. CASE UNCHANGED shown
    BY <2>1 DEF shown, Mirrored
  <2>2. CASE phase = "emit" /\ Started(Head(outbox))
    <3>1. outbox # <<>> /\ outbox \in Seq(Users)
      BY <2>2 DEF Alone, Types
    <3>2. Head(outbox) \in Users
      BY <3>1
    <3> QED BY <2>2, <3>2, StartedShows
  <2> QED BY <2>1, <2>2 DEF HandlerFails, Unheard
<1> QED
  BY <1>1, <1>2 DEF Mirrored

LEMMA OthersShow ==
  ASSUME Mirrored,
         \/ Handle \/ Answer \/ ToolResult \/ BatchEnds \/ EndRun \/ Report
         \/ ReportFails
         \/ \E p \in Callers : \/ PreCheck(p) \/ Wake(p) \/ RetryCancelled(p)
                               \/ AutoCompacted(p) \/ AutoCompactFails(p) \/ Prompt(p)
         \/ Bash \/ Abort \/ CompactBegins \/ Compact \/ Rest \/ UNCHANGED vars
  PROVE  Mirrored'
<1> USE DEF agent, calls, run, marks, history, shown
<1>1. CASE Handle
  BY <1>1, ShownStill DEF Handle
<1>2. CASE Answer
  <2>1. /\ UNCHANGED <<steering, followUps, outbox, shown, handlerFailed>>
        /\ phase = "request"
        /\ crossed => crossed'
    <3>1. UNCHANGED <<steering, followUps, outbox, shown, handlerFailed>>
          /\ phase = "request"
      BY <1>2 DEF Answer
    <3>2. \E m : Emitted(m)
      BY <1>2 DEF Answer
    <3> QED BY <3>1, <3>2 DEF Emitted
  <2> QED BY <2>1, ShownStill
<1>3. CASE ToolResult \/ BatchEnds
  <2>1. /\ UNCHANGED <<steering, followUps, outbox, shown, handlerFailed>>
        /\ phase = "tool" /\ (crossed => crossed')
    <3>1. CASE ToolResult
      BY <3>1 DEF ToolResult, Emitted
    <3>2. CASE BatchEnds
      BY <3>2 DEF BatchEnds
    <3> QED BY <1>3, <3>1, <3>2
  <2> QED BY <2>1, ShownStill
<1>9. CASE Report \/ ReportFails
  <2>1. /\ UNCHANGED <<steering, followUps, outbox, shown>>
        /\ phase # "emit" /\ (crossed => crossed')
        /\ handlerFailed => handlerFailed'
    <3>1. CASE Report
      BY <3>1 DEF Report, Emitted
    <3>2. CASE ReportFails
      BY <3>2 DEF ReportFails
    <3> QED BY <1>9, <3>1, <3>2
  <2> QED BY <2>1, ShownStill
<1>4. CASE EndRun
  <2>1. /\ UNCHANGED <<steering, followUps, outbox, shown, crossed, handlerFailed>>
        /\ phase # "emit"
    BY <1>4 DEF EndRun
  <2> QED BY <2>1, ShownStill
<1>5. ASSUME NEW p \in Callers,
             \/ PreCheck(p) \/ Wake(p) \/ RetryCancelled(p)
             \/ AutoCompacted(p) \/ AutoCompactFails(p) \/ Prompt(p)
      PROVE  Mirrored'
  <2>1. UNCHANGED <<steering, followUps, run, shown, crossed, handlerFailed>>
    BY <1>5, Zenon
       DEF PreCheck, Wake, RetryCancelled, AutoCompacted, AutoCompactFails, Prompt
  <2> HIDE DEF agent, calls, marks, history
  <2>2. /\ UNCHANGED <<steering, followUps, outbox, shown, phase>>
        /\ UNCHANGED <<crossed, handlerFailed>>
    BY <2>1
  <2> QED BY <2>2, ShownStill
<1>6. CASE Bash \/ Abort \/ CompactBegins \/ Rest \/ UNCHANGED vars
  <2>1. UNCHANGED <<steering, followUps, outbox, phase, shown, crossed,
                    handlerFailed>>
    BY <1>6 DEF Bash, Abort, CompactBegins, Rest, vars
  <2> QED BY <2>1, ShownStill
<1>7. CASE CompactPrepares
  <2>1. /\ UNCHANGED <<steering, followUps, outbox, phase, shown, handlerFailed>>
        /\ crossed => crossed'
    BY <1>7 DEF CompactPrepares
  <2> QED BY <2>1, ShownStill
<1>8. CASE CompactEnds
  <2>1. UNCHANGED <<steering, followUps, outbox, phase, shown, crossed,
                    handlerFailed>>
    BY <1>8 DEF CompactEnds
  <2> QED BY <2>1, ShownStill
<1> QED
  BY <1>1, <1>2, <1>3, <1>4, <1>5, <1>6, <1>7, <1>8, <1>9 DEF Compact

\* No text is shown as queued more often than it is queued or about to be
\* delivered, for any texts and queues of any length (_queueSteer,
\* _queueFollowUp, clearQueue and the listener's message_start).
THEOREM QueuesAreShown == Spec => []ShownIsQueued
<1>1. Init => Mirrored
  <2> SUFFICES ASSUME Init PROVE Mirrored
    OBVIOUS
  <2>1. <<>> \in Seq(Texts)
    OBVIOUS
  <2>2. \A x : Showing(x) <= Waiting(x)
    <3>1. \A x : Showing(x) = 0 + 0 /\ Waiting(x) = (0 + 0) + 0
      BY CountFew, QueuedFew DEF Init, Showing, Waiting
    <3> QED BY <3>1
  <2> QED BY <2>1, <2>2 DEF Init, Mirrored
<1>2. IInv /\ Mirrored /\ [Next]_vars => Mirrored'
  <2> SUFFICES ASSUME IInv, Mirrored, [Next]_vars PROVE Mirrored'
    OBVIOUS
  <2>1. Types /\ Alone
    BY DEF IInv
  <2>2. CASE Emit \/ Poll \/ Queue \/ ClearQueue \/ HandlerFails
    BY <2>1, <2>2, EmitShows, PollShows, QueueShows, ClearQueueShows,
       HandlerFailsShows
  <2>3. ASSUME NEW p \in Callers, Continue(p) \/ Send(p)
        PROVE  Mirrored'
    BY <2>1, <2>3, ContinueShows, SendShows
  <2>4. CASE \/ Handle \/ Answer \/ ToolResult \/ BatchEnds \/ EndRun \/ Report
             \/ ReportFails
             \/ \E p \in Callers : \/ PreCheck(p) \/ Wake(p) \/ RetryCancelled(p)
                                   \/ AutoCompacted(p) \/ AutoCompactFails(p)
                                   \/ Prompt(p)
             \/ Bash \/ Abort \/ CompactBegins \/ Compact \/ Rest \/ UNCHANGED vars
    BY <2>4, OthersShow
  <2>5. \/ Emit \/ Poll \/ Queue \/ ClearQueue \/ HandlerFails
        \/ \E p \in Callers : Continue(p) \/ Send(p)
        \/ Handle \/ Answer \/ ToolResult \/ BatchEnds \/ EndRun \/ Report
        \/ ReportFails
        \/ \E p \in Callers : \/ PreCheck(p) \/ Wake(p) \/ RetryCancelled(p)
                              \/ AutoCompacted(p) \/ AutoCompactFails(p)
                              \/ Prompt(p)
        \/ Bash \/ Abort \/ CompactBegins \/ Compact \/ Rest \/ UNCHANGED vars
    BY DEF Next, Loop, Step
  <2> QED BY <2>2, <2>3, <2>4, <2>5
<1>3. Types /\ Mirrored => ShownIsQueued
  <2> SUFFICES ASSUME Types, Mirrored, ~crossed, ~handlerFailed, NEW text \in Texts
               PROVE  CountOf(shownSteering \o shownFollowUps, text)
                        <= CountOf(TextsOf(steering \o followUps \o outbox), text)
    BY DEF ShownIsQueued
  <2>1. CountOf(shownSteering \o shownFollowUps, text) = Showing(text)
    <3>1. shownSteering \in Seq(Texts) /\ shownFollowUps \in Seq(Texts)
      BY DEF Mirrored
    <3> QED BY <3>1, CountCat DEF Showing
  <2>2. Queued((steering \o followUps) \o outbox, text) = Waiting(text)
    <3>1. /\ steering \in Seq(Users) /\ followUps \in Seq(Users)
          /\ outbox \in Seq(Users)
      BY DEF Types
    <3>2. steering \o followUps \in Seq(Users)
      BY <3>1
    <3>3. Queued((steering \o followUps) \o outbox, text)
            = Queued(steering \o followUps, text) + Queued(outbox, text)
      BY <3>1, <3>2, QueuedIs
    <3>4. Queued(steering \o followUps, text)
            = Queued(steering, text) + Queued(followUps, text)
      BY <3>1, QueuedIs
    <3> QED BY <3>3, <3>4 DEF Waiting
  <2>3. Showing(text) <= Waiting(text)
    BY DEF Mirrored
  <2> QED BY <2>1, <2>2, <2>3 DEF Queued
<1>4. IInv => Types
  BY DEF IInv
<1> QED
  BY <1>1, <1>2, <1>3, <1>4, SessionGoesOn, PTL DEF Spec
-----------------------------------------------------------------------------
(* What stands at some positions *)

Rank(at, i) == Cardinality({j \in at : j <= i})

LEMMA SomeOf ==
  ASSUME NEW n \in Nat, NEW at \in SUBSET (1..n)
  PROVE  IsFiniteSet(at) /\ Cardinality(at) \in Nat
<1>1. IsFiniteSet(1..n)
  BY FS_Interval
<1> QED
  BY <1>1, FS_Subset, FS_CardinalityType

LEMMA RankIs ==
  ASSUME NEW n \in Nat, NEW at \in SUBSET (1..n), NEW i \in at
  PROVE  Rank(at, i) \in 1..Cardinality(at)
<1> DEFINE low == {j \in at : j <= i}
<1>1. IsFiniteSet(at) /\ Cardinality(at) \in Nat
  BY SomeOf
<1>2. low \in SUBSET at /\ i \in low
  OBVIOUS
<1> HIDE DEF low
<1>3. IsFiniteSet(low) /\ Cardinality(low) <= Cardinality(at)
  BY <1>1, <1>2, FS_Subset
<1>4. Cardinality(low) \in Nat /\ Cardinality(low) # 0
  BY <1>2, <1>3, FS_CardinalityType, FS_EmptySet
<1>5. Cardinality(low) \in 1..Cardinality(at)
  BY <1>1, <1>3, <1>4
<1> QED
  BY <1>5 DEF Rank, low

LEMMA RankGrows ==
  ASSUME NEW n \in Nat, NEW at \in SUBSET (1..n), NEW i \in at, NEW j \in at, i < j
  PROVE  Rank(at, i) < Rank(at, j)
<1> DEFINE low == {k \in at : k <= i}
           high == {k \in at : k <= j}
<1>1. IsFiniteSet(at)
  BY SomeOf
<1>2. low \in SUBSET high /\ high \in SUBSET at /\ j \in high /\ j \notin low
  <2>1. i \in Int /\ j \in Int /\ \A k \in at : k \in Int
    OBVIOUS
  <2>2. \A k \in at : k <= i => k <= j
    BY <2>1
  <2>3. j <= j /\ ~(j <= i)
    BY <2>1
  <2> QED BY <2>2, <2>3
<1> HIDE DEF low, high
<1>3. IsFiniteSet(high) /\ IsFiniteSet(low)
  BY <1>1, <1>2, FS_Subset
<1>4. Cardinality(low) <= Cardinality(high) /\ Cardinality(low) # Cardinality(high)
  BY <1>2, <1>3, FS_Subset
<1>5. Cardinality(low) \in Nat /\ Cardinality(high) \in Nat
  BY <1>3, FS_CardinalityType
<1>6. Cardinality(low) < Cardinality(high)
  BY <1>4, <1>5
<1> QED
  BY <1>6 DEF Rank, low, high

LEMMA RankOnto ==
  ASSUME NEW n \in Nat, NEW at \in SUBSET (1..n), NEW k \in 1..Cardinality(at)
  PROVE  \E i \in at : Rank(at, i) = k
<1> DEFINE N == Cardinality(at)
           f == [i \in at |-> Rank(at, i)]
<1>1. IsFiniteSet(at) /\ N \in Nat
  BY SomeOf
<1>2. f \in [at -> 1..N]
  BY RankIs
<1>3. \A i, j \in at : f[i] = f[j] => i = j
  <2> SUFFICES ASSUME NEW i \in at, NEW j \in at, f[i] = f[j], i # j PROVE FALSE
    OBVIOUS
  <2>1. Rank(at, i) = Rank(at, j)
    OBVIOUS
  <2>2. Rank(at, i) \in 1..N /\ Rank(at, j) \in 1..N
    BY RankIs
  <2> HIDE DEF N, f
  <2>3. CASE i < j
    <3>1. Rank(at, i) < Rank(at, j)
      BY <2>3, RankGrows
    <3> QED BY <1>1, <2>1, <2>2, <3>1
  <2>4. CASE j < i
    <3>1. Rank(at, j) < Rank(at, i)
      BY <2>4, RankGrows
    <3> QED BY <1>1, <2>1, <2>2, <3>1
  <2> QED BY <2>3, <2>4
<1> HIDE DEF N, f
<1>4. f \in Injection(at, 1..N)
  BY <1>2, <1>3 DEF Injection, IsInjective
<1>5. IsFiniteSet(1..N) /\ Cardinality(1..N) = N
  BY <1>1, FS_Interval
<1>6. Cardinality(at) = Cardinality(1..N)
  BY <1>5 DEF N
<1>7. f \in Surjection(at, 1..N)
  BY <1>4, <1>5, <1>6, FS_Injection
<1>8. k \in 1..N
  BY DEF N
<1>9. PICK i \in at : f[i] = k
  BY <1>7, <1>8 DEF Surjection
<1> QED
  BY <1>9 DEF f

\* The next position that is taken has the next rank.
LEMMA RankNext ==
  ASSUME NEW n \in Nat, NEW at \in SUBSET (1..n), NEW i \in at, i + 1 \in at
  PROVE  Rank(at, i + 1) = Rank(at, i) + 1
<1> DEFINE low == {k \in at : k <= i}
           high == {k \in at : k <= i + 1}
<1>1. IsFiniteSet(at) /\ low \in SUBSET at
  BY SomeOf
<1>2. high = low \union {i + 1} /\ i + 1 \notin low
  <2>1. i \in Int /\ \A k \in at : k \in Int
    OBVIOUS
  <2>2. \A k \in at : k <= i + 1 <=> k <= i \/ k = i + 1
    BY <2>1
  <2>3. ~(i + 1 <= i)
    BY <2>1
  <2> QED BY <2>2, <2>3
<1> HIDE DEF low, high
<1>3. IsFiniteSet(low)
  BY <1>1, FS_Subset
<1>4. Cardinality(low \union {i + 1}) = Cardinality(low) + 1
  BY <1>2, <1>3, FS_AddElement
<1> QED
  BY <1>2, <1>4 DEF Rank, low, high

LEMMA PickedIs ==
  ASSUME NEW n \in Nat, NEW at \in SUBSET (1..n), NEW S, NEW s,
         \A i \in at : s[i] \in S
  PROVE  Picked(s, at) \in Seq(S) /\ Len(Picked(s, at)) = Cardinality(at)
<1> DEFINE N == Cardinality(at)
           pos(k) == CHOOSE i \in at : Rank(at, i) = k
<1>1. N \in Nat
  BY SomeOf
<1>2. \A k \in 1..N : pos(k) \in at
  BY RankOnto
<1>3. Picked(s, at) = [k \in 1..N |-> s[pos(k)]]
  BY DEF Picked, Rank
<1> HIDE DEF N, pos
<1>4. [k \in 1..N |-> s[pos(k)]] \in [1..N -> S]
  BY <1>2
<1>5. \A f \in [1..N -> S] : f \in Seq(S) /\ Len(f) = N
  BY <1>1
<1> QED
  BY <1>3, <1>4, <1>5 DEF N

LEMMA PickedAt ==
  ASSUME NEW n \in Nat, NEW at \in SUBSET (1..n), NEW s, NEW i \in at
  PROVE  Picked(s, at)[Rank(at, i)] = s[i]
<1> DEFINE N == Cardinality(at)
           pos(k) == CHOOSE j \in at : Rank(at, j) = k
           r == Rank(at, i)
<1>1. r \in 1..N /\ N \in Nat
  BY RankIs, SomeOf
<1>2. pos(r) \in at /\ Rank(at, pos(r)) = r
  OBVIOUS
<1>3. Picked(s, at) = [k \in 1..N |-> s[pos(k)]]
  BY DEF Picked, Rank
<1>4. Picked(s, at)[r] = s[pos(r)]
  <2> HIDE DEF N, r, pos
  <2> QED BY <1>1, <1>3
<1>5. PICK j \in at : j = pos(r)
  BY <1>2
<1>6. Rank(at, j) = Rank(at, i)
  BY <1>2, <1>5
<1>7. j = i
  <2> HIDE DEF N, r, pos
  <2>1. Rank(at, i) \in Nat
    BY <1>1 DEF r
  <2>2. ~(j < i)
    <3> SUFFICES ASSUME j < i PROVE FALSE
      OBVIOUS
    <3>1. Rank(at, j) < Rank(at, i)
      BY RankGrows
    <3> QED BY <1>6, <2>1, <3>1
  <2>3. ~(i < j)
    <3> SUFFICES ASSUME i < j PROVE FALSE
      OBVIOUS
    <3>1. Rank(at, i) < Rank(at, j)
      BY RankGrows
    <3> QED BY <1>6, <2>1, <3>1
  <2> QED BY <2>2, <2>3
<1> QED
  BY <1>4, <1>5, <1>7 DEF r
LEMMA PickedSame ==
  ASSUME NEW n \in Nat, NEW at \in SUBSET (1..n), NEW s, NEW t,
         \A i \in at : s[i] = t[i]
  PROVE  Picked(s, at) = Picked(t, at)
<1> DEFINE N == Cardinality(at)
           pos(k) == CHOOSE i \in at : Rank(at, i) = k
<1>1. \A k \in 1..N : pos(k) \in at
  BY RankOnto
<1>2. Picked(s, at) = [k \in 1..N |-> s[pos(k)]]
      /\ Picked(t, at) = [k \in 1..N |-> t[pos(k)]]
  BY DEF Picked, Rank
<1> HIDE DEF N, pos
<1>3. \A k \in 1..N : s[pos(k)] = t[pos(k)]
  BY <1>1
<1> QED
  BY <1>2, <1>3

\* What follows entirely is appended.
LEMMA PickedCat ==
  ASSUME NEW S, NEW s \in Seq(S), NEW t \in Seq(S), NEW at \in SUBSET (1..Len(s))
  PROVE  Picked(s \o t, at \union ((Len(s) + 1)..(Len(s) + Len(t))))
           = Picked(s, at) \o t
<1> DEFINE n == Len(s)
           k == Len(t)
           more == (n + 1)..(n + k)
           bt == at \union more
           N == Cardinality(at)
           l == Picked(s \o t, bt)
           q == Picked(s, at)
           r == q \o t
<1>1. n \in Nat /\ k \in Nat /\ n + k \in Nat
  OBVIOUS
<1>2. at \in SUBSET (1..n) /\ bt \in SUBSET (1..(n + k)) /\ more \in SUBSET (1..(n + k))
  <2>1. at \in SUBSET (1..n)
    OBVIOUS
  <2> HIDE DEF n, k
  <2>2. 1..n \subseteq 1..(n + k) /\ more \subseteq 1..(n + k)
    BY <1>1
  <2> QED BY <2>1, <2>2
<1>3. IsFiniteSet(at) /\ N \in Nat /\ IsFiniteSet(bt) /\ Cardinality(bt) \in Nat
  BY <1>1, <1>2, SomeOf
<1>4. ASSUME NEW y \in 0..k
      PROVE  Cardinality(at \union ((n + 1)..(n + y))) = N + y
  <2> DEFINE m == (n + 1)..(n + y)
  <2>1. IsFiniteSet(m) /\ Cardinality(m) = y
    <3>1. y \in Nat /\ n + 1 \in Int /\ n + y \in Int
      BY <1>1
    <3>2. IF n + 1 > n + y THEN y = 0 ELSE (n + y) - (n + 1) + 1 = y
      BY <1>1, <3>1
    <3> HIDE DEF n
    <3> QED BY <3>1, <3>2, FS_Interval
  <2>2. at \cap m = {}
    BY <1>1
  <2> HIDE DEF m
  <2>3. Cardinality(at \union m) = Cardinality(at) + Cardinality(m) - Cardinality(at \cap m)
    BY <1>3, <2>1, FS_Union
  <2>4. Cardinality(at \cap m) = 0
    BY <2>2, FS_EmptySet
  <2>5. y \in Nat
    BY <1>1
  <2> QED BY <1>3, <2>1, <2>3, <2>4, <2>5 DEF m
<1>5. Cardinality(bt) = N + k
  <2>1. k \in 0..k
    BY <1>1
  <2> QED BY <1>4, <2>1
<1>6. \A i \in 1..n : (s \o t)[i] = s[i]
  BY CatLeft
<1>7. \A i \in 1..k : (s \o t)[n + i] = t[i]
  BY CatRight
<1>8. s \o t \in Seq(S) /\ Len(s \o t) = n + k
  OBVIOUS
<1>9. l \in Seq(S) /\ Len(l) = N + k
  <2>1. \A i \in bt : (s \o t)[i] \in S
    <3> DEFINE u == s \o t
    <3>1. \A i \in 1..(n + k) : u[i] \in S
      <4>1. u \in Seq(S) /\ Len(u) = n + k
        BY <1>8
      <4> HIDE DEF u, n, k
      <4> QED BY <4>1
    <3> QED BY <1>2, <3>1
  <2> HIDE DEF bt
  <2> QED BY <1>1, <1>2, <1>5, <2>1, PickedIs
<1>10. q \in Seq(S) /\ Len(q) = N
  <2>1. \A i \in at : s[i] \in S
    OBVIOUS
  <2> QED BY <1>1, <1>2, <2>1, PickedIs
<1>11. r \in Seq(S) /\ Len(r) = N + k
  <2>1. q \in Seq(S) /\ t \in Seq(S)
    BY <1>10
  <2> HIDE DEF q
  <2>2. r \in Seq(S) /\ Len(r) = Len(q) + Len(t)
    BY <2>1
  <2> HIDE DEF r
  <2> QED BY <1>10, <2>2
<1>12. ASSUME NEW x \in 1..(N + k) PROVE l[x] = r[x]
  <2>1. PICK i \in bt : Rank(bt, i) = x
    <3> HIDE DEF bt, N
    <3> QED BY <1>1, <1>2, <1>5, RankOnto
  <2>2. l[x] = (s \o t)[i]
    <3> HIDE DEF bt
    <3> QED BY <1>1, <1>2, <2>1, PickedAt
  <2>3. CASE i \in at
    <3>1. {j \in bt : j <= i} = {j \in at : j <= i}
      BY <1>1, <2>3
    <3>2. Rank(at, i) = x
      BY <2>1, <3>1 DEF Rank
    <3>3. q[x] = s[i]
      BY <1>1, <1>2, <2>3, <3>2, PickedAt
    <3>4. x \in 1..N
      BY <1>1, <1>2, <2>3, <3>2, RankIs
    <3>5. r[x] = q[x]
      <4> HIDE DEF q, N
      <4> QED BY <1>10, <3>4, CatLeft
    <3>6. (s \o t)[i] = s[i]
      BY <1>2, <1>6, <2>3
    <3> QED BY <2>2, <3>3, <3>5, <3>6
  <2>4. CASE i \in more
    <3> DEFINE y == i - n
    <3>1. y \in 1..k /\ n + y = i /\ y \in 0..k
      BY <1>1, <2>4
    <3>2. {j \in bt : j <= i} = at \union ((n + 1)..(n + y))
      <4>1. \A j \in at : j <= i
        BY <1>1, <2>4
      <4>2. \A j \in more : j <= i <=> j \in (n + 1)..(n + y)
        BY <1>1, <2>4, <3>1
      <4>3. (n + 1)..(n + y) \subseteq more
        BY <1>1, <3>1
      <4> QED BY <4>1, <4>2, <4>3
    <3>3. x = N + y
      BY <1>4, <2>1, <3>1, <3>2 DEF Rank
    <3>4. r[x] = t[y]
      <4>1. y \in 1..Len(t) /\ Len(q) = N
        BY <1>10, <3>1
      <4> HIDE DEF q, N, y
      <4>2. r[Len(q) + y] = t[y]
        BY <1>10, <4>1, CatRight
      <4> QED BY <3>3, <4>1, <4>2
    <3>5. (s \o t)[i] = t[y]
      BY <1>7, <3>1
    <3> QED BY <2>2, <3>4, <3>5
  <2> QED BY <2>3, <2>4
<1>13. l = r
  <2> HIDE DEF l, r, N, k
  <2>1. Len(l) = Len(r) /\ \A x \in 1..Len(l) : l[x] = r[x]
    BY <1>9, <1>11, <1>12
  <2> QED BY <1>9, <1>11, <2>1
<1> QED
  BY <1>13

LEMMA PickedAll ==
  ASSUME NEW S, NEW s \in Seq(S)
  PROVE  Picked(s, 1..Len(s)) = s
<1>1. Picked(<<>>, {}) = <<>>
  <2>1. Picked(<<>>, {}) \in Seq(S) /\ Len(Picked(<<>>, {})) = 0
    <3>1. {} \in SUBSET (1..0) /\ \A i \in {} : <<>>[i] \in S
      OBVIOUS
    <3> QED BY <3>1, PickedIs, FS_EmptySet
  <2> HIDE DEF Picked
  <2> QED BY <2>1
<1>2. PICK e : e = <<>>
  OBVIOUS
<1>3. e \in Seq(S) /\ Len(e) = 0 /\ e \o s = s /\ Len(s) \in Nat
  BY <1>2
<1>4. PICK at : at = {}
  OBVIOUS
<1>5. at \in SUBSET (1..Len(e))
  BY <1>4
<1>6. Picked(e \o s, at \union ((Len(e) + 1)..(Len(e) + Len(s)))) = Picked(e, at) \o s
  <2>1. e \in Seq(S)
    BY <1>3
  <2> QED BY <2>1, <1>5, PickedCat
<1>7. at \union ((Len(e) + 1)..(Len(e) + Len(s))) = 1..Len(s)
  BY <1>3, <1>4
<1>8. Picked(e, at) = e
  BY <1>1, <1>2, <1>4
<1> QED
  BY <1>3, <1>6, <1>7, <1>8

\* The last of the positions is the one of the last element.
LEMMA PickedButLast ==
  ASSUME NEW n \in Nat, NEW at \in SUBSET (1..n), NEW S, NEW s,
         \A i \in at : s[i] \in S, NEW m \in at, \A j \in at : j <= m
  PROVE  /\ Picked(s, at) \in Seq(S)
         /\ Len(Picked(s, at)) \in Nat \ {0}
         /\ Picked(s, at)[Len(Picked(s, at))] = s[m]
         /\ Picked(s, at \ {m}) = SubSeq(Picked(s, at), 1, Len(Picked(s, at)) - 1)
<1> DEFINE N == Cardinality(at)
           bt == at \ {m}
           q == Picked(s, at)
           l == Picked(s, bt)
           r == SubSeq(q, 1, N - 1)
<1>1. IsFiniteSet(at) /\ N \in Nat /\ bt \in SUBSET (1..n)
  BY SomeOf
<1>2. Cardinality(bt) = N - 1 /\ Cardinality(bt) \in Nat
  <2>1. Cardinality(bt) = N - 1
    BY <1>1, FS_RemoveElement
  <2>2. Cardinality(bt) \in Nat
    BY <1>1, SomeOf
  <2> QED BY <2>1, <2>2
<1>3. q \in Seq(S) /\ Len(q) = N
  BY PickedIs
<1>4. l \in Seq(S) /\ Len(l) = N - 1
  <2>1. \A i \in bt : s[i] \in S
    OBVIOUS
  <2> HIDE DEF bt
  <2> QED BY <1>1, <1>2, <2>1, PickedIs
<1>5. r \in Seq(S) /\ Len(r) = N - 1 /\ \A x \in 1..(N - 1) : r[x] = q[x]
  <2> HIDE DEF q, N
  <2> QED BY <1>1, <1>2, <1>3
<1>6. ASSUME NEW x \in 1..(N - 1) PROVE l[x] = q[x]
  <2>1. PICK i \in bt : Rank(bt, i) = x
    <3> HIDE DEF bt
    <3> QED BY <1>1, <1>2, RankOnto
  <2>2. l[x] = s[i]
    <3> HIDE DEF bt
    <3> QED BY <1>1, <2>1, PickedAt
  <2>3. {j \in bt : j <= i} = {j \in at : j <= i}
    <3>1. i \in Int /\ m \in Int /\ i <= m /\ i # m
      OBVIOUS
    <3>2. ~(m <= i)
      BY <3>1
    <3> QED BY <3>2
  <2>4. Rank(at, i) = x
    BY <2>1, <2>3 DEF Rank
  <2>5. q[x] = s[i]
    BY <2>4, PickedAt
  <2> QED BY <2>2, <2>5
<1>7. q[N] = s[m]
  <2>1. {j \in at : j <= m} = at
    OBVIOUS
  <2>2. Rank(at, m) = N
    BY <2>1 DEF Rank
  <2>3. Picked(s, at)[Rank(at, m)] = s[m]
    BY PickedAt
  <2> QED BY <2>2, <2>3
<1>8. l = r
  <2> HIDE DEF l, r, q, N
  <2>1. Len(l) = Len(r) /\ \A x \in 1..Len(l) : l[x] = r[x]
    BY <1>4, <1>5, <1>6
  <2> QED BY <1>4, <1>5, <2>1
<1>9. N # 0
  BY <1>1, <1>2
<1> HIDE DEF N, q, l, r
<1> QED
  BY <1>1, <1>3, <1>7, <1>8, <1>9 DEF q, l, r
LEMMA CatAssoc ==
  ASSUME NEW S, NEW s \in Seq(S), NEW t \in Seq(S), NEW u \in Seq(S)
  PROVE  (s \o t) \o u = s \o (t \o u)
OBVIOUS

LEMMA AppendIsCat ==
  ASSUME NEW S, NEW s \in Seq(S), NEW m \in S
  PROVE  Append(s, m) = s \o <<m>> /\ <<m>> \in Seq(S)
OBVIOUS

LEMMA SplitAfter ==
  ASSUME NEW S, NEW s \in Seq(S), NEW c \in 0..Len(s)
  PROVE  LET a == SubSeq(s, 1, c)
             b == SubSeq(s, c + 1, Len(s))
         IN /\ a \in Seq(S) /\ Len(a) = c /\ \A i \in 1..c : a[i] = s[i]
            /\ b \in Seq(S) /\ Len(b) = Len(s) - c
            /\ s = a \o b
<1> DEFINE n == Len(s)
           a == SubSeq(s, 1, c)
           b == SubSeq(s, c + 1, n)
           d == a \o b
<1>1. n \in Nat /\ c \in 0..n /\ c + 1 \in 1..(n + 1)
  OBVIOUS
<1>2. a \in Seq(S) /\ Len(a) = c /\ \A i \in 1..c : a[i] = s[i]
  BY <1>1
<1>3. b \in Seq(S) /\ Len(b) = n - c /\ \A i \in 1..(n - c) : b[i] = s[c + i]
  <2>1. b \in Seq(S) /\ Len(b) = n - c
    BY <1>1
  <2>2. \A i \in 1..(n - c) : b[i] = s[(c + 1) + i - 1]
    BY <1>1
  <2>3. \A i \in 1..(n - c) : (c + 1) + i - 1 = c + i
    BY <1>1
  <2> QED BY <2>1, <2>2, <2>3
<1>4. s \in Seq(S) /\ Len(s) = n
  OBVIOUS
<1> HIDE DEF n, a, b
<1>5. d \in Seq(S) /\ Len(d) = n
  <2>1. a \in Seq(S) /\ b \in Seq(S)
    BY <1>2, <1>3
  <2>2. d \in Seq(S) /\ Len(d) = Len(a) + Len(b)
    BY <2>1
  <2>3. Len(a) + Len(b) = n
    BY <1>1, <1>2, <1>3
  <2> HIDE DEF d
  <2> QED BY <2>2, <2>3
<1>6. ASSUME NEW i \in 1..n PROVE d[i] = s[i]
  <2>1. a \in Seq(S) /\ b \in Seq(S)
    BY <1>2, <1>3
  <2>2. CASE i \in 1..c
    <3>1. i \in 1..Len(a)
      BY <1>2, <2>2
    <3>2. d[i] = a[i]
      BY <2>1, <3>1, CatLeft
    <3> HIDE DEF d
    <3> QED BY <1>2, <2>2, <3>2
  <2>3. CASE i \notin 1..c
    <3>1. i - c \in 1..(n - c) /\ c + (i - c) = i
      BY <1>1, <2>3
    <3>2. i - c \in 1..Len(b)
      BY <1>3, <3>1
    <3>3. d[Len(a) + (i - c)] = b[i - c]
      BY <2>1, <3>2, CatRight
    <3> HIDE DEF d
    <3> QED BY <1>2, <1>3, <3>1, <3>3
  <2> QED BY <2>2, <2>3
<1>7. s = d
  <2> HIDE DEF d
  <2> QED BY <1>4, <1>5, <1>6
<1> QED
  BY <1>2, <1>3, <1>7 DEF a, b, n

-----------------------------------------------------------------------------
(* The context as a whole *)

\* Where a compaction keeps from: before its summary, and at no result
\* without its call.
MayLead(m) == m.role \notin {"toolResult", "summary"}

Cut(b) ==
  \A i \in 1..Len(b) : b[i].role = "summary" =>
    b[i].keep \in 1..(i - 1) /\ MayLead(b[b[i].keep])

LEMMA LastSummaryLast ==
  ASSUME NEW b \in Seq(Entries), NEW i \in 1..Len(b), b[i].role = "summary"
  PROVE  i <= LastSummary(b)
<1> DEFINE at == {j \in DOMAIN b : b[j].role = "summary"}
<1>1. at \in SUBSET (1..Len(b)) /\ i \in at /\ Len(b) \in Nat
  OBVIOUS
<1>2. \E j \in at : \A k \in at : k <= j
  <2> HIDE DEF at
  <2> QED BY <1>1, GreatestExists
<1>3. LastSummary(b) = CHOOSE j \in at : \A k \in at : k <= j
  BY <1>1 DEF LastSummary
<1>4. \A k \in at : k <= LastSummary(b)
  <2> HIDE DEF at
  <2> QED BY <1>2, <1>3
<1> QED
  BY <1>1, <1>4

LEMMA LastSummaryOf ==
  ASSUME NEW b \in Seq(Entries), NEW c \in 0..Len(b),
         c # 0 => b[c].role = "summary",
         \A i \in 1..Len(b) : i > c => NotSummary(b[i])
  PROVE  LastSummary(b) = c
<1>1. Len(b) \in Nat /\ LastSummary(b) \in 0..Len(b)
  BY LastSummaryIs
<1>2. c <= LastSummary(b)
  <2>1. CASE c = 0
    BY <1>1, <2>1
  <2>2. CASE c # 0
    <3>1. c \in 1..Len(b) /\ b[c].role = "summary"
      BY <2>2
    <3> QED BY <3>1, LastSummaryLast
  <2> QED BY <2>1, <2>2
<1>3. ~(LastSummary(b) > c)
  <2> SUFFICES ASSUME LastSummary(b) > c PROVE FALSE
    OBVIOUS
  <2>1. LastSummary(b) \in 1..Len(b) /\ LastSummary(b) # 0
    BY <1>1
  <2>2. b[LastSummary(b)].role = "summary"
    BY <2>1, LastSummaryIs
  <2> QED BY <2>1, <2>2 DEF NotSummary
<1> QED
  BY <1>1, <1>2, <1>3

\* The summary, and all that it keeps.
LEMMA ContextForm ==
  ASSUME NEW b \in Seq(Entries), Cut(b), LastSummary(b) # 0
  PROVE  LET c == LastSummary(b)
             at == {i \in b[c].keep..Len(b) : NotSummary(b[i])}
         IN /\ c \in 1..Len(b) /\ b[c].role = "summary" /\ c \notin at
            /\ b[c].keep \in 1..(c - 1) /\ MayLead(b[b[c].keep])
            /\ at \in SUBSET (1..Len(b))
            /\ Picked(b, at) \in Seq(Entries)
            /\ ContextOf(b) = <<b[c]>> \o Picked(b, at)
<1> DEFINE c == LastSummary(b)
           n == Len(b)
           k == b[c].keep
           at == {i \in k..n : NotSummary(b[i])}
           low == {i \in k..(c - 1) : NotSummary(b[i])}
           s == SubSeq(b, 1, c)
           t == SubSeq(b, c + 1, n)
<1>1. n \in Nat /\ c \in 1..n /\ b[c].role = "summary"
  BY LastSummaryIs
<1>2. k \in 1..(c - 1) /\ MayLead(b[k])
  BY <1>1 DEF Cut
<1>3. \A i \in (c + 1)..n : NotSummary(b[i])
  <2> SUFFICES ASSUME NEW i \in (c + 1)..n, ~NotSummary(b[i]) PROVE FALSE
    OBVIOUS
  <2>1. i \in 1..n /\ ~(i <= c)
    BY <1>1
  <2>2. i <= c
    <3> HIDE DEF c
    <3> QED BY <2>1, LastSummaryLast DEF c, NotSummary
  <2> QED BY <2>1, <2>2
<1>4. /\ s \in Seq(Entries) /\ Len(s) = c /\ \A i \in 1..c : s[i] = b[i]
      /\ t \in Seq(Entries) /\ Len(t) = n - c /\ b = s \o t
  <2>1. c \in 0..Len(b)
    BY <1>1
  <2> HIDE DEF c
  <2> QED BY <2>1, SplitAfter
<1> HIDE DEF c
<1>5. c \notin at /\ at \in SUBSET (1..n)
  BY <1>1, <1>2 DEF NotSummary
<1>6. low \in SUBSET (1..c) /\ at = low \union ((c + 1)..n)
  <2>1. low \in SUBSET (1..c)
    BY <1>1, <1>2
  <2>2. \A i \in k..n : i \in k..(c - 1) \/ i = c \/ i \in (c + 1)..n
    BY <1>1, <1>2
  <2>3. (c + 1)..n \subseteq k..n /\ k..(c - 1) \subseteq k..n
    BY <1>1, <1>2
  <2> QED BY <1>1, <1>3, <2>1, <2>2, <2>3 DEF NotSummary
<1>7. \A i \in 1..n : b[i] \in Entries
  OBVIOUS
<1>8. Picked(b, low) = Picked(s, low)
  <2>1. c \in Nat /\ \A i \in low : b[i] = s[i]
    BY <1>1, <1>4, <1>6
  <2> HIDE DEF low, s
  <2> QED BY <1>6, <2>1, PickedSame
<1>9. Picked(s, low) \in Seq(Entries)
  <2>1. c \in Nat /\ \A i \in low : s[i] \in Entries
    <3>1. \A i \in 1..c : s[i] \in Entries
      BY <1>4
    <3>2. c \in Nat
      BY <1>1
    <3> QED BY <1>6, <3>1, <3>2
  <2> HIDE DEF low, s
  <2> QED BY <1>6, <2>1, PickedIs
<1>10. Picked(s \o t, low \union ((Len(s) + 1)..(Len(s) + Len(t)))) = Picked(s, low) \o t
  <2>1. s \in Seq(Entries) /\ t \in Seq(Entries)
    BY <1>4
  <2>2. low \in SUBSET (1..Len(s))
    BY <1>4, <1>6
  <2> HIDE DEF low, s, t
  <2> QED BY <2>1, <2>2, PickedCat
<1>11. (Len(s) + 1)..(Len(s) + Len(t)) = (c + 1)..n
  <2>1. Len(s) = c /\ Len(t) = n - c
    BY <1>4
  <2>2. c + (n - c) = n
    BY <1>1
  <2> HIDE DEF s, t, n
  <2> QED BY <2>1, <2>2
<1>12. Picked(b, at) = Picked(b, low) \o t
  <2> HIDE DEF at, low, s, t
  <2> QED BY <1>4, <1>6, <1>8, <1>10, <1>11
<1>13. Picked(b, at) \in Seq(Entries)
  <2>1. \A i \in at : b[i] \in Entries
    BY <1>5, <1>7
  <2> HIDE DEF at
  <2> QED BY <1>1, <1>5, <2>1, PickedIs
<1>14. ContextOf(b) = (<<b[c]>> \o Picked(b, low)) \o t
  BY <1>1 DEF ContextOf, KeptOf, c
<1>15. (<<b[c]>> \o Picked(b, low)) \o t = <<b[c]>> \o (Picked(b, low) \o t)
  <2>1. <<b[c]>> \in Seq(Entries)
    BY <1>1, <1>7
  <2>2. Picked(b, low) \in Seq(Entries) /\ t \in Seq(Entries)
    BY <1>4, <1>8, <1>9
  <2> HIDE DEF low, t
  <2> QED BY <2>1, <2>2, CatAssoc
<1> QED
  BY <1>1, <1>2, <1>5, <1>12, <1>13, <1>14, <1>15 DEF c

\* What is appended to the branch is appended to its context.
LEMMA ContextCat ==
  ASSUME NEW b \in Seq(Entries), NEW t \in Seq(Entries), Cut(b),
         \A i \in 1..Len(t) : NotSummary(t[i])
  PROVE  ContextOf(b \o t) = ContextOf(b) \o t /\ Cut(b \o t)
<1> DEFINE c == LastSummary(b)
           n == Len(b)
           m == Len(t)
           u == b \o t
<1>1. /\ n \in Nat /\ m \in Nat /\ u \in Seq(Entries) /\ Len(u) = n + m
      /\ \A i \in 1..n : u[i] = b[i]
  BY CatLeft
<1>2. \A i \in 1..m : u[n + i] = t[i]
  BY CatRight
<1>3. c \in 0..n /\ (c # 0 => b[c].role = "summary")
  BY LastSummaryIs
<1> HIDE DEF u
<1>4. ASSUME NEW i \in (n + 1)..(n + m) PROVE NotSummary(u[i])
  <2>1. i - n \in 1..m /\ n + (i - n) = i
    BY <1>1
  <2>2. u[n + (i - n)] = t[i - n]
    BY <1>2, <2>1
  <2> QED BY <2>1, <2>2
<1>5. LastSummary(u) = c
  <2>1. c \in 0..Len(u) /\ (c # 0 => u[c].role = "summary")
    BY <1>1, <1>3
  <2>2. ASSUME NEW i \in 1..Len(u), i > c PROVE NotSummary(u[i])
    <3>1. CASE i \in 1..n
      <4>1. ~(i <= c)
        BY <1>1, <1>3, <2>2
      <4>2. b[i].role # "summary"
        BY <3>1, <4>1, LastSummaryLast
      <4> QED BY <1>1, <3>1, <4>2 DEF NotSummary
    <3>2. CASE i \notin 1..n
      <4>1. i \in (n + 1)..(n + m)
        BY <1>1, <3>2
      <4> QED BY <1>4, <4>1
    <3> QED BY <3>1, <3>2
  <2> HIDE DEF c
  <2> QED BY <1>1, <2>1, <2>2, LastSummaryOf
<1>6. Cut(u)
  <2> SUFFICES ASSUME NEW i \in 1..Len(u), u[i].role = "summary"
               PROVE  u[i].keep \in 1..(i - 1) /\ MayLead(u[u[i].keep])
    BY DEF Cut
  <2>1. i \in 1..n
    <3> SUFFICES ASSUME i \notin 1..n PROVE FALSE
      OBVIOUS
    <3>1. i \in (n + 1)..(n + m)
      BY <1>1
    <3> QED BY <1>4, <3>1 DEF NotSummary
  <2>2. b[i].keep \in 1..(i - 1) /\ MayLead(b[b[i].keep]) /\ u[i] = b[i]
    BY <1>1, <2>1 DEF Cut
  <2>3. b[i].keep \in 1..n
    BY <1>1, <2>1, <2>2
  <2> QED BY <1>1, <2>2, <2>3
<1>7. ContextOf(u) = ContextOf(b) \o t
  <2>1. CASE c = 0
    BY <1>5, <2>1 DEF ContextOf, u
  <2>2. CASE c # 0
    <3> DEFINE k == b[c].keep
               at == {i \in k..n : NotSummary(b[i])}
               bt == {i \in k..(n + m) : NotSummary(u[i])}
    <3>1. /\ c \in 1..n /\ k \in 1..(c - 1) /\ at \in SUBSET (1..n)
          /\ Picked(b, at) \in Seq(Entries)
          /\ ContextOf(b) = <<b[c]>> \o Picked(b, at)
      BY <2>2, ContextForm
    <3>2. u[c] = b[c]
      BY <1>1, <3>1
    <3>3. ContextOf(u) = <<u[LastSummary(u)]>> \o
            Picked(u, {i \in u[LastSummary(u)].keep..Len(u) : NotSummary(u[i])})
      <4> HIDE DEF c
      <4> QED BY <1>1, <1>5, <1>6, <2>2, ContextForm
    <3>4. ContextOf(u) = <<b[c]>> \o Picked(u, bt)
      BY <1>1, <1>5, <3>2, <3>3
    <3>5. bt = at \union ((n + 1)..(n + m))
      <4> HIDE DEF c
      <4>1. \A i \in k..(n + m) : i \in k..n \/ i \in (n + 1)..(n + m)
        BY <1>1, <3>1
      <4>2. /\ k..n \subseteq k..(n + m) /\ (n + 1)..(n + m) \subseteq k..(n + m)
            /\ k..n \subseteq 1..n
        BY <1>1, <3>1
      <4>3. \A i \in k..n : u[i] = b[i]
        BY <1>1, <4>2
      <4> HIDE DEF n, m
      <4> QED BY <1>4, <4>1, <4>2, <4>3
    <3>6. Picked(b \o t, at \union ((Len(b) + 1)..(Len(b) + Len(t)))) = Picked(b, at) \o t
      <4> HIDE DEF at, c, k, m, n, u, bt
      <4>1. \A x \in SUBSET (1..Len(b)) :
              Picked(b \o t, x \union ((Len(b) + 1)..(Len(b) + Len(t))))
                = Picked(b, x) \o t
        BY PickedCat
      <4>2. at \in SUBSET (1..Len(b))
        BY <3>1 DEF n
      <4> QED BY <4>1, <4>2
    <3>7. Picked(u, bt) = Picked(b, at) \o t
      BY <3>5, <3>6 DEF u
    <3>8. (<<b[c]>> \o Picked(b, at)) \o t = <<b[c]>> \o (Picked(b, at) \o t)
      <4>1. <<b[c]>> \in Seq(Entries)
        <5>1. b[c] \in Entries
          BY <3>1
        <5> QED BY <5>1
      <4>2. Picked(b, at) \in Seq(Entries) /\ t \in Seq(Entries)
        BY <3>1
      <4> HIDE DEF at, c
      <4> QED BY <4>1, <4>2, CatAssoc
    <3> QED BY <3>1, <3>4, <3>7, <3>8
  <2> QED BY <2>1, <2>2
<1> QED
  BY <1>6, <1>7 DEF u
-----------------------------------------------------------------------------
(* Calls and results *)

\* The call at a position has its results, unless it is the one at the end or
\* its batch was broken off.
CallPaired(s, i, end, B) ==
  i # end /\ IsToolCall(s[i]) /\ s[i].id \notin B =>
    \A k \in 1..s[i].calls : i + k <= Len(s) /\ IsResult(s[i + k])

\* The result at a position is one of a call.
ResultPaired(s, i) ==
  IsResult(s[i]) =>
    \E j \in 1..(i - 1) :
      /\ IsToolCall(s[j]) /\ i - j <= s[j].calls
      /\ \A k \in (j + 1)..i : IsResult(s[k])

PairedTo(s, end, B) ==
  \A i \in 1..Len(s) : CallPaired(s, i, end, B) /\ ResultPaired(s, i)

\* Every call has its results, or all but the one whose batch m is: it has some.
Closed(s, B) == PairedTo(s, 0, B)
Open(s, m, r, B) ==
  \E end \in 1..Len(s) :
    /\ s[end] = m /\ IsToolCall(m) /\ Len(s) - end = r /\ r <= m.calls
    /\ \A k \in (end + 1)..Len(s) : IsResult(s[k])
    /\ PairedTo(s, end, B)

\* What follows does not part them.
LEMMA PairedLonger ==
  ASSUME NEW s \in Seq(Entries), NEW u \in Seq(Entries), Len(s) <= Len(u),
         \A i \in 1..Len(s) : u[i] = s[i],
         NEW end \in Nat, NEW B, NEW i \in 1..Len(s),
         CallPaired(s, i, end, B), ResultPaired(s, i)
  PROVE  CallPaired(u, i, end, B) /\ ResultPaired(u, i)
<1> DEFINE n == Len(s)
           m == Len(u)
<1>1. n \in Nat /\ m \in Nat /\ n <= m /\ i \in 1..n /\ u[i] = s[i]
  OBVIOUS
<1>2. \A j \in 1..n : u[j] = s[j] /\ s[j].calls \in Nat
  <2>1. \A j \in 1..n : u[j] = s[j] /\ s[j] \in Entries
    OBVIOUS
  <2> QED BY <2>1 DEF Entries
<1>3. CallPaired(u, i, end, B)
  <2> SUFFICES ASSUME i # end, IsToolCall(u[i]), u[i].id \notin B, NEW k \in 1..u[i].calls
               PROVE  i + k <= Len(u) /\ IsResult(u[i + k])
    BY DEF CallPaired
  <2>1. i + k <= n /\ IsResult(s[i + k])
    BY <1>1 DEF CallPaired
  <2> HIDE DEF n, m
  <2>2. i + k \in 1..n /\ i + k <= m
    BY <1>1, <1>2, <2>1
  <2> QED BY <1>2, <2>1, <2>2 DEF m
<1>4. ResultPaired(u, i)
  <2> SUFFICES ASSUME IsResult(u[i])
               PROVE  \E j \in 1..(i - 1) :
                        /\ IsToolCall(u[j]) /\ i - j <= u[j].calls
                        /\ \A k \in (j + 1)..i : IsResult(u[k])
    BY DEF ResultPaired
  <2>1. PICK j \in 1..(i - 1) :
          /\ IsToolCall(s[j]) /\ i - j <= s[j].calls
          /\ \A k \in (j + 1)..i : IsResult(s[k])
    BY <1>1 DEF ResultPaired
  <2> HIDE DEF n, m
  <2>2. u[j] = s[j] /\ \A k \in (j + 1)..i : u[k] = s[k]
    BY <1>1, <1>2
  <2> QED BY <2>1, <2>2
<1> QED
  BY <1>3, <1>4

LEMMA ClosedCat ==
  ASSUME NEW B, NEW s \in Seq(Entries), NEW t \in Seq(Entries), Closed(s, B), Closed(t, B)
  PROVE  Closed(s \o t, B)
<1> DEFINE n == Len(s)
           m == Len(t)
           u == s \o t
<1>1. n \in Nat /\ m \in Nat /\ Len(u) = n + m /\ u \in Seq(Entries)
  OBVIOUS
<1>2. \A i \in 1..n : u[i] = s[i]
  BY CatLeft
<1>3. \A i \in 1..m : u[n + i] = t[i] /\ t[i].calls \in Nat
  <2>1. \A i \in 1..m : u[n + i] = t[i]
    BY CatRight
  <2>2. \A i \in 1..m : t[i] \in Entries
    OBVIOUS
  <2> QED BY <2>1, <2>2 DEF Entries
<1> SUFFICES ASSUME NEW i \in 1..(n + m)
             PROVE  CallPaired(u, i, 0, B) /\ ResultPaired(u, i)
  BY <1>1 DEF Closed, PairedTo
<1> HIDE DEF u
<1>4. CASE i \in 1..n
  <2>1. CallPaired(s, i, 0, B) /\ ResultPaired(s, i)
    BY <1>4 DEF Closed, PairedTo
  <2>2. Len(s) <= Len(u)
    BY <1>1
  <2> QED BY <1>1, <1>2, <1>4, <2>1, <2>2, PairedLonger
<1>5. CASE i \notin 1..n
  <2> DEFINE x == i - n
  <2>1. x \in 1..m /\ n + x = i
    BY <1>1, <1>5
  <2> HIDE DEF x
  <2>2. CallPaired(t, x, 0, B) /\ ResultPaired(t, x) /\ u[i] = t[x] /\ t[x].calls \in Nat
    BY <1>3, <2>1 DEF Closed, PairedTo
  <2>3. CallPaired(u, i, 0, B)
    <3> SUFFICES ASSUME IsToolCall(u[i]), u[i].id \notin B, NEW k \in 1..u[i].calls
                 PROVE  i + k <= Len(u) /\ IsResult(u[i + k])
      BY DEF CallPaired
    <3>1. x + k <= m /\ IsResult(t[x + k])
      BY <2>1, <2>2 DEF CallPaired
    <3> HIDE DEF n, m
    <3>2. x + k \in 1..m /\ n + (x + k) = i + k /\ i + k <= Len(u)
      BY <1>1, <2>1, <2>2, <3>1
    <3>3. u[n + (x + k)] = t[x + k]
      BY <1>3, <3>2
    <3> QED BY <3>1, <3>2, <3>3
  <2>4. ResultPaired(u, i)
    <3> SUFFICES ASSUME IsResult(u[i])
                 PROVE  \E j \in 1..(i - 1) :
                          /\ IsToolCall(u[j]) /\ i - j <= u[j].calls
                          /\ \A k \in (j + 1)..i : IsResult(u[k])
      BY DEF ResultPaired
    <3>1. PICK j \in 1..(x - 1) :
            /\ IsToolCall(t[j]) /\ x - j <= t[j].calls
            /\ \A k \in (j + 1)..x : IsResult(t[k])
      BY <2>2 DEF ResultPaired
    <3> HIDE DEF n, m
    <3>2. j \in 1..m /\ n + j \in 1..(i - 1) /\ i - (n + j) = x - j
      BY <1>1, <2>1
    <3>3. u[n + j] = t[j]
      BY <1>3, <3>2
    <3>4. ASSUME NEW k \in (n + j + 1)..i PROVE IsResult(u[k])
      <4> DEFINE y == k - n
      <4>1. y \in (j + 1)..x /\ y \in 1..m /\ n + y = k
        BY <1>1, <2>1, <3>2
      <4> HIDE DEF y
      <4>2. u[n + y] = t[y] /\ IsResult(t[y])
        BY <1>3, <3>1, <4>1
      <4> QED BY <4>1, <4>2
    <3> QED BY <3>1, <3>2, <3>3, <3>4
  <2> QED BY <2>3, <2>4
<1> QED
  BY <1>4, <1>5

Neutral(m) == ~IsToolCall(m) /\ ~IsResult(m)

LEMMA ClosedNeutral ==
  ASSUME NEW s, NEW B, \A i \in 1..Len(s) : Neutral(s[i])
  PROVE  Closed(s, B)
BY DEF Closed, PairedTo, CallPaired, ResultPaired, Neutral

LEMMA ClosedAppend ==
  ASSUME NEW B, NEW s \in Seq(Entries), NEW m \in Entries, Closed(s, B), Neutral(m)
  PROVE  Closed(Append(s, m), B)
<1>1. Append(s, m) = s \o <<m>> /\ <<m>> \in Seq(Entries)
  BY AppendIsCat
<1>2. Closed(<<m>>, B)
  <2>1. \A i \in 1..Len(<<m>>) : <<m>>[i] = m
    OBVIOUS
  <2> QED BY <2>1, ClosedNeutral
<1>3. Closed(s \o <<m>>, B)
  BY <1>1, <1>2, ClosedCat
<1> QED
  BY <1>1, <1>3

LEMMA CallAppend ==
  ASSUME NEW B, NEW s \in Seq(Entries), NEW m \in Entries, Closed(s, B), IsToolCall(m)
  PROVE  Open(Append(s, m), m, 0, B)
<1> DEFINE n == Len(s)
           u == Append(s, m)
<1>1. /\ n \in Nat /\ Len(u) = n + 1 /\ u[n + 1] = m /\ u \in Seq(Entries)
      /\ \A i \in 1..n : u[i] = s[i]
  OBVIOUS
<1>2. m.calls \in Nat
  BY DEF Entries
<1> HIDE DEF u
<1>3. ASSUME NEW i \in 1..(n + 1)
      PROVE  CallPaired(u, i, n + 1, B) /\ ResultPaired(u, i)
  <2>1. CASE i = n + 1
    <3>1. ~IsResult(u[i])
      BY <1>1, <2>1 DEF IsToolCall, IsResult
    <3> QED BY <2>1, <3>1 DEF CallPaired, ResultPaired
  <2>2. CASE i # n + 1
    <3>1. i \in 1..n
      BY <1>1, <2>2
    <3>2. CallPaired(s, i, 0, B) /\ ResultPaired(s, i)
      BY <3>1 DEF Closed, PairedTo
    <3>3. CallPaired(s, i, n + 1, B)
      BY <3>1, <3>2 DEF CallPaired
    <3>4. Len(s) <= Len(u) /\ n + 1 \in Nat
      BY <1>1
    <3> QED BY <1>1, <3>1, <3>2, <3>3, <3>4, PairedLonger
  <2> QED BY <2>1, <2>2
<1>4. PairedTo(u, n + 1, B)
  BY <1>1, <1>3 DEF PairedTo
<1>5. n + 1 \in 1..Len(u) /\ Len(u) - (n + 1) = 0 /\ 0 <= m.calls
      /\ \A k \in (n + 1 + 1)..Len(u) : FALSE
  BY <1>1, <1>2
<1> QED
  BY <1>1, <1>4, <1>5 DEF Open, u

LEMMA ResultAppend ==
  ASSUME NEW B, NEW s \in Seq(Entries), NEW m \in Entries, IsResult(m),
         NEW a \in Entries, NEW r \in Nat, Open(s, a, r, B), r < a.calls
  PROVE  Open(Append(s, m), a, r + 1, B)
<1> DEFINE n == Len(s)
           u == Append(s, m)
<1>1. /\ n \in Nat /\ Len(u) = n + 1 /\ u[n + 1] = m /\ u \in Seq(Entries)
      /\ \A i \in 1..n : u[i] = s[i]
  OBVIOUS
<1>2. PICK e \in 1..n :
        /\ s[e] = a /\ IsToolCall(a) /\ n - e = r
        /\ \A k \in (e + 1)..n : IsResult(s[k])
        /\ PairedTo(s, e, B)
  BY DEF Open
<1>3. a.calls \in Nat
  BY DEF Entries
<1> HIDE DEF u
<1>4. /\ e \in 1..Len(u) /\ u[e] = a /\ Len(u) - e = r + 1 /\ r + 1 <= a.calls
  BY <1>1, <1>2, <1>3
<1>5. ASSUME NEW k \in (e + 1)..Len(u) PROVE IsResult(u[k])
  <2>1. k = n + 1 \/ k \in (e + 1)..n
    BY <1>1
  <2>2. k \in (e + 1)..n => u[k] = s[k]
    BY <1>1
  <2> QED BY <1>1, <1>2, <2>1, <2>2
<1>6. ASSUME NEW i \in 1..(n + 1)
      PROVE  CallPaired(u, i, e, B) /\ ResultPaired(u, i)
  <2>1. CASE i = n + 1
    <3>1. ~IsToolCall(u[i])
      BY <1>1, <2>1 DEF IsToolCall, IsResult
    <3>2. e \in 1..(i - 1) /\ i - e <= u[e].calls /\ IsToolCall(u[e])
      BY <1>1, <1>2, <1>3, <1>4, <2>1
    <3>3. \A k \in (e + 1)..i : IsResult(u[k])
      BY <1>1, <1>5, <2>1
    <3> QED BY <3>1, <3>2, <3>3 DEF CallPaired, ResultPaired
  <2>2. CASE i # n + 1
    <3>1. i \in 1..n
      BY <1>1, <2>2
    <3>2. CallPaired(s, i, e, B) /\ ResultPaired(s, i)
      BY <1>2, <3>1 DEF PairedTo
    <3>3. Len(s) <= Len(u) /\ e \in Nat
      BY <1>1
    <3> QED BY <1>1, <3>1, <3>2, <3>3, PairedLonger
  <2> QED BY <2>1, <2>2
<1>7. PairedTo(u, e, B)
  BY <1>1, <1>6 DEF PairedTo
<1> QED
  BY <1>2, <1>4, <1>5, <1>7 DEF Open, u

\* A batch that is broken off, or has all its results.
LEMMA BatchCloses ==
  ASSUME NEW B, NEW s \in Seq(Entries), NEW a \in Entries, NEW r \in Nat,
         Open(s, a, r, B), NEW C, B \subseteq C, a.id \in C \/ r = a.calls
  PROVE  Closed(s, C)
<1> DEFINE n == Len(s)
<1>1. n \in Nat
  OBVIOUS
<1>2. PICK e \in 1..n :
        /\ s[e] = a /\ n - e = r
        /\ \A k \in (e + 1)..n : IsResult(s[k])
        /\ PairedTo(s, e, B)
  BY DEF Open
<1>3. a.calls \in Nat
  BY DEF Entries
<1> SUFFICES ASSUME NEW i \in 1..n PROVE CallPaired(s, i, 0, C) /\ ResultPaired(s, i)
  BY DEF Closed, PairedTo
<1>4. CallPaired(s, i, e, B) /\ ResultPaired(s, i)
  BY <1>2 DEF PairedTo
<1>5. CASE i # e
  BY <1>4, <1>5 DEF CallPaired
<1>6. CASE i = e /\ a.id \in C
  BY <1>2, <1>4, <1>6 DEF CallPaired
<1>7. CASE i = e /\ r = a.calls
  <2> HIDE DEF n
  <2>1. \A k \in 1..a.calls : e + k <= n /\ e + k \in (e + 1)..n
    BY <1>1, <1>2, <1>3, <1>7
  <2>2. \A k \in 1..s[i].calls : i + k <= n /\ IsResult(s[i + k])
    BY <1>2, <1>7, <2>1
  <2> QED BY <1>4, <2>2 DEF CallPaired, n
<1> QED
  BY <1>5, <1>6, <1>7

LEMMA ClosedMore ==
  ASSUME NEW s, NEW B, NEW C, B \subseteq C, Closed(s, B)
  PROVE  Closed(s, C)
BY DEF Closed, PairedTo, CallPaired

LEMMA OpenMeans ==
  ASSUME NEW s \in Seq(Entries), NEW B, NEW a, NEW r, Open(s, a, r, B)
  PROVE  /\ IsToolCall(a) /\ s # <<>>
         /\ r = 0 => s[Len(s)] = a
         /\ r # 0 => IsResult(s[Len(s)])
<1>1. PICK e \in 1..Len(s) :
        /\ s[e] = a /\ IsToolCall(a) /\ Len(s) - e = r
        /\ \A k \in (e + 1)..Len(s) : IsResult(s[k])
  BY DEF Open
<1>2. Len(s) \in Nat
  OBVIOUS
<1>3. r = 0 => e = Len(s)
  BY <1>1, <1>2
<1>4. r # 0 => Len(s) \in (e + 1)..Len(s)
  BY <1>1, <1>2
<1>5. s # <<>>
  BY <1>1, <1>2
<1> QED
  BY <1>1, <1>3, <1>4, <1>5

\* The last one is left out.
LEMMA PairedButLast ==
  ASSUME NEW s \in Seq(Entries), NEW u \in Seq(Entries), Len(s) = Len(u) + 1,
         \A i \in 1..Len(u) : u[i] = s[i],
         NEW end \in Nat, NEW B, PairedTo(s, end, B),
         \/ ~IsResult(s[Len(s)])
         \/ /\ end \in 1..Len(s) /\ IsToolCall(s[end])
            /\ \A k \in (end + 1)..Len(s) : IsResult(s[k])
  PROVE  PairedTo(u, end, B)
<1> DEFINE n == Len(s)
           m == Len(u)
<1>1. n \in Nat /\ m \in Nat /\ n = m + 1
  OBVIOUS
<1>2. \A j \in 1..m : u[j] = s[j] /\ s[j].calls \in Nat
  <2>1. \A j \in 1..m : u[j] \in Entries
    OBVIOUS
  <2> QED BY <2>1 DEF Entries
<1> SUFFICES ASSUME NEW i \in 1..m
             PROVE  CallPaired(u, i, end, B) /\ ResultPaired(u, i)
  BY DEF PairedTo
<1>3. i \in 1..n /\ u[i] = s[i]
  BY <1>1, <1>2
<1>4. CallPaired(s, i, end, B) /\ ResultPaired(s, i)
  BY <1>3 DEF PairedTo
<1>5. CallPaired(u, i, end, B)
  <2> SUFFICES ASSUME i # end, IsToolCall(u[i]), u[i].id \notin B, NEW k \in 1..u[i].calls
               PROVE  i + k <= m /\ IsResult(u[i + k])
    BY DEF CallPaired
  <2>1. i + k <= n /\ IsResult(s[i + k]) /\ \A x \in 1..s[i].calls : IsResult(s[i + x])
    BY <1>3, <1>4 DEF CallPaired
  <2>2. k \in 1..s[i].calls /\ s[i].calls \in Nat
    BY <1>2, <1>3
  <2> HIDE DEF m
  <2>3. i + k # n
    <3> SUFFICES ASSUME i + k = n PROVE FALSE
      OBVIOUS
    <3>1. IsResult(s[n])
      BY <2>1
    <3>2. /\ end \in 1..n /\ IsToolCall(s[end])
          /\ \A x \in (end + 1)..n : IsResult(s[x])
      BY <3>1
    <3> HIDE DEF n
    <3>3. ~(end < i)
      <4>1. end < i => i \in (end + 1)..n
        BY <1>1, <1>3, <3>2
      <4>2. ~IsResult(s[i])
        BY <1>3 DEF IsToolCall, IsResult
      <4> QED BY <3>2, <4>1, <4>2
    <3>4. end - i \in 1..s[i].calls /\ i + (end - i) = end
      BY <1>1, <1>3, <2>2, <3>2, <3>3
    <3>5. IsResult(s[end])
      BY <2>1, <3>4
    <3> QED BY <3>2, <3>5 DEF IsToolCall, IsResult
  <2> HIDE DEF n
  <2>4. i + k \in 1..m
    BY <1>1, <1>3, <2>1, <2>2, <2>3
  <2> QED BY <1>1, <1>2, <2>1, <2>4
<1>6. ResultPaired(u, i)
  <2> SUFFICES ASSUME IsResult(u[i])
               PROVE  \E j \in 1..(i - 1) :
                        /\ IsToolCall(u[j]) /\ i - j <= u[j].calls
                        /\ \A k \in (j + 1)..i : IsResult(u[k])
    BY DEF ResultPaired
  <2>1. PICK j \in 1..(i - 1) :
          /\ IsToolCall(s[j]) /\ i - j <= s[j].calls
          /\ \A k \in (j + 1)..i : IsResult(s[k])
    BY <1>3, <1>4 DEF ResultPaired
  <2> HIDE DEF n, m
  <2>2. u[j] = s[j] /\ \A k \in (j + 1)..i : u[k] = s[k]
    BY <1>1, <1>2
  <2> QED BY <2>1, <2>2
<1> QED
  BY <1>5, <1>6

LEMMA ShortIs ==
  ASSUME NEW S, NEW s \in Seq(S), Len(s) >= 1
  PROVE  LET u == SubSeq(s, 1, Len(s) - 1)
         IN u \in Seq(S) /\ Len(u) = Len(s) - 1 /\ \A i \in 1..(Len(s) - 1) : u[i] = s[i]
<1>0. Len(s) - 1 \in 0..Len(s)
  OBVIOUS
<1>1. PICK c \in 0..Len(s) : c = Len(s) - 1
  BY <1>0
<1>2. LET a == SubSeq(s, 1, c)
      IN a \in Seq(S) /\ Len(a) = c /\ \A i \in 1..c : a[i] = s[i]
  BY SplitAfter
<1> QED
  BY <1>1, <1>2

LEMMA ClosedShort ==
  ASSUME NEW B, NEW s \in Seq(Entries), Closed(s, B)
  PROVE  WithoutAnswer(s) \in Seq(Entries) /\ Closed(WithoutAnswer(s), B)
<1>1. CASE LastOf(s).role # "assistant"
  BY <1>1 DEF WithoutAnswer
<1>2. CASE LastOf(s).role = "assistant"
  <2> DEFINE n == Len(s)
             u == SubSeq(s, 1, n - 1)
  <2>1. s # <<>> /\ n \in Nat /\ n >= 1 /\ s[n].role = "assistant"
    BY <1>2 DEF LastOf, None, Message
  <2>2. u \in Seq(Entries) /\ Len(u) = n - 1 /\ \A i \in 1..(n - 1) : u[i] = s[i]
    BY <2>1, ShortIs
  <2>3. WithoutAnswer(s) = u
    BY <1>2 DEF WithoutAnswer
  <2> HIDE DEF u
  <2>4. Len(s) = Len(u) + 1 /\ (\A i \in 1..Len(u) : u[i] = s[i]) /\ ~IsResult(s[n])
    BY <2>1, <2>2 DEF IsResult
  <2>5. PairedTo(u, 0, B)
    BY <2>2, <2>4, PairedButLast DEF Closed
  <2> QED BY <2>2, <2>3, <2>5 DEF Closed
<1> QED
  BY <1>1, <1>2

\* The entry that was to be written is not.
LEMMA UnwrittenCloses ==
  ASSUME NEW B, NEW b \in Seq(Entries), NEW m \in Entries,
         Closed(Append(b, m), B), ~IsResult(m)
  PROVE  Closed(b, B)
<1> DEFINE u == Append(b, m)
<1>1. /\ u \in Seq(Entries) /\ Len(u) = Len(b) + 1 /\ u[Len(u)] = m
      /\ \A i \in 1..Len(b) : b[i] = u[i]
  OBVIOUS
<1>2. PairedTo(u, 0, B)
  BY DEF Closed
<1> HIDE DEF u
<1> QED
  BY <1>1, <1>2, PairedButLast DEF Closed

LEMMA UnwrittenBreaks ==
  ASSUME NEW B, NEW b \in Seq(Entries), NEW m \in Entries, NEW a \in Entries,
         NEW r \in Nat, Open(Append(b, m), a, r, B)
  PROVE  Closed(b, B \union {a.id})
<1> DEFINE u == Append(b, m)
           n == Len(u)
           C == B \union {a.id}
<1>1. /\ u \in Seq(Entries) /\ n = Len(b) + 1 /\ u[n] = m
      /\ \A i \in 1..Len(b) : b[i] = u[i]
  OBVIOUS
<1>2. PICK e \in 1..n :
        /\ u[e] = a /\ IsToolCall(a)
        /\ \A k \in (e + 1)..n : IsResult(u[k])
        /\ PairedTo(u, e, B)
  BY DEF Open
<1> HIDE DEF u
<1>3. PairedTo(b, e, B)
  BY <1>1, <1>2, PairedButLast
<1>4. ASSUME NEW i \in 1..Len(b) PROVE CallPaired(b, i, 0, C) /\ ResultPaired(b, i)
  <2>1. CallPaired(b, i, e, B) /\ ResultPaired(b, i) /\ b[i] = u[i]
    BY <1>1, <1>3 DEF PairedTo
  <2>2. CASE i = e
    BY <1>2, <2>1, <2>2 DEF CallPaired
  <2>3. CASE i # e
    BY <2>1, <2>3 DEF CallPaired
  <2> QED BY <2>1, <2>2, <2>3
<1> QED
  BY <1>4 DEF Closed, PairedTo

\* The positions of a run have ranks of a run.
LEMMA RankRun ==
  ASSUME NEW n \in Nat, NEW at \in SUBSET (1..n), NEW i \in at, NEW j \in at, i <= j,
         \A k \in i..j : k \in at
  PROVE  Rank(at, j) = Rank(at, i) + (j - i)
<1> DEFINE low == {k \in at : k <= i}
           mid == (i + 1)..j
           high == {k \in at : k <= j}
<1>1. IsFiniteSet(at) /\ low \in SUBSET at
  BY SomeOf
<1>2. i \in Int /\ j \in Int /\ \A k \in at : k \in Int
  OBVIOUS
<1>3. high = low \union mid /\ low \cap mid = {}
  <2>1. \A k \in at : k <= j <=> k <= i \/ k \in mid
    BY <1>2
  <2>2. \A k \in mid : k \in at /\ ~(k <= i)
    BY <1>2
  <2> HIDE DEF mid
  <2> QED BY <2>1, <2>2
<1>4. IsFiniteSet(mid) /\ Cardinality(mid) = j - i
  <2>1. IsFiniteSet(mid) /\ Cardinality(mid) = IF i + 1 <= j THEN j - (i + 1) + 1 ELSE 0
    BY <1>2, FS_Interval
  <2> QED BY <1>2, <2>1
<1> HIDE DEF low, mid, high
<1>5. IsFiniteSet(low)
  BY <1>1, FS_Subset
<1>6. Cardinality(low \union mid)
        = Cardinality(low) + Cardinality(mid) - Cardinality(low \cap mid)
  BY <1>4, <1>5, FS_Union
<1>7. Cardinality(low \cap mid) = 0 /\ Cardinality(low) \in Nat
  BY <1>3, <1>5, FS_EmptySet, FS_CardinalityType
<1>8. Cardinality(high) = Cardinality(low) + (j - i)
  BY <1>2, <1>3, <1>4, <1>6, <1>7
<1> QED
  BY <1>8 DEF Rank, low, high

RunIn(at, i, j) ==
  /\ \E n \in Nat : at \in SUBSET (1..n)
  /\ i \in at /\ j \in at /\ i <= j
  /\ \A k \in i..j : k \in at

\* What stands in a run of positions stands in a run.
LEMMA PickedRun ==
  ASSUME NEW s, NEW at, NEW i, NEW j, RunIn(at, i, j)
  PROVE  /\ Rank(at, i) \in 1..Cardinality(at)
         /\ Rank(at, i) + (j - i) \in 1..Cardinality(at)
         /\ Rank(at, j) = Rank(at, i) + (j - i)
         /\ \A k \in 0..(j - i) : Picked(s, at)[Rank(at, i) + k] = s[i + k]
<1>a. PICK n \in Nat : at \in SUBSET (1..n)
  BY DEF RunIn
<1>b. i \in at /\ j \in at /\ i <= j /\ \A k \in i..j : k \in at
  BY DEF RunIn
<1>c. i \in Int /\ j \in Int
  BY <1>a, <1>b
<1>1. Rank(at, j) = Rank(at, i) + (j - i)
  BY <1>a, <1>b, RankRun
<1>2. Rank(at, i) \in 1..Cardinality(at) /\ Rank(at, j) \in 1..Cardinality(at)
  BY <1>a, <1>b, RankIs
<1>3. ASSUME NEW k \in 0..(j - i)
      PROVE  Picked(s, at)[Rank(at, i) + k] = s[i + k]
  <2> DEFINE y == i + k
  <2>1. y \in i..j /\ i <= y /\ y - i = k /\ \A z \in i..y : z \in i..j
    BY <1>c
  <2>2. y \in at /\ \A z \in i..y : z \in at
    BY <1>b, <2>1
  <2> HIDE DEF y
  <2>3. Rank(at, y) = Rank(at, i) + k
    BY <1>a, <1>b, <2>1, <2>2, RankRun
  <2>4. Picked(s, at)[Rank(at, y)] = s[y]
    BY <1>a, <2>2, PickedAt
  <2> QED BY <2>2, <2>3, <2>4 DEF y
<1> QED
  BY <1>1, <1>2, <1>3

\* A compaction's context has the calls and results of the branch together.
LEMMA ClosedContext ==
  ASSUME NEW B, NEW b \in Seq(Entries), Cut(b), Closed(b, B)
  PROVE  ContextOf(b) \in Seq(Entries) /\ Closed(ContextOf(b), B)
<1> DEFINE c == LastSummary(b)
           n == Len(b)
           first == b[c].keep
           at == {i \in first..n : NotSummary(b[i])}
           q == Picked(b, at)
           N == Cardinality(at)
<1>1. CASE c = 0
  BY <1>1 DEF ContextOf
<1>2. CASE c # 0
  <2>0. /\ c \in 1..n /\ b[c].role = "summary" /\ c \notin at
        /\ first \in 1..(c - 1) /\ MayLead(b[first])
        /\ at \in SUBSET (1..n) /\ q \in Seq(Entries)
        /\ ContextOf(b) = <<b[c]>> \o q
    BY <1>2, ContextForm
  <2>a. n \in Nat
    OBVIOUS
  <2>1. /\ c \in 1..n /\ n \in Nat /\ b[c].role = "summary" /\ c \notin at
        /\ first \in 1..(c - 1) /\ MayLead(b[first])
        /\ at \in SUBSET (1..n) /\ q \in Seq(Entries)
        /\ ContextOf(b) = <<b[c]>> \o q
    <3> HIDE DEF c, n, first, at, q
    <3> QED BY <2>0, <2>a
  <2>b. \A i \in 1..n : b[i] \in Entries
    OBVIOUS
  <2>c. /\ \A i \in 1..n : b[i].calls \in Nat
        /\ \A i \in 1..n : IsToolCall(b[i]) \/ IsResult(b[i]) => NotSummary(b[i])
        /\ ~IsResult(b[first])
    <3>1. \A i \in 1..n : b[i].calls \in Nat
      BY <2>b DEF Entries
    <3>2. \A i \in 1..n : IsToolCall(b[i]) \/ IsResult(b[i]) => NotSummary(b[i])
      BY DEF IsToolCall, IsResult, NotSummary
    <3>3. ~IsResult(b[first])
      BY <2>1 DEF MayLead, IsResult
    <3> QED BY <3>1, <3>2, <3>3
  <2>d. \A i \in 1..n : CallPaired(b, i, 0, B) /\ ResultPaired(b, i)
    BY DEF Closed, PairedTo
  <2>e. \A i \in first..n : NotSummary(b[i]) => i \in at
    OBVIOUS
  <2>f. \A i \in at : i \in first..n
    OBVIOUS
  <2>2. N \in Nat /\ Len(q) = N
    <3>1. \A i \in at : b[i] \in Entries
      BY <2>1, <2>b
    <3> HIDE DEF at
    <3> QED BY <2>1, <3>1, SomeOf, PickedIs
  <2>3. ASSUME NEW x \in 1..N
        PROVE  CallPaired(q, x, 0, B) /\ ResultPaired(q, x)
    <3>1. PICK i \in at : Rank(at, i) = x
      <4> HIDE DEF at
      <4> QED BY <2>1, RankOnto
    <3> HIDE DEF at, n, N, first, c
    <3>2. i \in 1..n /\ i \in first..n /\ q[x] = b[i]
      <4>1. Picked(b, at)[Rank(at, i)] = b[i]
        BY <2>1, PickedAt
      <4> QED BY <2>1, <2>f, <3>1, <4>1
    <3>3. CallPaired(q, x, 0, B)
      <4> SUFFICES ASSUME IsToolCall(q[x]), q[x].id \notin B, NEW k \in 1..q[x].calls
                   PROVE  x + k <= N /\ IsResult(q[x + k])
        BY <2>2 DEF CallPaired
      <4> HIDE DEF q
      <4>1. k \in 1..b[i].calls /\ b[i].calls \in Nat
        BY <2>c, <3>2
      <4>2. \A z \in 1..b[i].calls : i + z <= n /\ IsResult(b[i + z])
        <5>1. CallPaired(b, i, 0, B) /\ i # 0 /\ IsToolCall(b[i]) /\ b[i].id \notin B
          BY <2>1, <2>d, <3>2
        <5> QED BY <5>1 DEF CallPaired, n
      <4> DEFINE j == i + k
      <4>3. ASSUME NEW z \in i..j PROVE z \in at
        <5>1. CASE z = i
          BY <5>1
        <5>2. CASE z # i
          <6>1. z - i \in 1..b[i].calls /\ i + (z - i) = z
            BY <2>1, <3>2, <4>1, <5>2
          <6>2. z <= n /\ IsResult(b[z])
            BY <4>2, <6>1
          <6>3. z \in 1..n /\ z \in first..n
            BY <2>1, <3>2, <5>2, <6>2
          <6> QED BY <2>c, <2>e, <6>2, <6>3
        <5> QED BY <5>1, <5>2
      <4>4. j \in i..j /\ i <= j /\ j - i = k /\ k \in 0..(j - i)
        BY <2>1, <3>2, <4>1
      <4>5. j \in at
        BY <4>3, <4>4
      <4> HIDE DEF j
      <4>6. x + (j - i) \in 1..N /\ q[x + k] = b[i + k]
        <5>1. /\ Rank(at, i) + (j - i) \in 1..Cardinality(at)
              /\ \A z \in 0..(j - i) :
                   Picked(b, at)[Rank(at, i) + z] = b[i + z]
          <6>1. RunIn(at, i, j)
            BY <2>1, <4>3, <4>4, <4>5 DEF RunIn
          <6>2. Rank(at, i) + (j - i) \in 1..Cardinality(at)
            BY <6>1, PickedRun
          <6>3. ASSUME NEW z \in 0..(j - i)
                PROVE  Picked(b, at)[Rank(at, i) + z] = b[i + z]
            BY <6>1, PickedRun
          <6> QED BY <6>2, <6>3
        <5> QED BY <3>1, <4>4, <5>1 DEF q, N
      <4>7. IsResult(b[i + k])
        BY <4>1, <4>2
      <4> QED BY <2>2, <4>4, <4>6, <4>7
    <3>4. ResultPaired(q, x)
      <4> SUFFICES ASSUME IsResult(q[x])
                   PROVE  \E y \in 1..(x - 1) :
                            /\ IsToolCall(q[y]) /\ x - y <= q[y].calls
                            /\ \A k \in (y + 1)..x : IsResult(q[k])
        BY DEF ResultPaired
      <4> HIDE DEF q
      <4>1. PICK j \in 1..(i - 1) :
              /\ IsToolCall(b[j]) /\ i - j <= b[j].calls
              /\ \A k \in (j + 1)..i : IsResult(b[k])
        <5>1. ResultPaired(b, i) /\ IsResult(b[i])
          BY <2>d, <3>2
        <5> QED BY <5>1 DEF ResultPaired
      <4>2. ~(j < first)
        <5>1. j < first => first \in (j + 1)..i
          BY <2>1, <3>2
        <5> QED BY <2>c, <4>1, <5>1
      <4>3. ASSUME NEW z \in j..i PROVE z \in at
        <5>1. z \in 1..n /\ z \in first..n
          BY <2>1, <3>2, <4>2
        <5>2. z = j \/ z \in (j + 1)..i
          BY <2>1, <3>2
        <5> QED BY <2>c, <2>e, <4>1, <5>1, <5>2
      <4>4. j \in at /\ j <= i /\ j \in Int /\ i \in Int
        BY <2>1, <3>2, <4>3
      <4> DEFINE y == Rank(at, j)
      <4>5. /\ y \in 1..N /\ x = y + (i - j)
            /\ \A k \in 0..(i - j) : q[y + k] = b[j + k]
        <5>1. /\ Rank(at, j) \in 1..Cardinality(at)
              /\ Rank(at, i) = Rank(at, j) + (i - j)
              /\ \A k \in 0..(i - j) :
                   Picked(b, at)[Rank(at, j) + k] = b[j + k]
          <6>1. RunIn(at, j, i)
            BY <2>1, <4>3, <4>4 DEF RunIn
          <6>2. /\ Rank(at, j) \in 1..Cardinality(at)
                /\ Rank(at, i) = Rank(at, j) + (i - j)
            BY <6>1, PickedRun
          <6>3. ASSUME NEW k \in 0..(i - j)
                PROVE  Picked(b, at)[Rank(at, j) + k] = b[j + k]
            BY <6>1, PickedRun
          <6> QED BY <6>2, <6>3
        <5> QED BY <3>1, <5>1 DEF q, N
      <4> HIDE DEF y
      <4>6. y \in 1..(x - 1) /\ x - y = i - j /\ q[y + 0] = b[j + 0]
        BY <2>2, <4>4, <4>5
      <4>7. q[y] = b[j]
        BY <2>2, <4>4, <4>5, <4>6
      <4>8. ASSUME NEW k \in (y + 1)..x PROVE IsResult(q[k])
        <5>1. k - y \in 0..(i - j) /\ y + (k - y) = k /\ j + (k - y) \in (j + 1)..i
          BY <2>2, <4>4, <4>5
        <5>2. q[k] = b[j + (k - y)]
          BY <4>5, <5>1
        <5> QED BY <4>1, <5>1, <5>2
      <4> QED BY <4>1, <4>6, <4>7, <4>8
    <3> QED BY <3>3, <3>4
  <2>4. Closed(q, B)
    <3> HIDE DEF q, N
    <3> QED BY <2>2, <2>3 DEF Closed, PairedTo
  <2>5. <<b[c]>> \in Seq(Entries) /\ Closed(<<b[c]>>, B)
    <3>1. b[c] \in Entries /\ Neutral(b[c])
      BY <2>1 DEF Neutral, IsToolCall, IsResult
    <3> HIDE DEF c
    <3>2. \A i \in 1..Len(<<b[c]>>) : <<b[c]>>[i] = b[c]
      OBVIOUS
    <3> QED BY <3>1, <3>2, ClosedNeutral
  <2>6. <<b[c]>> \o q \in Seq(Entries) /\ Closed(<<b[c]>> \o q, B)
    <3> DEFINE f == <<b[c]>>
    <3>1. f \in Seq(Entries) /\ q \in Seq(Entries) /\ Closed(f, B) /\ Closed(q, B)
      BY <2>1, <2>4, <2>5
    <3> HIDE DEF f, q
    <3>2. f \o q \in Seq(Entries)
      BY <3>1
    <3>3. Closed(f \o q, B)
      BY <3>1, ClosedCat
    <3> QED BY <3>2, <3>3 DEF f
  <2> QED BY <2>1, <2>6
<1> QED
  BY <1>1, <1>2
-----------------------------------------------------------------------------
(* The steps and the pairs *)

\* The branch with the entry that is being written.
Told == IF held = None THEN branch ELSE Append(branch, held)

AllBash(s) == s \in Seq(Entries) /\ \A i \in 1..Len(s) : s[i].role = "bash"
MayKeep(b, k) == k \in 1..Len(b) /\ MayLead(b[k])

\* Calls and their results are together in the messages and in the session,
\* but for the batch that is being carried out.
Pairing ==
  ~crossed =>
    /\ IsResult(held) => phase = "tool"
    /\ IF phase = "tool"
         THEN /\ Open(messages, batch, results, brokenOff)
              /\ Open(Told, batch, results, brokenOff)
         ELSE Closed(messages, brokenOff) /\ Closed(Told, brokenOff)

\* Compactions cut where they may.
Cuts ==
  /\ NotSummary(held) /\ Cut(branch)
  /\ \A p \in Callers : pc[p] = "compact" => MayKeep(branch, local[p].keep)
  /\ cpc = "compacting" => MayKeep(branch, ckeep)

Pairs == messages \in Seq(Entries) /\ AllBash(pendingBash) /\ Pairing /\ Cuts

LEMMA KeepFromMay ==
  ASSUME NEW b \in Seq(Entries), Cut(b), NEW k \in KeepFrom(b)
  PROVE  MayKeep(b, k)
<1> DEFINE c == LastSummary(b)
           start == IF c = 0 THEN 1 ELSE b[c].keep
<1>1. c \in 0..Len(b) /\ (c # 0 => b[c].role = "summary")
  BY LastSummaryIs
<1>2. c # 0 => b[c].keep \in 1..(c - 1)
  BY <1>1 DEF Cut
<1>3. k \in start..Len(b) /\ b[k].role \notin {"summary", "toolResult"}
  BY DEF KeepFrom
<1>4. start \in Nat /\ start >= 1
  BY <1>1, <1>2
<1> HIDE DEF start
<1> QED
  BY <1>3, <1>4 DEF MayKeep, MayLead

LEMMA MayKeepCat ==
  ASSUME NEW b \in Seq(Entries), NEW t \in Seq(Entries), NEW k, MayKeep(b, k)
  PROVE  MayKeep(b \o t, k)
<1>1. b \o t \in Seq(Entries) /\ Len(b \o t) = Len(b) + Len(t)
      /\ \A i \in 1..Len(b) : (b \o t)[i] = b[i]
  OBVIOUS
<1>2. Len(b) \in Nat /\ Len(t) \in Nat
  OBVIOUS
<1> QED
  BY <1>1, <1>2 DEF MayKeep

LEMMA MayKeepAppend ==
  ASSUME NEW b \in Seq(Entries), NEW m \in Entries, NEW k, MayKeep(b, k)
  PROVE  MayKeep(Append(b, m), k)
<1>1. Append(b, m) = b \o <<m>> /\ <<m>> \in Seq(Entries)
  BY AppendIsCat
<1> QED
  BY <1>1, MayKeepCat

LEMMA CutAppend ==
  ASSUME NEW b \in Seq(Entries), NEW m \in Entries, Cut(b),
         NotSummary(m) \/ MayKeep(b, m.keep)
  PROVE  Append(b, m) \in Seq(Entries) /\ Cut(Append(b, m))
<1> DEFINE c == Append(b, m)
<1>1. c \in Seq(Entries)
  OBVIOUS
<1>2. /\ Len(c) = Len(b) + 1 /\ Len(b) \in Nat
      /\ \A i \in 1..Len(b) : c[i] = b[i]
      /\ c[Len(b) + 1] = m
  OBVIOUS
<1> HIDE DEF c
<1>3. ASSUME NEW i \in 1..Len(c), c[i].role = "summary"
      PROVE  c[i].keep \in 1..(i - 1) /\ MayLead(c[c[i].keep])
  <2>1. CASE i \in 1..Len(b)
    <3>1. b[i].keep \in 1..(i - 1) /\ MayLead(b[b[i].keep])
      BY <1>2, <1>3, <2>1 DEF Cut
    <3>2. b[i].keep \in 1..Len(b)
      BY <1>2, <2>1, <3>1
    <3> QED BY <1>2, <2>1, <3>1, <3>2
  <2>2. CASE i = Len(b) + 1
    <3>1. MayKeep(b, m.keep)
      BY <1>2, <1>3, <2>2 DEF NotSummary
    <3>2. m.keep \in 1..Len(b) /\ MayLead(b[m.keep])
      BY <3>1 DEF MayKeep
    <3>3. c[m.keep] = b[m.keep] /\ c[i] = m
      BY <1>2, <2>2, <3>2
    <3> QED BY <1>2, <2>2, <3>2, <3>3
  <2> QED BY <1>2, <1>3, <2>1, <2>2
<1> QED
  BY <1>1, <1>3 DEF Cut, c

LEMMA ContextType ==
  ASSUME NEW b \in Seq(Entries), Cut(b)
  PROVE  ContextOf(b) \in Seq(Entries)
<1>1. CASE LastSummary(b) = 0
  BY <1>1 DEF ContextOf
<1>2. CASE LastSummary(b) # 0
  <2> DEFINE c == LastSummary(b)
             at == {i \in b[c].keep..Len(b) : NotSummary(b[i])}
  <2>1. /\ c \in 1..Len(b) /\ Picked(b, at) \in Seq(Entries)
        /\ ContextOf(b) = <<b[c]>> \o Picked(b, at)
    BY <1>2, ContextForm
  <2> HIDE DEF c, at
  <2>2. <<b[c]>> \in Seq(Entries)
    BY <2>1
  <2>3. <<b[c]>> \o Picked(b, at) \in Seq(Entries)
    BY <2>1, <2>2
  <2> QED BY <2>1, <2>3
<1> QED
  BY <1>1, <1>2

LEMMA BashIsNeutral ==
  ASSUME NEW t, AllBash(t)
  PROVE  /\ t \in Seq(Entries) /\ (\A B : Closed(t, B))
         /\ \A i \in 1..Len(t) : NotSummary(t[i])
<1>1. t \in Seq(Entries) /\ \A i \in 1..Len(t) : t[i].role = "bash"
  BY DEF AllBash
<1>2. \A i \in 1..Len(t) : Neutral(t[i]) /\ NotSummary(t[i])
  BY <1>1 DEF Neutral, IsToolCall, IsResult, NotSummary
<1>3. ASSUME NEW B PROVE Closed(t, B)
  BY <1>2, ClosedNeutral
<1> QED
  BY <1>1, <1>2, <1>3

\* Where no run is under way, the messages and the branch are rebuilt and
\* what was held back follows.
LEMMA RebuildPairs ==
  ASSUME Pairs, NEW b \in Seq(Entries), NEW msgs \in Seq(Entries), Cut(b),
         ~crossed => Closed(b, brokenOff) /\ Closed(msgs, brokenOff),
         NEW t, AllBash(t), AllBash(pendingBash'),
         messages' = msgs \o t, branch' = b \o t,
         held' \in {held, None}, crossed' = crossed, brokenOff' = brokenOff,
         ~crossed => held' = None /\ phase' # "tool",
         \A p \in Callers : pc'[p] = "compact" => MayKeep(b, local'[p].keep),
         cpc' = "compacting" => MayKeep(b, ckeep')
  PROVE  Pairs'
<1>1. /\ t \in Seq(Entries) /\ Closed(t, brokenOff)
      /\ \A i \in 1..Len(t) : NotSummary(t[i])
  BY BashIsNeutral
<1>2. msgs \o t \in Seq(Entries)
  BY <1>1
<1>3. Cut(b \o t)
  BY <1>1, ContextCat
<1>4. ~crossed => Closed(b \o t, brokenOff) /\ Closed(msgs \o t, brokenOff)
  <2>1. ~crossed => Closed(b \o t, brokenOff)
    BY <1>1, ClosedCat
  <2>2. ~crossed => Closed(msgs \o t, brokenOff)
    BY <1>1, ClosedCat
  <2> QED BY <2>1, <2>2
<1>5. Pairing'
  <2>1. ~crossed' => /\ ~IsResult(held') /\ phase' # "tool"
                     /\ Told' = b \o t
    BY NoneIs DEF IsResult, Told
  <2> QED BY <1>4, <2>1 DEF Pairing
<1>6. /\ \A p \in Callers : pc'[p] = "compact" => MayKeep(b \o t, local'[p].keep)
      /\ cpc' = "compacting" => MayKeep(b \o t, ckeep')
  BY <1>1, MayKeepCat
<1>7. NotSummary(held')
  BY NoneIs DEF Pairs, Cuts, NotSummary
<1>8. Cuts'
  BY <1>3, <1>6, <1>7 DEF Cuts
<1> QED
  BY <1>2, <1>5, <1>8 DEF Pairs

\* Nothing but the place of a call, or what waits for the end of the run.
LEMMA SamePairs ==
  ASSUME Pairs, UNCHANGED <<messages, branch, held, brokenOff>>,
         crossed => crossed', phase' = "tool" <=> phase = "tool",
         phase = "tool" => UNCHANGED <<batch, results>>, AllBash(pendingBash'),
         \A p \in Callers :
           pc'[p] = "compact" => pc[p] = "compact" /\ local'[p] = local[p],
         cpc' = "compacting" =>
           \/ cpc = "compacting" /\ ckeep' = ckeep
           \/ MayKeep(branch, ckeep')
  PROVE  Pairs'
<1>1. Pairing'
  BY DEF Pairs, Pairing, Told
<1>2. Cuts'
  BY DEF Pairs, Cuts
<1> QED
  BY <1>1, <1>2 DEF Pairs

\* A message reaches the agent, and the session if it listens: the call that
\* begins a batch, a result of the batch, or neither.
Opens(m) ==
  /\ phase # "tool" /\ phase' = "tool"
  /\ IsToolCall(m) /\ batch' = m /\ results' = 0
Results(m) ==
  /\ phase = "tool" /\ phase' = "tool" /\ IsResult(m)
  /\ batch' = batch /\ results' = results + 1 /\ results < batch.calls
Passes(m) == phase # "tool" /\ phase' # "tool" /\ Neutral(m)

LEMMA EmittedPairs ==
  ASSUME IInv, Pairs, NEW m \in Entries, m # None, NotSummary(m), Emitted(m),
         UNCHANGED <<branch, pendingBash, pc, local, cpc, ckeep, brokenOff>>,
         Opens(m) \/ Results(m) \/ Passes(m)
  PROVE  Pairs'
<1>1. /\ messages' = Append(messages, m) /\ held = None
      /\ held' = (IF connected THEN m ELSE None)
      /\ crossed' = (crossed \/ ~connected)
  BY DEF Emitted
<1>2. /\ messages \in Seq(Entries) /\ branch \in Seq(Entries)
      /\ Append(messages, m) \in Seq(Entries)
      /\ batch \in Entries /\ results \in Nat
  <2>1. messages \in Seq(Entries) /\ branch \in Seq(Entries)
    BY DEF Pairs, IInv, Types, Buffers
  <2>2. Append(messages, m) \in Seq(Entries)
    BY <2>1
  <2>3. batch \in Entries /\ results \in Nat
    BY DEF IInv, Types
  <2> QED BY <2>1, <2>2, <2>3
<1>3. ~crossed' => /\ ~crossed /\ Told = branch /\ Told' = Append(branch, m)
                   /\ held' = m
  BY <1>1 DEF Told
<1>4. Pairing'
  <2>1. SUFFICES
          ASSUME ~crossed'
          PROVE  /\ IsResult(m) => phase' = "tool"
                 /\ IF phase' = "tool"
                    THEN /\ Open(Append(messages, m), batch', results', brokenOff)
                         /\ Open(Append(branch, m), batch', results', brokenOff)
                    ELSE /\ Closed(Append(messages, m), brokenOff)
                         /\ Closed(Append(branch, m), brokenOff)
    BY <1>1, <1>3 DEF Pairing
  <2>2. IF phase = "tool"
        THEN Open(messages, batch, results, brokenOff)
             /\ Open(branch, batch, results, brokenOff)
        ELSE Closed(messages, brokenOff) /\ Closed(branch, brokenOff)
    BY <1>3, <2>1 DEF Pairs, Pairing
  <2>3. CASE Opens(m)
    <3>1. /\ Closed(messages, brokenOff) /\ Closed(branch, brokenOff)
          /\ IsToolCall(m) /\ phase' = "tool" /\ batch' = m /\ results' = 0
      BY <2>2, <2>3 DEF Opens
    <3>2. Open(Append(messages, m), m, 0, brokenOff)
      BY <1>2, <3>1, CallAppend
    <3>3. Open(Append(branch, m), m, 0, brokenOff)
      BY <1>2, <3>1, CallAppend
    <3> QED BY <3>1, <3>2, <3>3
  <2>4. CASE Results(m)
    <3>1. /\ Open(messages, batch, results, brokenOff)
          /\ Open(branch, batch, results, brokenOff)
          /\ IsResult(m) /\ phase' = "tool" /\ batch' = batch
          /\ results' = results + 1 /\ results < batch.calls
      BY <2>2, <2>4 DEF Results
    <3>2. Open(Append(messages, m), batch, results + 1, brokenOff)
      BY <1>2, <3>1, ResultAppend
    <3>3. Open(Append(branch, m), batch, results + 1, brokenOff)
      BY <1>2, <3>1, ResultAppend
    <3> QED BY <3>1, <3>2, <3>3
  <2>5. CASE Passes(m)
    <3>1. /\ Closed(messages, brokenOff) /\ Closed(branch, brokenOff)
          /\ Neutral(m) /\ phase' # "tool"
      BY <2>2, <2>5 DEF Passes
    <3>2. Closed(Append(messages, m), brokenOff)
      BY <1>2, <3>1, ClosedAppend
    <3>3. Closed(Append(branch, m), brokenOff)
      BY <1>2, <3>1, ClosedAppend
    <3> QED BY <3>1, <3>2, <3>3 DEF Neutral
  <2> QED BY <2>3, <2>4, <2>5
<1>5. NotSummary(held')
  BY <1>1, NoneIs DEF NotSummary
<1>6. Cuts'
  BY <1>5 DEF Pairs, Cuts
<1>7. messages' \in Seq(Entries) /\ AllBash(pendingBash')
  BY <1>1, <1>2 DEF Pairs
<1> QED
  BY <1>4, <1>6, <1>7 DEF Pairs

LEMMA EmitPairs ==
  ASSUME IInv, Pairs, Emit
  PROVE  Pairs'
<1> USE DEF agent, calls, run, shown, retry, compact, marks, history
<1>1. /\ phase = "emit" /\ Emitted(Head(outbox))
      /\ phase' = IF Len(outbox) = 1 THEN after ELSE "emit"
      /\ UNCHANGED <<branch, pendingBash, pc, local, cpc, ckeep, brokenOff>>
  BY DEF Emit
<1>2. outbox \in Seq(Users) /\ outbox # <<>> /\ after \in {"poll", "request"}
  BY <1>1 DEF IInv, Types, Alone
<1>3. PICK m \in Users : m = Head(outbox)
  BY <1>2
<1>4. m \in Entries /\ m # None /\ NotSummary(m) /\ Neutral(m)
  BY NoneIs DEF Users, NotSummary, Neutral, IsToolCall, IsResult
<1>5. Passes(m) /\ Emitted(m)
  BY <1>1, <1>2, <1>3, <1>4 DEF Passes
<1> QED
  BY <1>1, <1>4, <1>5, EmittedPairs

LEMMA AnswerPairs ==
  ASSUME IInv, Pairs, Answer
  PROVE  Pairs'
<1> USE DEF agent, calls, run, shown, retry, compact, marks, history
<1>1. PICK kind \in (IF aborted THEN {"aborted", "abortedLarge"} ELSE Outcomes) :
        \E n \in (IF kind \in {"ok", "large"} THEN 0..MaxCalls ELSE {0}) :
          LET m == [New("assistant", kind) EXCEPT !.calls = n]
          IN /\ Emitted(m)
             /\ phase' = CASE n > 0 -> "tool"
                         [] IsError(m) \/ IsAborted(m) -> "ending"
                         [] OTHER -> "pollEnd"
             /\ batch' = IF n > 0 THEN m ELSE None
  BY DEF Answer
<1>2. PICK n \in (IF kind \in {"ok", "large"} THEN 0..MaxCalls ELSE {0}) :
        LET m == [New("assistant", kind) EXCEPT !.calls = n]
        IN /\ Emitted(m)
           /\ phase' = CASE n > 0 -> "tool"
                       [] IsError(m) \/ IsAborted(m) -> "ending"
                       [] OTHER -> "pollEnd"
           /\ batch' = IF n > 0 THEN m ELSE None
  BY <1>1
<1> DEFINE m == [New("assistant", kind) EXCEPT !.calls = n]
<1>3. /\ phase = "request" /\ results' = results
      /\ UNCHANGED <<branch, pendingBash, pc, local, cpc, ckeep, brokenOff>>
  BY DEF Answer
<1>4. n \in Nat /\ results = 0
  <2>1. MaxCalls \in Nat
    BY AgentSessionBounds
  <2>2. results = 0
    BY <1>3 DEF IInv, Alone
  <2> QED BY <2>1, <2>2
<1>5. /\ m \in Entries /\ m # None /\ m.role = "assistant" /\ m.calls = n
      /\ m.kind = kind
  <2>1. kind \in Kinds /\ drawn \in Nat
    BY DEF Kinds, IInv, Types
  <2> QED BY <1>4, <2>1, AnswerIs
<1>6. /\ Emitted(m)
      /\ n > 0 => phase' = "tool" /\ batch' = m
      /\ ~(n > 0) => phase' # "tool"
  <2>1. /\ Emitted(m)
        /\ phase' = CASE n > 0 -> "tool"
                    [] IsError(m) \/ IsAborted(m) -> "ending"
                    [] OTHER -> "pollEnd"
        /\ batch' = IF n > 0 THEN m ELSE None
    BY <1>2
  <2>4. n > 0 => kind \in {"ok", "large"}
    OBVIOUS
  <2> HIDE DEF m
  <2>5. n > 0 => ~IsError(m) /\ ~IsAborted(m)
    BY <1>5, <2>4 DEF IsError, IsAborted
  <2>2. n > 0 => phase' = "tool" /\ batch' = m
    <3>1. CASE n > 0
      <4>1. ~(IsError(m) \/ IsAborted(m))
        BY <2>5, <3>1
      <4> QED BY <2>1, <3>1, <4>1
    <3> QED BY <3>1
  <2>3. ~(n > 0) => phase' \in {"ending", "pollEnd"}
    BY <2>1 DEF IsError, IsAborted
  <2> QED BY <2>1, <2>2, <2>3
<1> HIDE DEF m
<1>7. NotSummary(m)
  BY <1>5 DEF NotSummary
<1>8. Opens(m) \/ Passes(m)
  BY <1>3, <1>4, <1>5, <1>6 DEF Opens, Passes, Neutral, IsToolCall, IsResult
<1> QED
  BY <1>3, <1>5, <1>6, <1>7, <1>8, EmittedPairs

LEMMA ToolResultPairs ==
  ASSUME IInv, Pairs, ToolResult
  PROVE  Pairs'
<1> USE DEF agent, calls, run, shown, retry, compact, marks, history
<1> DEFINE m == New("toolResult", "none")
<1>1. /\ phase = "tool" /\ phase' = "tool" /\ Emitted(m)
      /\ batch' = batch /\ results' = results + 1 /\ results < batch.calls
      /\ UNCHANGED <<branch, pendingBash, pc, local, cpc, ckeep, brokenOff>>
  BY DEF ToolResult
<1>2. m \in Entries /\ m # None /\ m.role = "toolResult"
  BY NewIs DEF Kinds, Roles, IInv, Types
<1> HIDE DEF m
<1>3. Results(m) /\ NotSummary(m)
  BY <1>1, <1>2 DEF Results, IsResult, NotSummary
<1> QED
  BY <1>1, <1>2, <1>3, EmittedPairs

\* A batch with all its results, or broken off.
LEMMA BatchEndsPairs ==
  ASSUME IInv, Pairs, BatchEnds
  PROVE  Pairs'
<1> USE DEF agent, calls, run, shown, retry, compact, marks, history
<1>1. /\ phase = "tool" /\ phase' # "tool" /\ held = None
      /\ results = batch.calls \/ batch.id \in brokenOff'
      /\ brokenOff \subseteq brokenOff'
      /\ UNCHANGED <<messages, branch, held, pendingBash, pc, local, cpc, ckeep,
                     crossed>>
  BY DEF BatchEnds
<1>2. /\ messages \in Seq(Entries) /\ branch \in Seq(Entries)
      /\ batch \in Entries /\ results \in Nat
  BY DEF Pairs, IInv, Types, Buffers
<1>3. ASSUME ~crossed
      PROVE  Closed(messages, brokenOff') /\ Closed(branch, brokenOff')
  <2> DEFINE C == brokenOff'
  <2>1. /\ Open(messages, batch, results, brokenOff)
        /\ Open(branch, batch, results, brokenOff)
        /\ brokenOff \subseteq C /\ (batch.id \in C \/ results = batch.calls)
    BY <1>1, <1>3 DEF Pairs, Pairing, Told
  <2> HIDE DEF C
  <2>2. Closed(messages, C)
    BY <1>2, <2>1, BatchCloses
  <2>3. Closed(branch, C)
    BY <1>2, <2>1, BatchCloses
  <2> QED BY <2>2, <2>3 DEF C
<1>4. Pairing'
  BY <1>1, <1>3, NoneIs DEF Pairing, Told, IsResult
<1>5. Cuts'
  BY <1>1 DEF Pairs, Cuts
<1> QED
  BY <1>1, <1>4, <1>5 DEF Pairs

\* What is left when the handler rejects: the message is written or not.
LEMMA HandlerFailsPairs ==
  ASSUME IInv, Pairs, HandlerFails
  PROVE  Pairs'
<1> USE DEF agent, calls, run, shown, retry, compact, marks, history
<1>1. /\ phase' = "failing" /\ held' = None
      /\ brokenOff' = IF phase = "tool" THEN brokenOff \union {batch.id}
                      ELSE brokenOff
      /\ UNCHANGED <<messages, pendingBash, pc, local, cpc, ckeep, crossed>>
  BY DEF HandlerFails
<1>2. branch' = branch \/ (held # None /\ branch' = Append(branch, held))
  <2>1. CASE Unfinished
    BY <2>1 DEF Unfinished
  <2>2. CASE Unheard
    BY <2>2 DEF Unheard
  <2> QED BY <2>1, <2>2 DEF HandlerFails
<1>3. /\ messages \in Seq(Entries) /\ branch \in Seq(Entries) /\ held \in Entries
      /\ batch \in Entries /\ results \in Nat
  BY DEF Pairs, IInv, Types, Buffers
<1>4. ASSUME ~crossed
      PROVE  Closed(messages, brokenOff') /\ Closed(branch', brokenOff')
  <2>1. CASE phase = "tool"
    <3> DEFINE C == brokenOff \union {batch.id}
    <3>1. /\ Open(messages, batch, results, brokenOff)
          /\ Open(Told, batch, results, brokenOff)
      BY <1>4, <2>1 DEF Pairs, Pairing
    <3>2. brokenOff' = C /\ brokenOff \subseteq C /\ batch.id \in C
      BY <1>1, <2>1
    <3>3. Told \in Seq(Entries)
      BY <1>3 DEF Told
    <3>4. held # None => Told = Append(branch, held)
      BY DEF Told
    <3>5. held = None => Told = branch
      BY DEF Told
    <3>6. held # None => Closed(branch, C)
      BY <1>3, <3>1, <3>4, UnwrittenBreaks
    <3> HIDE DEF C
    <3>7. Closed(messages, C)
      BY <1>3, <3>1, <3>2, BatchCloses
    <3>8. Closed(Told, C)
      BY <1>3, <3>1, <3>2, <3>3, BatchCloses
    <3>9. Closed(branch', C)
      BY <1>2, <3>4, <3>5, <3>6, <3>8
    <3> QED BY <3>2, <3>7, <3>9
  <2>2. CASE phase # "tool"
    <3>1. /\ Closed(messages, brokenOff) /\ Closed(Told, brokenOff)
          /\ ~IsResult(held)
      BY <1>4, <2>2 DEF Pairs, Pairing
    <3>2. held # None => Told = Append(branch, held)
      BY DEF Told
    <3>3. held = None => Told = branch
      BY DEF Told
    <3>4. held # None => Closed(branch, brokenOff)
      BY <1>3, <3>1, <3>2, UnwrittenCloses
    <3>5. Closed(branch', brokenOff)
      BY <1>2, <3>1, <3>2, <3>3, <3>4
    <3> QED BY <1>1, <2>2, <3>1, <3>5
  <2> QED BY <2>1, <2>2
<1>5. Pairing'
  <2>1. ~crossed' => /\ ~IsResult(held') /\ phase' # "tool"
                     /\ Told' = branch'
    BY <1>1, NoneIs DEF IsResult, Told
  <2> QED BY <1>1, <1>4, <2>1 DEF Pairing
<1>6. Cuts'
  <2>1. /\ NotSummary(held') /\ NotSummary(held) /\ Cut(branch)
        /\ \A p \in Callers : pc[p] = "compact" => MayKeep(branch, local[p].keep)
        /\ cpc = "compacting" => MayKeep(branch, ckeep)
    BY <1>1, NoneIs DEF Pairs, Cuts, NotSummary
  <2>2. Cut(branch')
    BY <1>2, <1>3, <2>1, CutAppend
  <2>3. \A k : MayKeep(branch, k) => MayKeep(branch', k)
    BY <1>2, <1>3, MayKeepAppend
  <2> QED BY <1>1, <2>1, <2>2, <2>3 DEF Cuts
<1> QED
  BY <1>1, <1>5, <1>6 DEF Pairs

LEMMA ReportPairs ==
  ASSUME IInv, Pairs, Report
  PROVE  Pairs'
<1> USE DEF agent, calls, run, shown, retry, compact, marks, history
<1>1. PICK kind \in Kinds : Emitted(New("assistant", kind))
  BY DEF Report, Kinds
<1> DEFINE m == New("assistant", kind)
<1>2. /\ phase = "failing" /\ phase' = "reported"
      /\ UNCHANGED <<branch, pendingBash, pc, local, cpc, ckeep, brokenOff>>
  BY DEF Report
<1>3. m \in Entries /\ m # None /\ m.role = "assistant" /\ m.calls = 0
  <2>1. m.calls = 0
    BY DEF New, Message
  <2> QED BY <2>1, NewIs DEF Roles, IInv, Types
<1>4. Emitted(m)
  BY <1>1
<1> HIDE DEF m
<1>5. Passes(m) /\ NotSummary(m)
  BY <1>2, <1>3 DEF Passes, Neutral, IsToolCall, IsResult, NotSummary
<1> QED
  BY <1>2, <1>3, <1>4, <1>5, EmittedPairs

LEMMA HandlePairs ==
  ASSUME IInv, Pairs, Handle
  PROVE  Pairs'
<1> USE DEF agent, calls, run, shown, retry, compact, marks, history
<1>1. /\ held # None /\ held' = None /\ branch' = Append(branch, held)
      /\ UNCHANGED <<messages, phase, pendingBash, pc, local, cpc, ckeep, crossed,
                     batch, results, brokenOff>>
  BY DEF Handle
<1>2. branch \in Seq(Entries) /\ held \in Entries
  BY DEF IInv, Types, Buffers
<1>3. Told' = Told
  BY <1>1 DEF Told
<1>4. Pairing'
  BY <1>1, <1>3, NoneIs DEF Pairs, Pairing, IsResult
<1>5. Cut(Append(branch, held))
  BY <1>2, CutAppend DEF Pairs, Cuts
<1>6. \A k : MayKeep(branch, k) => MayKeep(Append(branch, held), k)
  BY <1>2, MayKeepAppend
<1>7. Cuts'
  BY <1>1, <1>5, <1>6, NoneIs DEF Pairs, Cuts, NotSummary
<1> QED
  BY <1>1, <1>4, <1>7 DEF Pairs

LEMMA PollPairs ==
  ASSUME IInv, Pairs, Poll
  PROVE  Pairs'
<1> USE DEF agent, calls, run, shown, retry, compact, marks, history
<1>1. /\ phase \in {"poll", "pollEnd"}
      /\ UNCHANGED <<messages, branch, held, crossed, pendingBash, pc, local, cpc,
                     ckeep, brokenOff>>
  BY DEF Poll
<1>2. phase' \in {"emit", "request", "ending"}
  BY DEF Poll, Deliver
<1> QED
  BY <1>1, <1>2, SamePairs DEF Pairs

-----------------------------------------------------------------------------
(* What a decision leaves *)

Leaves(p, msgs) ==
  /\ \E t \in {<<>>, pendingBash} :
       /\ messages' = msgs \o t /\ branch' = branch \o t
       /\ pc'[p] = "compact" => t = <<>> /\ local'[p].keep \in KeepFrom(branch)
  /\ pendingBash' \in {<<>>, pendingBash}
  /\ \A q \in Callers : q # p => pc'[q] = pc[q]
  /\ \A q \in Callers : local'[q].prompt \in {local[q].prompt, None}

LEMMA NothingFollows ==
  ASSUME NEW S, NEW s \in Seq(S)
  PROVE  s \o <<>> = s
OBVIOUS

LEMMA RoundsDoneLeaves ==
  ASSUME Types, NEW p \in Callers, NEW msgs, RoundsDone(p, msgs)
  PROVE  Leaves(p, msgs)
<1>1. /\ messages' = msgs \o pendingBash /\ branch' = branch \o pendingBash
      /\ pendingBash' = <<>>
      /\ \E place \in {"ready", "idle"} : pc' = [pc EXCEPT ![p] = place]
      /\ \/ local' = [local EXCEPT ![p] = NoLocals]
         \/ local' = [local EXCEPT ![p] = [@ EXCEPT !.pre = "no"]]
  BY DEF RoundsDone, Goto
<1>2. pc'[p] # "compact" /\ \A q \in Callers : q # p => pc'[q] = pc[q]
  BY <1>1 DEF Types
<1>3. [local[p] EXCEPT !.pre = "no"].prompt = local[p].prompt
  BY LocalUpdate DEF Types, Locals
<1>4. NoLocals.prompt = None
  BY DEF NoLocals
<1>5. \A q \in Callers : local'[q].prompt \in {local[q].prompt, None}
  BY <1>1, <1>3, <1>4 DEF Types, Locals
<1> QED
  BY <1>1, <1>2, <1>5 DEF Leaves

LEMMA NotContinuedLeaves ==
  ASSUME Types, NEW p \in Callers, NEW msgs \in Seq(Entries), NotContinued(p, msgs)
  PROVE  Leaves(p, msgs)
<1>1. CASE local[p].pre = "check" \/ HasQueued
  <2>1. /\ messages' = msgs /\ UNCHANGED <<branch, pendingBash>>
        /\ \E place \in {"ready", "continue"} : pc' = [pc EXCEPT ![p] = place]
        /\ \/ local' = local
           \/ local' = [local EXCEPT ![p] = [@ EXCEPT !.pre = "no"]]
    BY <1>1 DEF NotContinued, Goto
  <2>2. pc'[p] # "compact" /\ \A q \in Callers : q # p => pc'[q] = pc[q]
    BY <2>1 DEF Types
  <2>3. [local[p] EXCEPT !.pre = "no"].prompt = local[p].prompt
    BY LocalUpdate DEF Types, Locals
  <2>4. \A q \in Callers : local'[q].prompt \in {local[q].prompt, None}
    BY <2>1, <2>3 DEF Types, Locals
  <2>5. messages' = msgs \o <<>> /\ branch' = branch \o <<>>
    BY <2>1, NothingFollows DEF Types, Buffers
  <2> QED
    BY <2>1, <2>2, <2>4, <2>5 DEF Leaves
<1>2. CASE local[p].pre # "check" /\ ~HasQueued
  BY <1>2, RoundsDoneLeaves DEF NotContinued
<1> QED
  BY <1>1, <1>2

LEMMA ThrowsLeaves ==
  ASSUME Types, NEW p \in Callers, Throws(p, branch)
  PROVE  Leaves(p, messages)
<1>1. /\ messages' = messages \o pendingBash /\ branch' = branch \o pendingBash
      /\ pendingBash' = <<>> /\ pc' = [pc EXCEPT ![p] = "idle"]
      /\ local' = [local EXCEPT ![p] = NoLocals]
  BY DEF Throws, Goto
<1>2. pc'[p] # "compact" /\ \A q \in Callers : q # p => pc'[q] = pc[q]
  BY <1>1 DEF Types
<1>3. NoLocals.prompt = None
  BY DEF NoLocals
<1>4. \A q \in Callers : local'[q].prompt \in {local[q].prompt, None}
  BY <1>1, <1>3 DEF Types, Locals
<1> QED
  BY <1>1, <1>2, <1>4 DEF Leaves

LEMMA PrepareRetryLeaves ==
  ASSUME Types, messages \in Seq(Entries), NEW p \in Callers, NEW m,
         PrepareRetry(p, m)
  PROVE  /\ Leaves(p, WithoutAnswer(messages))
         /\ dropped' = dropped \union Removed(WithoutAnswer(messages))
<1>1. /\ messages' = WithoutAnswer(messages) /\ pc' = [pc EXCEPT ![p] = "sleep"]
      /\ local' = [local EXCEPT ![p].msg = m] /\ UNCHANGED <<branch, pendingBash>>
      /\ dropped' = dropped \union Removed(WithoutAnswer(messages))
  BY DEF PrepareRetry, Goto
<1>2. pc'[p] # "compact" /\ \A q \in Callers : q # p => pc'[q] = pc[q]
  BY <1>1 DEF Types
<1>3. \A q \in Callers : local'[q].prompt \in {local[q].prompt, None}
  <2> DEFINE l == [local[p] EXCEPT !.msg = m]
  <2>1. l.prompt = local[p].prompt
    <3> DEFINE old == local[p]
    <3>1. IsLocal(old)
      BY DEF Types, Locals
    <3> HIDE DEF old
    <3>2. LET n == [old EXCEPT !.msg = m]
          IN IsLocal(n) /\ n.pre = old.pre /\ n.prompt = old.prompt
      BY <3>1, MessageUpdate
    <3> QED BY <3>2 DEF old
  <2>2. local' = [local EXCEPT ![p] = l]
    BY <1>1
  <2> HIDE DEF l
  <2> QED BY <2>1, <2>2 DEF Types, Locals
<1>4. WithoutAnswer(messages) \in Seq(Entries)
  BY DEF WithoutAnswer
<1>5. messages' = WithoutAnswer(messages) \o <<>> /\ branch' = branch \o <<>>
  BY <1>1, <1>4, NothingFollows DEF Types, Buffers
<1> QED
  BY <1>1, <1>2, <1>3, <1>5 DEF Leaves

LEMMA KeepUpdate ==
  ASSUME NEW l, IsLocal(l), NEW r, NEW k
  PROVE  LET n == [l EXCEPT !.reason = r, !.keep = k]
         IN n.keep = k /\ n.prompt = l.prompt
<1> DEFINE n == [l EXCEPT !.reason = r]
           o == [n EXCEPT !.keep = k]
<1>1. n = [prompt |-> l.prompt, msg |-> l.msg, pre |-> l.pre,
           reason |-> r, keep |-> l.keep]
  BY DEF IsLocal
<1> HIDE DEF n
<1>2. o = [prompt |-> l.prompt, msg |-> l.msg, pre |-> l.pre,
           reason |-> r, keep |-> k]
  BY <1>1
<1> HIDE DEF o
<1>3. o.keep = k /\ o.prompt = l.prompt
  BY <1>2
<1> QED BY <1>3 DEF n, o

LEMMA CheckCompactionLeaves ==
  ASSUME Types, messages \in Seq(Entries), NEW p \in Callers, NEW m,
         CheckCompaction(p, m)
  PROVE  \E msgs \in {messages, WithoutAnswer(messages)} :
           /\ Leaves(p, msgs)
           /\ dropped' = dropped \union Removed(msgs)
<1> DEFINE v == Verdict(p, m)
           msgs == IF v = "overflow" THEN WithoutAnswer(messages) ELSE messages
<1>1. v \in {"none", "overflow", "threshold"}
  BY DEF Verdict
<1>2. /\ dropped' = dropped \union Removed(msgs)
      /\ \/ NotContinued(p, msgs)
         \/ /\ messages' = msgs /\ pc' = [pc EXCEPT ![p] = "compact"]
            /\ \E k \in KeepFrom(branch) :
                 local' = [local EXCEPT ![p].reason = v, ![p].keep = k]
            /\ UNCHANGED <<branch, pendingBash>>
  BY DEF CheckCompaction, Goto
<1> HIDE DEF v
<1>3. msgs \in {messages, WithoutAnswer(messages)}
  OBVIOUS
<1>4. msgs \in Seq(Entries)
  BY DEF WithoutAnswer
<1> HIDE DEF msgs
<1>5. CASE NotContinued(p, msgs)
  BY <1>2, <1>3, <1>4, <1>5, NotContinuedLeaves
<1>6. CASE /\ messages' = msgs /\ pc' = [pc EXCEPT ![p] = "compact"]
           /\ \E k \in KeepFrom(branch) :
                local' = [local EXCEPT ![p].reason = v, ![p].keep = k]
           /\ UNCHANGED <<branch, pendingBash>>
  <2>1. PICK k \in KeepFrom(branch) :
          local' = [local EXCEPT ![p].reason = v, ![p].keep = k]
    BY <1>6
  <2> DEFINE l == [local[p] EXCEPT !.reason = v, !.keep = k]
  <2>2. k \in Nat
    BY KeepFromIs DEF Types, Buffers
  <2>3. local' = [local EXCEPT ![p] = l]
    BY <2>1 DEF Types, Locals
  <2>4. l.prompt = local[p].prompt /\ l.keep = k
    <3> DEFINE old == local[p]
    <3>1. IsLocal(old)
      BY DEF Types, Locals
    <3> HIDE DEF old
    <3>2. LET n == [old EXCEPT !.reason = v, !.keep = k]
          IN n.keep = k /\ n.prompt = old.prompt
      BY <3>1, KeepUpdate
    <3> QED BY <3>2 DEF old
  <2> HIDE DEF l
  <2>5. /\ \A q \in Callers : local'[q].prompt \in {local[q].prompt, None}
        /\ local'[p].keep = k
    BY <2>3, <2>4 DEF Types, Locals
  <2>6. \A q \in Callers : q # p => pc'[q] = pc[q]
    BY <1>6 DEF Types
  <2>7. messages' = msgs \o <<>> /\ branch' = branch \o <<>>
    BY <1>4, <1>6, NothingFollows DEF Types, Buffers
  <2>8. Leaves(p, msgs)
    BY <1>6, <2>1, <2>5, <2>6, <2>7 DEF Leaves
  <2> QED BY <1>2, <1>3, <2>8
<1> QED
  BY <1>2, <1>5, <1>6

LEMMA LeavesPairs ==
  ASSUME IInv, Pairs, NEW p \in Callers, pc[p] # "idle", phase # "tool",
         held = None, NEW msgs \in {messages, WithoutAnswer(messages)},
         Leaves(p, msgs), phase' = "none",
         UNCHANGED <<held, crossed, cpc, ckeep, brokenOff>>
  PROVE  Pairs'
<1>1. PICK t \in {<<>>, pendingBash} :
        /\ messages' = msgs \o t /\ branch' = branch \o t
        /\ pc'[p] = "compact" => t = <<>> /\ local'[p].keep \in KeepFrom(branch)
  BY DEF Leaves
<1>2. AllBash(t) /\ AllBash(pendingBash')
  <2>1. AllBash(<<>>)
    BY DEF AllBash
  <2> QED BY <2>1 DEF Leaves, Pairs
<1>3. /\ branch \in Seq(Entries) /\ messages \in Seq(Entries) /\ Cut(branch)
      /\ ~crossed => Closed(branch, brokenOff) /\ Closed(messages, brokenOff)
  BY DEF IInv, Types, Buffers, Pairs, Pairing, Told, Cuts
<1>4. msgs \in Seq(Entries) /\ (~crossed => Closed(msgs, brokenOff))
  <2>1. WithoutAnswer(messages) \in Seq(Entries)
    BY <1>3 DEF WithoutAnswer
  <2>2. ~crossed => Closed(WithoutAnswer(messages), brokenOff)
    BY <1>3, ClosedShort
  <2> QED BY <1>3, <2>1, <2>2
<1>5. \A q \in Callers : pc'[q] = "compact" => MayKeep(branch, local'[q].keep)
  <2>1. \A q \in Callers : q # p => pc'[q] = "idle"
    BY OnlyOne DEF Leaves
  <2>2. \A k \in KeepFrom(branch) : MayKeep(branch, k)
    BY <1>3, KeepFromMay
  <2> QED BY <1>1, <2>1, <2>2
<1>6. cpc' = "compacting" => MayKeep(branch, ckeep')
  BY DEF Pairs, Cuts
<1> QED
  BY <1>1, <1>2, <1>3, <1>4, <1>5, <1>6, RebuildPairs

LEMMA EndRunLeaves ==
  ASSUME IInv, Pairs, EndRun
  PROVE  \E msgs \in {messages, WithoutAnswer(messages)} :
           /\ Leaves(owner, msgs)
           /\ dropped' = dropped \union Removed(msgs)
<1>1. Types /\ messages \in Seq(Entries) /\ owner \in Callers
  BY DEF IInv, Alone, Pairs, EndRun
<1>2. CASE lastAssistant = None
  <2>1. RoundsDone(owner, messages) /\ dropped' = dropped
    <3>1. ~RetriesLeft(lastAssistant)
      BY <1>2, NoneIs DEF RetriesLeft, IsRetryable
    <3> QED BY <1>2, <3>1 DEF EndRun
  <2>2. Removed(messages) = {}
    <3>1. (Len(messages) + 1)..Len(messages) = {}
      BY <1>1
    <3> QED BY <3>1 DEF Removed
  <2> QED BY <1>1, <2>1, <2>2, RoundsDoneLeaves
<1>3. CASE lastAssistant # None /\ RetriesLeft(lastAssistant)
  <2>1. PrepareRetry(owner, lastAssistant)
    BY <1>3 DEF EndRun
  <2> QED BY <1>1, <2>1, PrepareRetryLeaves
<1>4. CASE lastAssistant # None /\ ~RetriesLeft(lastAssistant)
  <2>1. CheckCompaction(owner, lastAssistant)
    BY <1>4 DEF EndRun
  <2> QED BY <1>1, <2>1, CheckCompactionLeaves
<1> QED
  BY <1>2, <1>3, <1>4

LEMMA EndRunPairs ==
  ASSUME IInv, Pairs, EndRun
  PROVE  Pairs'
<1> USE DEF agent, calls, run, shown, retry, compact, marks, history
<1>1. /\ phase \in {"ending", "reported"} /\ held = None /\ phase' = "none"
      /\ UNCHANGED <<held, crossed, cpc, ckeep, brokenOff>>
  BY DEF EndRun
<1>2. owner \in Callers /\ pc[owner] = "running"
  BY <1>1 DEF IInv, Alone
<1>3. PICK msgs \in {messages, WithoutAnswer(messages)} : Leaves(owner, msgs)
  BY EndRunLeaves
<1> QED
  BY <1>1, <1>2, <1>3, LeavesPairs

LEMMA ReportFailsPairs ==
  ASSUME IInv, Pairs, ReportFails
  PROVE  Pairs'
<1> USE DEF agent, calls, run, shown, retry, compact, marks, history
<1>1. /\ phase \in {"failing", "reported"} /\ phase' = "none" /\ held' = None
      /\ UNCHANGED <<crossed, cpc, ckeep, brokenOff>>
  BY DEF ReportFails
<1>2. PICK b : /\ b = branch \/ (held # None /\ b = Append(branch, held))
               /\ Throws(owner, b)
  BY DEF ReportFails
<1>3. /\ messages \in Seq(Entries) /\ branch \in Seq(Entries) /\ held \in Entries
      /\ owner \in Callers /\ pc[owner] = "running" /\ AllBash(pendingBash)
      /\ pc \in [Callers -> Places]
  BY <1>1 DEF Pairs, IInv, Types, Buffers, Alone
<1>4. /\ messages' = messages \o pendingBash /\ branch' = b \o pendingBash
      /\ pendingBash' = <<>> /\ pc' = [pc EXCEPT ![owner] = "idle"]
  BY <1>2 DEF Throws, Goto
<1>5. /\ NotSummary(held) /\ Cut(branch)
      /\ cpc = "compacting" => MayKeep(branch, ckeep)
  BY DEF Pairs, Cuts
<1>6. b \in Seq(Entries) /\ Cut(b)
  BY <1>2, <1>3, <1>5, CutAppend
<1>7. \A k : MayKeep(branch, k) => MayKeep(b, k)
  BY <1>2, <1>3, MayKeepAppend
<1>8. ASSUME ~crossed
      PROVE  Closed(messages, brokenOff) /\ Closed(b, brokenOff)
  <2>1. /\ Closed(messages, brokenOff) /\ Closed(Told, brokenOff)
        /\ ~IsResult(held)
    BY <1>1, <1>8 DEF Pairs, Pairing
  <2>2. held # None => Told = Append(branch, held)
    BY DEF Told
  <2>3. held = None => Told = branch
    BY DEF Told
  <2>4. held # None => Closed(branch, brokenOff)
    BY <1>3, <2>1, <2>2, UnwrittenCloses
  <2> QED BY <1>2, <2>1, <2>2, <2>3, <2>4
<1>9. \A q \in Callers : pc'[q] # "compact"
  <2>1. \A q \in Callers : q # owner => pc[q] = "idle"
    BY <1>3, OnlyOne
  <2> QED BY <1>3, <1>4, <2>1
<1>10. AllBash(pendingBash')
  BY <1>4 DEF AllBash
<1> QED
  BY <1>1, <1>3, <1>4, <1>5, <1>6, <1>7, <1>8, <1>9, <1>10, RebuildPairs

\* A call that compares the context with the window.
LEMMA CheckPairs ==
  ASSUME IInv, Pairs, NEW p \in Callers,
         PreCheck(p) \/ RetryCancelled(p) \/ AutoCompactFails(p)
  PROVE  Pairs'
<1> USE DEF agent, calls, run, shown, retry, compact, marks, history
<1>1. /\ pc[p] \in {"check", "cancelled", "compact"}
      /\ UNCHANGED <<held, crossed, cpc, ckeep, phase, brokenOff>>
  BY DEF PreCheck, RetryCancelled, AutoCompactFails
<1>2. phase = "none" /\ held = None /\ Types /\ messages \in Seq(Entries)
  BY <1>1, OnlyOne DEF IInv, Pairs
<1>3. \E msgs \in {messages, WithoutAnswer(messages)} : Leaves(p, msgs)
  <2>1. CASE \E m : CheckCompaction(p, m)
    BY <1>2, <2>1, CheckCompactionLeaves
  <2>2. CASE NotContinued(p, messages)
    BY <1>2, <2>2, NotContinuedLeaves
  <2> QED BY <2>1, <2>2 DEF PreCheck, RetryCancelled, AutoCompactFails
<1> QED
  BY <1>1, <1>2, <1>3, LeavesPairs

\* A call that begins a run, or throws.
LEMMA SendPairs ==
  ASSUME IInv, Pairs, NEW p \in Callers, Send(p) \/ Continue(p)
  PROVE  Pairs'
<1> USE DEF agent, calls, run, shown, retry, compact, marks, history
<1>1. /\ pc[p] \in {"ready", "continue"}
      /\ UNCHANGED <<held, crossed, cpc, ckeep, brokenOff>>
  BY DEF Send, Continue
<1>2. phase = "none" /\ held = None /\ Types /\ ~Active
  BY <1>1, OnlyOne DEF IInv, Active
<1>3. CASE Throws(p, branch) /\ UNCHANGED phase
  <2>1. Leaves(p, messages)
    BY <1>2, <1>3, ThrowsLeaves
  <2> QED BY <1>1, <1>2, <1>3, <2>1, LeavesPairs
<1>4. CASE /\ \E prompts : \E then \in {"poll", "request"} : StartRun(p, prompts, then)
           /\ pc' = [pc EXCEPT ![p] = "running"]
           /\ local' = local \/ local' = [local EXCEPT ![p] = NoLocals]
           /\ UNCHANGED <<messages, branch, pendingBash>>
  <2>1. phase' # "tool"
    BY <1>4 DEF StartRun
  <2>2. \A q \in Callers :
          pc'[q] = "compact" => pc[q] = "compact" /\ local'[q] = local[q]
    BY <1>2, <1>4 DEF Types, Locals
  <2> QED BY <1>1, <1>2, <1>4, <2>1, <2>2, SamePairs DEF Pairs
<1>5. CASE Send(p)
  <2>1. \E prompts : StartRun(p, prompts, "poll")
    BY <1>2, <1>5 DEF Send
  <2>2. /\ pc' = [pc EXCEPT ![p] = "running"]
        /\ local' = [local EXCEPT ![p] = NoLocals]
        /\ UNCHANGED <<messages, branch, pendingBash>>
    BY <1>2, <1>5 DEF Send, Goto
  <2> QED BY <1>4, <2>1, <2>2
<1>6. CASE Continue(p)
  <2> DEFINE answered == LastOf(messages).role = "assistant"
  <2>1. CASE messages = <<>>
    <3>1. ~answered
      BY <2>1, NoneIs DEF LastOf
    <3> QED BY <1>2, <1>3, <1>6, <2>1, <3>1 DEF Continue
  <2>2. CASE messages # <<>> /\ answered /\ ~HasQueued
    BY <1>2, <1>3, <1>6, <2>2 DEF Continue, HasQueued
  <2>3. CASE messages # <<>> /\ ~(answered /\ ~HasQueued)
    <3>1. CASE answered /\ steering # <<>>
      <4>1. StartRun(p, <<Head(steering)>>, "request")
            /\ pc' = [pc EXCEPT ![p] = "running"]
            /\ UNCHANGED <<messages, branch, pendingBash, local>>
        BY <1>2, <1>6, <2>3, <3>1 DEF Continue, Goto, HasQueued
      <4> QED BY <1>4, <4>1
    <3>2. CASE answered /\ steering = <<>> /\ followUps # <<>>
      <4>1. StartRun(p, <<Head(followUps)>>, "poll")
            /\ pc' = [pc EXCEPT ![p] = "running"]
            /\ UNCHANGED <<messages, branch, pendingBash, local>>
        BY <1>2, <1>6, <2>3, <3>2 DEF Continue, Goto, HasQueued
      <4> QED BY <1>4, <4>1
    <3>3. CASE ~answered
      <4>1. StartRun(p, <<>>, "poll") /\ pc' = [pc EXCEPT ![p] = "running"]
            /\ UNCHANGED <<agent, branch, pendingBash, local>>
        BY <1>2, <1>6, <2>3, <3>3 DEF Continue, Goto, HasQueued
      <4> QED BY <1>4, <4>1
    <3> QED BY <2>3, <3>1, <3>2, <3>3 DEF HasQueued
  <2> QED BY <2>1, <2>2, <2>3
<1> QED
  BY <1>5, <1>6

LEMMA WakePairs ==
  ASSUME IInv, Pairs, NEW p \in Callers, Wake(p)
  PROVE  Pairs'
<1> USE DEF agent, calls, run, shown, retry, compact, marks, history
<1>1. /\ pc' = [pc EXCEPT ![p] = "continue"]
      /\ UNCHANGED <<messages, branch, held, crossed, phase, pendingBash, local,
                     cpc, ckeep, batch, results, brokenOff>>
  BY DEF Wake, Goto
<1>2. \A q \in Callers :
        pc'[q] = "compact" => pc[q] = "compact" /\ local'[q] = local[q]
  BY <1>1 DEF IInv, Types
<1> QED
  BY <1>1, <1>2, SamePairs DEF Pairs

LEMMA PromptPairs ==
  ASSUME IInv, Pairs, NEW p \in Callers, Prompt(p)
  PROVE  Pairs'
<1> USE DEF agent, calls, run, shown, retry, compact, marks, history
<1>1. /\ Quiet /\ phase = "none" /\ cpc = "idle"
      /\ messages' = messages \o pendingBash /\ branch' = branch \o pendingBash
      /\ pendingBash' = <<>>
      /\ \E place \in {"ready", "check"} : pc' = [pc EXCEPT ![p] = place]
      /\ UNCHANGED <<phase, held, crossed, cpc, ckeep, brokenOff>>
  <2>1. Quiet /\ phase = "none" /\ cpc = "idle"
    BY Zenon DEF Prompt, AtRest, Active
  <2>2. /\ messages' = messages \o pendingBash /\ branch' = branch \o pendingBash
        /\ pendingBash' = <<>>
        /\ UNCHANGED <<phase, held, crossed, cpc, ckeep, brokenOff>>
    BY Zenon DEF Prompt
  <2>3. \E place \in {"ready", "check"} : pc' = [pc EXCEPT ![p] = place]
    BY Zenon DEF Prompt, Goto
  <2> QED BY <2>1, <2>2, <2>3
<1>2. /\ held = None /\ branch \in Seq(Entries) /\ messages \in Seq(Entries)
      /\ Cut(branch) /\ (~crossed => Closed(branch, brokenOff) /\ Closed(messages, brokenOff))
      /\ AllBash(pendingBash)
  BY <1>1 DEF IInv, Types, Alone, Buffers, Pairs, Pairing, Told, Cuts
<1>3. AllBash(pendingBash')
  BY <1>1 DEF AllBash
<1>4. \A q \in Callers : pc'[q] # "compact"
  BY <1>1 DEF Quiet, IInv, Types
<1> QED
  BY <1>1, <1>2, <1>3, <1>4, RebuildPairs

LEMMA QueuePairs ==
  ASSUME IInv, Pairs, Queue \/ ClearQueue
  PROVE  Pairs'
<1> USE DEF agent, calls, run, shown, retry, compact, marks, history
<1>1. UNCHANGED <<messages, branch, held, crossed, phase, pendingBash, pc, local,
                  cpc, ckeep, batch, results, brokenOff>>
  BY DEF Queue, ClearQueue
<1> QED
  BY <1>1, SamePairs DEF Pairs

LEMMA AllBashAppend ==
  ASSUME NEW s, AllBash(s), NEW m \in Entries, m.role = "bash"
  PROVE  AllBash(Append(s, m))
<1>1. s \in Seq(Entries) /\ \A i \in 1..Len(s) : s[i].role = "bash"
  BY DEF AllBash
<1>2. /\ Append(s, m) \in Seq(Entries) /\ Len(Append(s, m)) = Len(s) + 1
      /\ Len(s) \in Nat /\ Append(s, m)[Len(s) + 1] = m
      /\ \A i \in 1..Len(s) : Append(s, m)[i] = s[i]
  BY <1>1
<1>3. ASSUME NEW i \in 1..(Len(s) + 1) PROVE Append(s, m)[i].role = "bash"
  <2>1. i \in 1..Len(s) \/ i = Len(s) + 1
    BY <1>2
  <2> QED BY <1>1, <1>2, <2>1
<1> QED
  BY <1>2, <1>3 DEF AllBash

LEMMA BashPairs ==
  ASSUME IInv, Pairs, Bash
  PROVE  Pairs'
<1> USE DEF agent, calls, run, shown, retry, compact, marks, history
<1> DEFINE m == New("bash", "none")
<1>1. /\ UNCHANGED <<phase, held, pc, local, cpc, ckeep, crossed, batch, results,
                     brokenOff>>
      /\ \/ /\ Active /\ pendingBash' = Append(pendingBash, m)
            /\ UNCHANGED <<messages, branch>>
         \/ /\ ~Active /\ messages' = Append(messages, m)
            /\ branch' = Append(branch, m) /\ UNCHANGED pendingBash
  BY DEF Bash
<1>2. m \in Entries /\ m.role = "bash"
  BY NewIs DEF IInv, Types, Roles, Kinds
<1> HIDE DEF m
<1>3. CASE /\ pendingBash' = Append(pendingBash, m)
           /\ UNCHANGED <<messages, branch>>
  <2>1. AllBash(pendingBash')
    <3>1. AllBash(Append(pendingBash, m))
      BY <1>2, AllBashAppend DEF Pairs
    <3> QED BY <1>3, <3>1
  <2> QED BY <1>1, <1>3, <2>1, SamePairs
<1>4. CASE /\ ~Active /\ messages' = Append(messages, m)
           /\ branch' = Append(branch, m) /\ UNCHANGED pendingBash
  <2>1. /\ phase = "none" /\ held = None
        /\ branch \in Seq(Entries) /\ messages \in Seq(Entries) /\ Cut(branch)
        /\ (~crossed => Closed(branch, brokenOff) /\ Closed(messages, brokenOff))
        /\ AllBash(pendingBash)
    BY <1>4 DEF Active, IInv, Types, Alone, Buffers, Pairs, Pairing, Told, Cuts
  <2>2. AllBash(<<m>>)
    <3>1. AllBash(<<>>)
      BY DEF AllBash
    <3>2. AllBash(Append(<<>>, m))
      BY <1>2, <3>1, AllBashAppend
    <3>3. Append(<<>>, m) = <<m>>
      OBVIOUS
    <3> QED BY <3>2, <3>3
  <2>3. messages' = messages \o <<m>> /\ branch' = branch \o <<m>>
    BY <1>2, <1>4, <2>1, AppendIsCat
  <2>4. /\ \A q \in Callers : pc'[q] = "compact" => MayKeep(branch, local'[q].keep)
        /\ cpc' = "compacting" => MayKeep(branch, ckeep')
    BY <1>1 DEF Pairs, Cuts
  <2>5. AllBash(pendingBash')
    BY <1>4, <2>1
  <2> QED BY <1>1, <2>1, <2>2, <2>3, <2>4, <2>5, RebuildPairs
<1> QED
  BY <1>1, <1>3, <1>4

LEMMA AbortPairs ==
  ASSUME IInv, Pairs, Abort \/ CompactBegins
  PROVE  Pairs'
<1> USE DEF agent, calls, run, shown, retry, compact, marks, history
<1>1. /\ Aborts /\ cpc' \in {cpc, "waiting"}
      /\ UNCHANGED <<messages, branch, held, crossed, phase, pendingBash, local,
                     ckeep, batch, results, brokenOff>>
  BY DEF Abort, CompactBegins
<1>2. \A q \in Callers :
        pc'[q] = "compact" => pc[q] = "compact" /\ local'[q] = local[q]
  BY <1>1, AbortsIs
<1> QED
  BY <1>1, <1>2, SamePairs DEF Pairs

LEMMA CompactPreparesPairs ==
  ASSUME IInv, Pairs, CompactPrepares
  PROVE  Pairs'
<1> USE DEF agent, calls, run, shown, retry, compact, marks, history
<1>1. /\ crossed' = (crossed \/ ~Quiet)
      /\ cpc' = "compacting" => ckeep' \in KeepFrom(branch)
      /\ UNCHANGED <<messages, branch, held, phase, pendingBash, pc, local, batch,
                     results, brokenOff>>
  BY DEF CompactPrepares
<1>2. cpc' = "compacting" => MayKeep(branch, ckeep')
  BY <1>1, KeepFromMay DEF Pairs, Cuts, IInv, Types, Buffers
<1>3. crossed => crossed'
  BY <1>1
<1> QED
  BY <1>1, <1>2, <1>3, SamePairs DEF Pairs

\* A summary at the end of the branch.
LEMMA SummaryIs ==
  ASSUME Types, NEW kind \in Kinds, NEW k \in Nat
  PROVE  LET e == [New("summary", kind) EXCEPT !.keep = k]
         IN /\ e \in Entries /\ e.role = "summary" /\ e.keep = k
            /\ e.kind = kind /\ e.id = drawn + 1 /\ Neutral(e)
<1> DEFINE n == New("summary", kind)
           e == [n EXCEPT !.keep = k]
<1>1. /\ n = [id |-> drawn + 1, role |-> "summary", kind |-> kind, keep |-> 0,
              calls |-> 0]
      /\ drawn \in Nat
  BY DEF New, Message, Types
<1> HIDE DEF n
<1>2. e = [id |-> drawn + 1, role |-> "summary", kind |-> kind, keep |-> k,
           calls |-> 0]
  BY <1>1
<1> HIDE DEF e
<1>3. /\ e \in Entries /\ e.role = "summary" /\ e.keep = k /\ e.kind = kind
      /\ e.id = drawn + 1 /\ Neutral(e)
  BY <1>1, <1>2 DEF Entries, Roles, Neutral, IsToolCall, IsResult
<1> QED
  BY <1>3 DEF e, n

LEMMA CompactEndsPairs ==
  ASSUME IInv, Pairs, CompactEnds
  PROVE  Pairs'
<1> USE DEF agent, calls, run, shown, retry, compact, marks, history
<1>1. /\ cpc = "compacting" /\ cpc' = "idle"
      /\ UNCHANGED <<phase, held, pendingBash, pc, local, crossed, batch, results,
                     brokenOff>>
      /\ \/ /\ branch' = Append(branch, [New("summary", "manual") EXCEPT !.keep = ckeep])
            /\ messages' = ContextOf(branch')
         \/ UNCHANGED <<messages, branch>>
  BY DEF CompactEnds
<1>2. CASE UNCHANGED <<messages, branch>>
  BY <1>1, <1>2, SamePairs DEF Pairs
<1>3. CASE /\ branch' = Append(branch, [New("summary", "manual") EXCEPT !.keep = ckeep])
           /\ messages' = ContextOf(branch')
  <2>1. "manual" \in Kinds /\ ckeep \in Nat /\ Types
    BY DEF Kinds, IInv, Types
  <2>2. PICK e \in Entries :
          /\ e = [New("summary", "manual") EXCEPT !.keep = ckeep]
          /\ e.keep = ckeep /\ Neutral(e)
    BY <2>1, SummaryIs
  <2>3. /\ branch \in Seq(Entries) /\ Cut(branch) /\ MayKeep(branch, ckeep)
        /\ AllBash(pendingBash)
        /\ \A q \in Callers : pc[q] = "compact" => MayKeep(branch, local[q].keep)
    BY <1>1 DEF IInv, Types, Buffers, Pairs, Cuts
  <2>4. ~crossed => phase = "none" /\ held = None /\ Closed(branch, brokenOff)
    <3>1. ~crossed => Quiet
      BY <1>1 DEF IInv, Alone
    <3>2. ~crossed => phase = "none" /\ held = None
      BY <3>1 DEF IInv, Alone, Quiet
    <3> QED BY <3>2 DEF Pairs, Pairing, Told
  <2> DEFINE b == Append(branch, e)
  <2>5. b \in Seq(Entries) /\ Cut(b)
    BY <2>2, <2>3, CutAppend
  <2>6. ~crossed => Closed(b, brokenOff)
    BY <2>2, <2>3, <2>4, ClosedAppend
  <2>7. branch' = b /\ messages' = ContextOf(b)
    BY <1>3, <2>2
  <2>8. \A q \in Callers : pc'[q] = "compact" => MayKeep(b, local'[q].keep)
    BY <1>1, <2>2, <2>3, MayKeepAppend
  <2> HIDE DEF b
  <2>9. ContextOf(b) \in Seq(Entries) /\ (~crossed => Closed(ContextOf(b), brokenOff))
    BY <2>5, <2>6, ContextType, ClosedContext
  <2>10. messages' = ContextOf(b) \o <<>> /\ branch' = b \o <<>>
    BY <2>5, <2>7, <2>9, NothingFollows
  <2>11. AllBash(<<>>) /\ AllBash(pendingBash')
    BY <1>1, <2>3 DEF AllBash
  <2> QED
    BY <1>1, <2>4, <2>5, <2>6, <2>8, <2>9, <2>10, <2>11, RebuildPairs
<1> QED
  BY <1>1, <1>2, <1>3

\* The context that an automatic compaction leaves.
LEMMA AutoCompactedIs ==
  ASSUME IInv, Pairs, NEW p \in Callers, AutoCompacted(p)
  PROVE  /\ pc[p] = "compact"
         /\ phase = "none" /\ held = None /\ drawn' = drawn + 1
         /\ UNCHANGED <<steering, followUps, outbox, phase, held, crossed, cpc, ckeep,
                        overflowTried, refused, brokenOff, handlerFailed>>
         /\ pendingBash' \in {<<>>, pendingBash}
         /\ \A q \in Callers :
              pc'[q] \in (IF q = p THEN {"continue", "ready", "idle"} ELSE {"idle"})
         /\ \A q \in Callers : local'[q].prompt \in {local[q].prompt, None}
         /\ \E e \in Entries, t \in {<<>>, pendingBash} :
              /\ e.role = "summary" /\ e.id = drawn + 1 /\ e.kind = local[p].reason
              /\ MayKeep(branch, e.keep) /\ Neutral(e)
              /\ pc'[p] = "continue" =>
                   t = <<>> /\ (local[p].reason = "overflow" \/ HasQueued)
              /\ branch' = Append(branch, e) \o t
              /\ LET context == ContextOf(Append(branch, e))
                 IN \E msgs \in {context, WithoutAnswer(context)} :
                      /\ messages' = msgs \o t
                      /\ dropped' =
                           {context[i].id : i \in (Len(msgs) + 1)..Len(context)}
                      /\ IF /\ local[p].reason = "overflow"
                            /\ LastOf(context).role = "assistant"
                            /\ IsError(LastOf(context))
                           THEN msgs = WithoutAnswer(context) ELSE msgs = context
<1> USE DEF agent, calls, run, shown, retry, compact, marks, history
<1> DEFINE s == [New("summary", local[p].reason) EXCEPT !.keep = local[p].keep]
           context == ContextOf(Append(branch, s))
           failed == LastOf(context).role = "assistant" /\ IsError(LastOf(context))
           retries == local[p].reason = "overflow"
           msgs == IF retries /\ failed THEN WithoutAnswer(context) ELSE context
           goesOn == retries \/ HasQueued
           flush == ~goesOn /\ local[p].pre # "check"
           t == IF flush THEN pendingBash ELSE <<>>
           place == IF goesOn THEN "continue"
                    ELSE IF local[p].pre # "no" THEN "ready" ELSE "idle"
           old == IF goesOn \/ local[p].pre # "no" THEN local[p] ELSE NoLocals
           pre == IF goesOn /\ local[p].pre = "check" THEN "rounds"
                  ELSE IF goesOn THEN old.pre ELSE "no"
           l == [old EXCEPT !.pre = pre]
<1>1. /\ pc[p] = "compact" /\ drawn' = drawn + 1
      /\ dropped' = {context[i].id : i \in (Len(msgs) + 1)..Len(context)}
      /\ branch' = Append(branch, s) \o t /\ messages' = msgs \o t
      /\ pendingBash' = IF flush THEN <<>> ELSE pendingBash
      /\ pc' = [pc EXCEPT ![p] = place]
      /\ UNCHANGED <<steering, followUps, outbox, phase, held, crossed, cpc, ckeep,
                     overflowTried, refused, brokenOff, handlerFailed>>
  BY DEF AutoCompacted, Goto
<1>2. local' = [local EXCEPT ![p] = l]
  BY DEF AutoCompacted, IInv, Types, Locals
<1>3. /\ phase = "none" /\ held = None /\ Types /\ IsLocal(local[p])
      /\ \A q \in Callers : q # p => pc[q] = "idle"
      /\ MayKeep(branch, local[p].keep)
  BY <1>1, OnlyOne DEF IInv, Types, Locals, Pairs, Cuts
<1>4. /\ \A q \in Callers :
           pc'[q] \in (IF q = p THEN {"continue", "ready", "idle"} ELSE {"idle"})
      /\ pc'[p] = "continue" => t = <<>> /\ (retries \/ HasQueued)
  BY <1>1, <1>3 DEF Types
<1>5. \A q \in Callers : local'[q].prompt \in {local[q].prompt, None}
  <2>1. IsLocal(old) /\ old.prompt \in {local[p].prompt, None}
    <3>1. NoLocals.prompt = None
      BY DEF NoLocals
    <3> QED BY <1>3, <3>1, NoLocalsIs
  <2>2. pre \in {"no", "check", "rounds"}
    BY <1>3, <2>1 DEF IsLocal
  <2> HIDE DEF old, pre
  <2>3. l.prompt = old.prompt
    BY <2>1, <2>2, LocalUpdate
  <2> HIDE DEF l
  <2> QED BY <1>2, <1>3, <2>1, <2>3 DEF Types, Locals
<1>6. PICK e \in Entries :
        /\ e = s /\ e.role = "summary" /\ e.id = drawn + 1 /\ e.kind = local[p].reason
        /\ e.keep = local[p].keep /\ Neutral(e)
  <2>1. local[p].reason \in Kinds /\ local[p].keep \in Nat
    BY <1>3 DEF IsLocal, Kinds
  <2> DEFINE kind == local[p].reason
             k == local[p].keep
  <2> HIDE DEF kind, k
  <2>2. kind \in Kinds /\ k \in Nat
    BY <2>1 DEF kind, k
  <2>3. LET e == [New("summary", kind) EXCEPT !.keep = k]
        IN /\ e \in Entries /\ e.role = "summary" /\ e.keep = k
           /\ e.kind = kind /\ e.id = drawn + 1 /\ Neutral(e)
    BY <1>3, <2>2, SummaryIs
  <2>4. s = [New("summary", kind) EXCEPT !.keep = k]
    BY DEF kind, k
  <2> HIDE DEF s
  <2>5. /\ s \in Entries /\ s.role = "summary" /\ s.id = drawn + 1
        /\ s.kind = kind /\ s.keep = k /\ Neutral(s)
    BY <2>3, <2>4
  <2>6. k = local[p].keep /\ kind = local[p].reason
    BY DEF k, kind
  <2> QED BY <2>5, <2>6
<1>7. msgs \in {context, WithoutAnswer(context)} /\ t \in {<<>>, pendingBash}
      /\ pendingBash' \in {<<>>, pendingBash}
      /\ IF retries /\ failed THEN msgs = WithoutAnswer(context) ELSE msgs = context
  BY <1>1
<1> HIDE DEF msgs, t, s, place
<1>8. /\ MayKeep(branch, e.keep) /\ branch' = Append(branch, e) \o t
      /\ context = ContextOf(Append(branch, e))
  BY <1>1, <1>3, <1>6
<1> HIDE DEF context
<1>9. LET new == ContextOf(Append(branch, e))
      IN \E n \in {new, WithoutAnswer(new)} :
           /\ messages' = n \o t
           /\ dropped' = {new[i].id : i \in (Len(n) + 1)..Len(new)}
           /\ IF /\ local[p].reason = "overflow" /\ LastOf(new).role = "assistant"
                 /\ IsError(LastOf(new))
                THEN n = WithoutAnswer(new) ELSE n = new
  BY <1>1, <1>7, <1>8
<1>10. \E f \in Entries, u \in {<<>>, pendingBash} :
         /\ f.role = "summary" /\ f.id = drawn + 1 /\ f.kind = local[p].reason
         /\ MayKeep(branch, f.keep) /\ Neutral(f)
         /\ pc'[p] = "continue" =>
              u = <<>> /\ (local[p].reason = "overflow" \/ HasQueued)
         /\ branch' = Append(branch, f) \o u
         /\ LET new == ContextOf(Append(branch, f))
            IN \E n \in {new, WithoutAnswer(new)} :
                 /\ messages' = n \o u
                 /\ dropped' = {new[i].id : i \in (Len(n) + 1)..Len(new)}
                 /\ IF /\ local[p].reason = "overflow"
                       /\ LastOf(new).role = "assistant" /\ IsError(LastOf(new))
                      THEN n = WithoutAnswer(new) ELSE n = new
  <2> t \in {<<>>, pendingBash}
    BY <1>7
  <2> WITNESS e \in Entries
  <2> WITNESS t \in {<<>>, pendingBash}
  <2> QED BY <1>4, <1>6, <1>8, <1>9
<1> QED
  BY <1>1, <1>3, <1>4, <1>5, <1>7, <1>10

LEMMA AutoCompactedPairs ==
  ASSUME IInv, Pairs, NEW p \in Callers, AutoCompacted(p)
  PROVE  Pairs'
<1>1. /\ phase = "none" /\ held = None
      /\ UNCHANGED <<phase, held, crossed, cpc, ckeep, brokenOff>>
      /\ pendingBash' \in {<<>>, pendingBash}
      /\ \A q \in Callers : pc'[q] \in {"continue", "ready", "idle"}
  BY AutoCompactedIs
<1>2. PICK e \in Entries, t \in {<<>>, pendingBash} :
        /\ MayKeep(branch, e.keep) /\ Neutral(e)
        /\ branch' = Append(branch, e) \o t
        /\ \E msgs \in {ContextOf(Append(branch, e)),
                        WithoutAnswer(ContextOf(Append(branch, e)))} :
             messages' = msgs \o t
  BY AutoCompactedIs
<1> DEFINE b == Append(branch, e)
<1>3. /\ branch \in Seq(Entries) /\ Cut(branch) /\ AllBash(pendingBash)
      /\ ~crossed => Closed(branch, brokenOff)
  BY <1>1 DEF IInv, Types, Buffers, Pairs, Pairing, Told, Cuts
<1>4. AllBash(t) /\ AllBash(pendingBash')
  <2>1. AllBash(<<>>)
    BY DEF AllBash
  <2> QED BY <1>1, <1>3, <2>1
<1>5. b \in Seq(Entries) /\ Cut(b) /\ (~crossed => Closed(b, brokenOff))
  <2>1. b \in Seq(Entries) /\ Cut(b)
    BY <1>2, <1>3, CutAppend
  <2>2. ~crossed => Closed(b, brokenOff)
    BY <1>2, <1>3, ClosedAppend
  <2> QED BY <2>1, <2>2
<1>6. PICK msgs \in {ContextOf(b), WithoutAnswer(ContextOf(b))} :
        messages' = msgs \o t
  BY <1>2
<1>7. branch' = b \o t
  BY <1>2
<1>8. cpc' = "compacting" => MayKeep(b, ckeep')
  BY <1>1, <1>3, MayKeepAppend DEF Pairs, Cuts
<1> HIDE DEF b
<1>9. msgs \in Seq(Entries) /\ (~crossed => Closed(msgs, brokenOff))
  <2>1. ContextOf(b) \in Seq(Entries) /\ (~crossed => Closed(ContextOf(b), brokenOff))
    BY <1>5, ContextType, ClosedContext
  <2>2. WithoutAnswer(ContextOf(b)) \in Seq(Entries)
    BY <2>1 DEF WithoutAnswer
  <2>3. ~crossed => Closed(WithoutAnswer(ContextOf(b)), brokenOff)
    BY <2>1, ClosedShort
  <2> QED BY <2>1, <2>2, <2>3
<1> QED
  BY <1>1, <1>4, <1>5, <1>6, <1>7, <1>8, <1>9, RebuildPairs

LEMMA InitPairs == Init => Pairs
<1> SUFFICES ASSUME Init PROVE Pairs
  OBVIOUS
<1>1. AllBash(<<>>) /\ Closed(<<>>, {}) /\ Cut(<<>>)
  BY DEF AllBash, Closed, PairedTo, Cut
<1>2. Pairing
  BY <1>1, NoneIs DEF Pairing, Told, IsResult, Init
<1>3. Cuts
  BY <1>1, NoneIs DEF Cuts, Init, NotSummary
<1> QED
  BY <1>1, <1>2, <1>3 DEF Pairs, Init, AllBash

LEMMA NextPairs == IInv /\ Pairs /\ [Next]_vars => Pairs'
<1> SUFFICES ASSUME IInv, Pairs, [Next]_vars PROVE Pairs'
  OBVIOUS
<1>1. CASE Loop
  BY <1>1, EmitPairs, HandlePairs, PollPairs, AnswerPairs, ToolResultPairs,
     BatchEndsPairs, EndRunPairs, HandlerFailsPairs, ReportPairs, ReportFailsPairs
  DEF Loop
<1>2. ASSUME NEW p \in Callers, Step(p) \/ Prompt(p)
      PROVE  Pairs'
  BY <1>2, CheckPairs, SendPairs, WakePairs, AutoCompactedPairs, PromptPairs DEF Step
<1>3. CASE Queue \/ ClearQueue \/ Bash \/ Abort \/ CompactBegins \/ Compact
  BY <1>3, QueuePairs, BashPairs, AbortPairs, CompactPreparesPairs,
     CompactEndsPairs DEF Compact
<1>4. CASE UNCHANGED vars
  <2>1. UNCHANGED <<messages, branch, held, crossed, phase, pendingBash, pc, local,
                    cpc, ckeep, batch, results, brokenOff>>
    BY <1>4 DEF vars, agent, calls, run, compact, marks, history
  <2> QED BY <2>1, SamePairs DEF Pairs
<1> QED
  BY <1>1, <1>2, <1>3, <1>4 DEF Next, Rest

\* In every request the results of an answer's calls follow it at once, one for
\* each call, but for a batch that was aborted or failed on the way, and no result
\* comes without its call (recordBashResult, findCutPoint, _prepareRetry and both
\* kinds of compaction), also after the session's handler failed.
THEOREM CallsHaveResults == Spec => []ToolPairs
<1>1. Init => IInv /\ Pairs
  BY InitIs, InitPairs
<1>2. IInv /\ Pairs /\ [Next]_vars => (IInv /\ Pairs)'
  BY NextKeeps, NextPairs
<1>3. IInv /\ Pairs => ToolPairs
  <2> SUFFICES ASSUME Pairs, phase = "request", ~crossed
               PROVE  ToolPairs
    BY DEF ToolPairs
  <2>1. messages \in Seq(Entries) /\ Closed(messages, brokenOff)
    BY DEF Pairs, Pairing
  <2>2. DOMAIN messages = 1..Len(messages)
    BY <2>1
  <2>3. ASSUME NEW i \in DOMAIN messages
        PROVE  CallPaired(messages, i, 0, brokenOff) /\ ResultPaired(messages, i) /\ i # 0
    BY <2>1, <2>2 DEF Closed, PairedTo
  <2>4. \A i \in DOMAIN messages :
          IsToolCall(messages[i]) /\ messages[i].id \notin brokenOff =>
            \A k \in 1..messages[i].calls :
              i + k <= Len(messages) /\ IsResult(messages[i + k])
    BY <2>3 DEF CallPaired
  <2>5. \A i \in DOMAIN messages :
          IsResult(messages[i]) =>
            \E j \in 1..(i - 1) :
              /\ IsToolCall(messages[j]) /\ i - j <= messages[j].calls
              /\ \A k \in (j + 1)..i : IsResult(messages[k])
    BY <2>3 DEF ResultPaired
  <2> QED BY <2>4, <2>5 DEF ToolPairs
<1> QED
  BY <1>1, <1>2, <1>3, PTL DEF Spec
-----------------------------------------------------------------------------
(* The numbers of answers *)

AnswerIds(b) == {b[i].id : i \in {j \in 1..Len(b) : b[j].role = "assistant"}}

\* No other entry has the number of an answer.
Numbered(b, n) ==
  \A i \in 1..Len(b) :
    /\ b[i].id <= n
    /\ b[i].role = "assistant" =>
         b[i].id >= 1 /\ \A j \in 1..Len(b) : j # i => b[j].id # b[i].id

LEMMA NumberedAppend ==
  ASSUME NEW b \in Seq(Entries), NEW m \in Entries, NEW n \in Nat, NEW k \in Nat,
         n <= k, Numbered(b, n), m.id <= k,
         m.role = "assistant" => m.id > n,
         m.role # "assistant" => m.id \notin AnswerIds(b)
  PROVE  /\ Numbered(Append(b, m), k)
         /\ AnswerIds(Append(b, m))
              = AnswerIds(b) \union (IF m.role = "assistant" THEN {m.id} ELSE {})
<1> DEFINE c == Append(b, m)
           last == Len(b) + 1
<1>1. /\ Len(c) = last /\ Len(b) \in Nat
      /\ \A i \in 1..Len(b) : c[i] = b[i] /\ b[i] \in Entries
      /\ c[last] = m
  OBVIOUS
<1>2. 1..last = (1..Len(b)) \union {last} /\ last \notin 1..Len(b)
  BY <1>1
<1>3. \A i \in 1..Len(b) : b[i].id \in Nat /\ b[i].id <= n
  BY <1>1 DEF Numbered, Entries
<1>4. m.id \in Nat
  BY DEF Entries
<1> HIDE DEF c, last
<1>5. ASSUME NEW i \in 1..last
      PROVE  /\ c[i].id <= k
             /\ c[i].role = "assistant" =>
                  c[i].id >= 1 /\ \A j \in 1..last : j # i => c[j].id # c[i].id
  <2>1. CASE i \in 1..Len(b)
    <3>1. c[i] = b[i] /\ c[i].id <= k
      BY <1>1, <1>3, <2>1
    <3>2. SUFFICES ASSUME b[i].role = "assistant"
                   PROVE  /\ b[i].id >= 1
                          /\ \A j \in 1..last : j # i => c[j].id # b[i].id
      BY <3>1
    <3>3. b[i].id >= 1 /\ \A j \in 1..Len(b) : j # i => b[j].id # b[i].id
      BY <2>1, <3>2 DEF Numbered
    <3>4. m.id # b[i].id
      <4>1. CASE m.role = "assistant"
        BY <1>3, <1>4, <2>1, <4>1
      <4>2. CASE m.role # "assistant"
        BY <2>1, <3>2, <4>2 DEF AnswerIds
      <4> QED BY <4>1, <4>2
    <3> QED BY <1>1, <1>2, <3>3, <3>4
  <2>2. CASE i = last
    <3>1. c[i] = m
      BY <1>1, <2>2
    <3>2. SUFFICES ASSUME m.role = "assistant"
                   PROVE  /\ m.id >= 1
                          /\ \A j \in 1..last : j # last => c[j].id # m.id
      BY <2>2, <3>1
    <3>3. m.id >= 1
      BY <1>4, <3>2
    <3>4. \A j \in 1..Len(b) : b[j].id # m.id
      BY <1>3, <1>4, <3>2
    <3> QED BY <1>1, <1>2, <3>3, <3>4
  <2> QED BY <1>2, <2>1, <2>2
<1>6. Numbered(c, k)
  BY <1>1, <1>5 DEF Numbered
<1>7. AnswerIds(c) = AnswerIds(b) \union (IF m.role = "assistant" THEN {m.id} ELSE {})
  <2>1. ASSUME NEW i \in 1..last, c[i].role = "assistant"
        PROVE  c[i].id \in AnswerIds(b)
                 \union (IF m.role = "assistant" THEN {m.id} ELSE {})
    BY <1>1, <1>2, <2>1 DEF AnswerIds
  <2>2. ASSUME NEW i \in 1..Len(b), b[i].role = "assistant"
        PROVE  \E j \in 1..last : c[j].role = "assistant" /\ c[j].id = b[i].id
    BY <1>1, <1>2, <2>2
  <2>3. m.role = "assistant" =>
          \E j \in 1..last : c[j].role = "assistant" /\ c[j].id = m.id
    BY <1>1, <1>2
  <2> QED BY <1>1, <2>1, <2>2, <2>3 DEF AnswerIds
<1> QED
  BY <1>6, <1>7 DEF c

LEMMA NumberedCat ==
  ASSUME NEW b \in Seq(Entries), NEW t, AllBash(t), NEW n \in Nat, Numbered(b, n),
         \A i \in 1..Len(t) : t[i].id <= n /\ t[i].id \notin AnswerIds(b)
  PROVE  Numbered(b \o t, n) /\ AnswerIds(b \o t) = AnswerIds(b)
<1> DEFINE c == b \o t
           old == 1..Len(b)
           new == (Len(b) + 1)..(Len(b) + Len(t))
<1>1. t \in Seq(Entries) /\ \A i \in 1..Len(t) : t[i].role = "bash"
  BY DEF AllBash
<1>2. /\ Len(c) = Len(b) + Len(t) /\ Len(b) \in Nat /\ Len(t) \in Nat
      /\ \A i \in old : c[i] = b[i]
      /\ \A i \in new : i - Len(b) \in 1..Len(t) /\ c[i] = t[i - Len(b)]
  BY <1>1
<1>3. 1..Len(c) = old \union new /\ old \intersect new = {}
  BY <1>2
<1>4. \A i \in new : c[i].role = "bash" /\ c[i].id <= n /\ c[i].id \notin AnswerIds(b)
  BY <1>1, <1>2
<1>5. \A i \in old :
        /\ b[i].id <= n
        /\ b[i].role = "assistant" => /\ b[i].id >= 1 /\ b[i].id \in AnswerIds(b)
                                      /\ \A j \in old : j # i => b[j].id # b[i].id
  BY DEF Numbered, AnswerIds
<1> HIDE DEF c, old, new
<1>6. Numbered(c, n)
  <2>1. ASSUME NEW i \in old \union new
        PROVE  /\ c[i].id <= n
               /\ c[i].role = "assistant" =>
                    /\ c[i].id >= 1
                    /\ \A j \in old \union new : j # i => c[j].id # c[i].id
    BY <1>2, <1>4, <1>5
  <2> QED BY <1>3, <2>1 DEF Numbered
<1>7. AnswerIds(c) = AnswerIds(b)
  <2>1. AnswerIds(c) = {c[i].id : i \in {j \in old \union new : c[j].role = "assistant"}}
    BY <1>3 DEF AnswerIds
  <2>2. AnswerIds(b) = {b[i].id : i \in {j \in old : b[j].role = "assistant"}}
    BY DEF AnswerIds, old
  <2> QED BY <1>2, <1>4, <2>1, <2>2
<1> QED
  BY <1>6, <1>7 DEF c

\* The context has each entry of the branch once.
LEMMA ContextNumbered ==
  ASSUME NEW b \in Seq(Entries), Cut(b), NEW n \in Nat, Numbered(b, n)
  PROVE  Numbered(ContextOf(b), n) /\ AnswerIds(ContextOf(b)) \subseteq AnswerIds(b)
<1>1. CASE LastSummary(b) = 0
  BY <1>1 DEF ContextOf
<1>2. CASE LastSummary(b) # 0
  <2> DEFINE c == LastSummary(b)
             at == {i \in b[c].keep..Len(b) : NotSummary(b[i])}
             p == Picked(b, at)
             s == ContextOf(b)
  <2>1. /\ c \in 1..Len(b) /\ c \notin at /\ at \in SUBSET (1..Len(b))
        /\ p \in Seq(Entries) /\ s = <<b[c]>> \o p
    BY <1>2, ContextForm
  <2>2. \A i \in at : b[i] \in Entries
    BY <2>1
  <2> HIDE DEF c, at
  <2>3. Len(p) = Cardinality(at)
    <3>1. Len(b) \in Nat /\ at \in SUBSET (1..Len(b))
      BY <2>1
    <3>2. Len(Picked(b, at)) = Cardinality(at)
      BY <2>2, <3>1, PickedIs
    <3> QED BY <3>2
  <2>4. /\ \A i \in at : Rank(at, i) \in 1..Len(p) /\ p[Rank(at, i)] = b[i]
        /\ \A k \in 1..Len(p) : \E i \in at : Rank(at, i) = k
    <3>1. Len(b) \in Nat
      OBVIOUS
    <3>2. \A i \in at : Rank(at, i) \in 1..Cardinality(at)
      BY <2>1, <3>1, RankIs
    <3>3. \A i \in at : p[Rank(at, i)] = b[i]
      BY <2>1, <3>1, PickedAt
    <3>4. \A k \in 1..Cardinality(at) : \E i \in at : Rank(at, i) = k
      BY <2>1, <3>1, RankOnto
    <3> QED BY <2>3, <3>2, <3>3, <3>4
  <2> HIDE DEF p
  <2>5. /\ Len(s) = Len(p) + 1 /\ Len(p) \in Nat /\ s[1] = b[c]
        /\ \A k \in 1..Len(p) : s[k + 1] = p[k]
    <3>1. <<b[c]>> \in Seq(Entries) /\ Len(<<b[c]>>) = 1 /\ <<b[c]>>[1] = b[c]
      BY <2>1
    <3> DEFINE f == <<b[c]>>
    <3>2. f \in Seq(Entries) /\ Len(f) = 1 /\ f[1] = b[c]
      BY <3>1
    <3> HIDE DEF f
    <3>3. /\ Len(f \o p) = Len(p) + 1 /\ Len(p) \in Nat /\ (f \o p)[1] = f[1]
          /\ \A k \in 1..Len(p) : (f \o p)[k + 1] = p[k]
      <4>1. f \in Seq(Entries) /\ p \in Seq(Entries)
        BY <2>1, <3>2
      <4>2. /\ Len(f \o p) = Len(f) + Len(p) /\ Len(p) \in Nat
            /\ \A i \in 1..(Len(f) + Len(p)) :
                 (f \o p)[i] = IF i <= Len(f) THEN f[i] ELSE p[i - Len(f)]
        BY <4>1
      <4>3. \A k \in 1..Len(p) : k + 1 \in 1..(1 + Len(p)) /\ (k + 1) - 1 = k /\ ~(k + 1 <= 1)
        BY <4>2
      <4>4. (f \o p)[1] = f[1]
        BY <3>2, <4>2
      <4>5. \A k \in 1..Len(p) : (f \o p)[k + 1] = p[k]
        BY <3>2, <4>2, <4>3
      <4> QED BY <3>2, <4>2, <4>4, <4>5
    <3> QED BY <2>1, <3>2, <3>3 DEF f
  <2> HIDE DEF s
  <2> DEFINE Stands(k, i) == /\ i \in 1..Len(b) /\ s[k] = b[i]
                             /\ IF k = 1 THEN i = c
                                ELSE i \in at /\ Rank(at, i) = k - 1
  <2>6. ASSUME NEW k \in 1..Len(s) PROVE \E i : Stands(k, i)
    <3>1. CASE k = 1
      BY <2>1, <2>5, <3>1
    <3>2. CASE k # 1
      <4>1. k - 1 \in 1..Len(p) /\ (k - 1) + 1 = k
        BY <2>5, <3>2
      <4>2. PICK i \in at : Rank(at, i) = k - 1
        BY <2>4, <4>1
      <4>3. s[k] = b[i]
        BY <2>4, <2>5, <4>1, <4>2
      <4> QED BY <2>1, <3>2, <4>2, <4>3
    <3> QED BY <3>1, <3>2
  <2>7. ASSUME NEW k \in 1..Len(s), NEW l \in 1..Len(s), NEW i,
               Stands(k, i), Stands(l, i)
        PROVE  k = l
    <3>1. CASE k = 1 \/ l = 1
      BY <2>1, <2>7, <3>1
    <3>2. CASE k # 1 /\ l # 1
      <4>1. k - 1 = l - 1
        BY <2>7, <3>2
      <4>2. k \in Int /\ l \in Int
        OBVIOUS
      <4> QED BY <4>1, <4>2
    <3> QED BY <3>1, <3>2
  <2>8. \A k \in 1..Len(s) : \A i : Stands(k, i) => i \in 1..Len(b) /\ s[k] = b[i]
    OBVIOUS
  <2> HIDE DEF Stands
  <2>9. Numbered(s, n)
    <3> SUFFICES ASSUME NEW k \in 1..Len(s)
                 PROVE  /\ s[k].id <= n
                        /\ s[k].role = "assistant" =>
                             /\ s[k].id >= 1
                             /\ \A l \in 1..Len(s) : l # k => s[l].id # s[k].id
      BY DEF Numbered
    <3>1. PICK i : Stands(k, i)
      BY <2>6
    <3>2. /\ i \in 1..Len(b) /\ s[k] = b[i] /\ b[i].id <= n
          /\ b[i].role = "assistant" =>
               b[i].id >= 1 /\ \A j \in 1..Len(b) : j # i => b[j].id # b[i].id
      BY <2>8, <3>1 DEF Numbered
    <3>3. ASSUME NEW l \in 1..Len(s), l # k, s[k].role = "assistant"
          PROVE  s[l].id # s[k].id
      <4>1. PICK j : Stands(l, j)
        BY <2>6
      <4>2. j \in 1..Len(b) /\ s[l] = b[j]
        BY <2>8, <4>1
      <4>3. j # i
        BY <2>7, <3>1, <3>3, <4>1
      <4> QED BY <3>2, <3>3, <4>2, <4>3
    <3> QED BY <3>2, <3>3
  <2>10. AnswerIds(s) \subseteq AnswerIds(b)
    <3> SUFFICES ASSUME NEW k \in 1..Len(s), s[k].role = "assistant"
                 PROVE  s[k].id \in AnswerIds(b)
      BY DEF AnswerIds
    <3>1. PICK i : Stands(k, i)
      BY <2>6
    <3> QED BY <2>8, <3>1 DEF AnswerIds
  <2> QED BY <2>9, <2>10 DEF s
<1> QED
  BY <1>1, <1>2

-----------------------------------------------------------------------------
(* What was dropped *)

LEMMA WithoutIs ==
  ASSUME NEW s \in Seq(Entries), NEW ids
  PROVE  Without(s, ids) \in Seq(Entries)
<1> DEFINE at == {i \in DOMAIN s : s[i].id \notin ids}
<1>1. at \in SUBSET (1..Len(s)) /\ Len(s) \in Nat /\ \A i \in at : s[i] \in Entries
  OBVIOUS
<1> HIDE DEF at
<1>2. Picked(s, at) \in Seq(Entries)
  BY <1>1, PickedIs
<1> QED
  BY <1>2 DEF Without, at

LEMMA WithoutNothing ==
  ASSUME NEW s \in Seq(Entries)
  PROVE  Without(s, {}) = s
<1>1. {i \in DOMAIN s : s[i].id \notin {}} = 1..Len(s)
  OBVIOUS
<1> QED
  BY <1>1, PickedAll DEF Without

LEMMA WithoutCat ==
  ASSUME NEW s \in Seq(Entries), NEW t \in Seq(Entries), NEW ids,
         \A i \in 1..Len(t) : t[i].id \notin ids
  PROVE  Without(s \o t, ids) = Without(s, ids) \o t
<1> DEFINE at == {i \in DOMAIN s : s[i].id \notin ids}
           c == s \o t
           new == (Len(s) + 1)..(Len(s) + Len(t))
<1>1. at \in SUBSET (1..Len(s))
  OBVIOUS
<1>2. /\ DOMAIN c = 1..(Len(s) + Len(t)) /\ DOMAIN s = 1..Len(s)
      /\ Len(s) \in Nat /\ Len(t) \in Nat
      /\ \A i \in 1..Len(s) : c[i] = s[i]
      /\ \A i \in new : i - Len(s) \in 1..Len(t) /\ c[i] = t[i - Len(s)]
  OBVIOUS
<1>3. 1..(Len(s) + Len(t)) = (1..Len(s)) \union new
  BY <1>2
<1>4. \A i \in new : c[i].id \notin ids
  BY <1>2
<1> HIDE DEF c, new
<1>5. {i \in DOMAIN c : c[i].id \notin ids} = at \union new
  BY <1>2, <1>3, <1>4
<1>6. Picked(s \o t, at \union ((Len(s) + 1)..(Len(s) + Len(t)))) = Picked(s, at) \o t
  <2> HIDE DEF at
  <2> QED BY <1>1, PickedCat
<1> QED
  BY <1>5, <1>6 DEF Without, c, new

LEMMA LastPicked ==
  ASSUME NEW n \in Nat, NEW at \in SUBSET (1..n), NEW s,
         \A i \in at : s[i] \in Entries, NEW m \in at, \A j \in at : j <= m,
         NEW cur, cur = Picked(s, at)
  PROVE  /\ Len(cur) \in Nat \ {0} /\ cur[Len(cur)] = s[m]
         /\ Picked(s, at \ {m}) = SubSeq(cur, 1, Len(cur) - 1)
<1>1. /\ Picked(s, at) \in Seq(Entries)
      /\ Len(Picked(s, at)) \in Nat \ {0}
      /\ Picked(s, at)[Len(Picked(s, at))] = s[m]
      /\ Picked(s, at \ {m}) = SubSeq(Picked(s, at), 1, Len(Picked(s, at)) - 1)
  BY PickedButLast
<1> QED
  BY <1>1

\* Dropping the answer at the end: its number stands nowhere else.
LEMMA WithoutLast ==
  ASSUME NEW s \in Seq(Entries), NEW n \in Nat, Numbered(s, n), NEW ids,
         NEW cur, cur = Without(s, ids), LastOf(cur).role = "assistant"
  PROVE  /\ SubSeq(cur, 1, Len(cur) - 1) = Without(s, ids \union {LastOf(cur).id})
         /\ LastOf(cur).id \in AnswerIds(s)
         /\ Len(cur) \in Nat \ {0} /\ LastOf(cur) = cur[Len(cur)]
<1> DEFINE at == {i \in DOMAIN s : s[i].id \notin ids}
<1>1. at \in SUBSET (1..Len(s)) /\ Len(s) \in Nat /\ \A i \in at : s[i] \in Entries
  OBVIOUS
<1>2. cur = Picked(s, at)
  BY DEF Without
<1>3. cur # <<>>
  BY NoneIs DEF LastOf
<1>4. at # {}
  <2> HIDE DEF at
  <2>1. cur \in Seq(Entries) /\ Len(cur) = Cardinality(at)
    BY <1>1, <1>2, PickedIs
  <2>2. Cardinality(at) # 0
    BY <1>3, <2>1
  <2>3. Cardinality({}) = 0
    BY FS_EmptySet
  <2> QED BY <2>2, <2>3
<1>5. PICK m \in at : \A j \in at : j <= m
  <2> HIDE DEF at
  <2> QED BY <1>1, <1>4, GreatestExists
<1>6. /\ Len(cur) \in Nat \ {0} /\ cur[Len(cur)] = s[m]
      /\ Picked(s, at \ {m}) = SubSeq(cur, 1, Len(cur) - 1)
  <2> HIDE DEF at
  <2>1. Len(s) \in Nat /\ at \in SUBSET (1..Len(s)) /\ \A i \in at : s[i] \in Entries
    BY <1>1
  <2>2. m \in at /\ \A j \in at : j <= m
    BY <1>5
  <2> QED BY <1>2, <2>1, <2>2, LastPicked
<1>7. LastOf(cur) = s[m] /\ s[m].role = "assistant" /\ m \in 1..Len(s)
  BY <1>1, <1>3, <1>5, <1>6 DEF LastOf
<1>8. \A j \in 1..Len(s) : j # m => s[j].id # s[m].id
  BY <1>7 DEF Numbered
<1>9. {i \in DOMAIN s : s[i].id \notin ids \union {s[m].id}} = at \ {m}
  BY <1>1, <1>5, <1>8
<1>10. Without(s, ids \union {LastOf(cur).id}) = Picked(s, at \ {m})
  BY <1>7, <1>9 DEF Without
<1>11. LastOf(cur).id \in AnswerIds(s)
  BY <1>7 DEF AnswerIds
<1> QED
  BY <1>6, <1>7, <1>10, <1>11

Gone(msgs, cur) == {cur[i].id : i \in (Len(msgs) + 1)..Len(cur)}
Shorter(msgs, cur) == msgs \in {cur, WithoutAnswer(cur)}

\* What goes when the answer at the end may go.
LEMMA Shortened ==
  ASSUME NEW s \in Seq(Entries), NEW n \in Nat, Numbered(s, n), NEW ids,
         NEW cur, cur = Without(s, ids), NEW msgs, Shorter(msgs, cur),
         NEW gone, gone = Gone(msgs, cur)
  PROVE  msgs = Without(s, ids \union gone) /\ gone \subseteq AnswerIds(s)
<1>1. cur \in Seq(Entries) /\ Len(cur) \in Nat
  BY WithoutIs
<1>2. CASE msgs = cur
  <2>1. (Len(msgs) + 1)..Len(cur) = {}
    BY <1>1, <1>2
  <2>2. gone = {}
    BY <2>1 DEF Gone
  <2>3. ids \union gone = ids
    BY <2>2
  <2> QED BY <1>2, <2>2, <2>3
<1>3. CASE msgs # cur
  <2>1. LastOf(cur).role = "assistant" /\ msgs = SubSeq(cur, 1, Len(cur) - 1)
    BY <1>3 DEF WithoutAnswer, Shorter
  <2>2. /\ msgs = Without(s, ids \union {LastOf(cur).id})
        /\ LastOf(cur).id \in AnswerIds(s)
        /\ Len(cur) \in Nat \ {0} /\ LastOf(cur) = cur[Len(cur)]
    BY <2>1, WithoutLast
  <2>3. Len(msgs) = Len(cur) - 1
    <3>1. \A q \in Seq(Entries) :
            Len(q) \in Nat /\ Len(q) # 0 => Len(SubSeq(q, 1, Len(q) - 1)) = Len(q) - 1
      <4> TAKE q \in Seq(Entries)
      <4>0. Len(q) \in Nat
        OBVIOUS
      <4>1. Len(q) = 1 => Len(SubSeq(q, 1, Len(q) - 1)) = Len(q) - 1
        OBVIOUS
      <4>2. Len(q) >= 2 => Len(SubSeq(q, 1, Len(q) - 1)) = Len(q) - 1
        OBVIOUS
      <4> DEFINE x == Len(q)
                 y == Len(SubSeq(q, 1, Len(q) - 1)) = Len(q) - 1
      <4>3. x \in Nat /\ (x = 1 => y) /\ (x >= 2 => y)
        BY <4>0, <4>1, <4>2
      <4> HIDE DEF x, y
      <4>4. x \in Nat /\ x # 0 => y
        BY <4>3
      <4> QED BY <4>4 DEF x, y
    <3> QED BY <1>1, <2>1, <2>2, <3>1
  <2>4. (Len(msgs) + 1)..Len(cur) = {Len(cur)}
    BY <2>2, <2>3
  <2>5. gone = {LastOf(cur).id}
    BY <2>2, <2>4 DEF Gone
  <2> QED BY <2>2, <2>5
<1> QED
  BY <1>2, <1>3
-----------------------------------------------------------------------------
(* The agent and the session *)

Elements(s) == {s[i] : i \in 1..Len(s)}

\* The messages that may still be added.
Pool ==
  Elements(steering) \union Elements(followUps) \union Elements(outbox)
    \union Elements(pendingBash) \union {local[p].prompt : p \in Callers}
    \union {None}

\* An event has passed the session by, or it failed to handle one.
Astray == crossed \/ handlerFailed

\* The agent holds the context of the session without what was dropped, and
\* only answers were: no message that is still to come has the number of one.
Agrees ==
  ~Astray =>
    /\ Numbered(Told, drawn)
    /\ \A x \in Pool : x.id <= drawn /\ x.id \notin AnswerIds(Told)
    /\ dropped \subseteq AnswerIds(Told)
    /\ messages = Without(ContextOf(Told), dropped)

LEMMA ElementsAre ==
  ASSUME NEW S, NEW s \in Seq(S)
  PROVE  /\ Elements(s) \subseteq S /\ Elements(<<>>) = {}
         /\ \A m : Elements(<<m>>) = {m}
         /\ s # <<>> => Head(s) \in Elements(s) /\ Elements(Tail(s)) \subseteq Elements(s)
         /\ \A m \in S : Elements(Append(s, m)) = Elements(s) \union {m}
<1>1. Elements(s) \subseteq S /\ Elements(<<>>) = {}
  BY DEF Elements
<1>2. \A m : Elements(<<m>>) = {m}
  BY DEF Elements
<1>3. ASSUME s # <<>> PROVE Head(s) \in Elements(s)
  <2>1. Head(s) = s[1] /\ Len(s) \in Nat /\ Len(s) >= 1
    BY <1>3
  <2> QED BY <2>1 DEF Elements
<1>4. ASSUME s # <<>> PROVE Elements(Tail(s)) \subseteq Elements(s)
  <2>1. /\ Len(s) \in Nat /\ Len(Tail(s)) = Len(s) - 1
        /\ \A i \in 1..(Len(s) - 1) : Tail(s)[i] = s[i + 1] /\ i + 1 \in 1..Len(s)
    BY <1>3, <1>4
  <2> QED BY <2>1 DEF Elements
<1>5. ASSUME NEW m \in S PROVE Elements(Append(s, m)) = Elements(s) \union {m}
  <2> DEFINE c == Append(s, m)
             last == Len(s) + 1
  <2>1. /\ Len(c) = last /\ c[last] = m /\ Len(s) \in Nat
        /\ \A i \in 1..Len(s) : c[i] = s[i]
    OBVIOUS
  <2>2. 1..last = (1..Len(s)) \union {last}
    BY <2>1
  <2> HIDE DEF c, last
  <2>3. Elements(c) = {c[i] : i \in (1..Len(s)) \union {last}}
    BY <2>1, <2>2 DEF Elements
  <2>4. Elements(c) = Elements(s) \union {m}
    BY <2>1, <2>3 DEF Elements
  <2> QED BY <2>4 DEF c
<1> QED
  BY <1>1, <1>2, <1>3, <1>4, <1>5

LEMMA PoolType ==
  ASSUME Types
  PROVE  \A x \in Pool : x.id \in Nat
<1>1. /\ Elements(steering) \subseteq Users /\ Elements(followUps) \subseteq Users
      /\ Elements(outbox) \subseteq Users /\ Elements(pendingBash) \subseteq Entries
  BY ElementsAre DEF Types, Buffers
<1>2. \A p \in Callers : local[p].prompt \in Entries
  BY DEF Types, Locals, IsLocal
<1>3. Pool \subseteq Entries
  BY <1>1, <1>2, NoneIs DEF Pool, Users
<1> QED
  BY <1>3 DEF Entries

LEMMA AnswerIdsAre ==
  ASSUME NEW b \in Seq(Entries), NEW n, Numbered(b, n)
  PROVE  \A x \in AnswerIds(b) : x \in Nat /\ 1 <= x /\ x <= n
<1>1. \A i \in 1..Len(b) : b[i] \in Entries
  OBVIOUS
<1> QED
  BY <1>1 DEF AnswerIds, Numbered, Entries

LEMMA NumberedMore ==
  ASSUME NEW b \in Seq(Entries), NEW n \in Nat, NEW k \in Nat, n <= k, Numbered(b, n)
  PROVE  Numbered(b, k)
<1>0. \A i \in 1..Len(b) : b[i] \in Entries
  OBVIOUS
<1>1. \A i \in 1..Len(b) : b[i].id \in Nat
  BY <1>0 DEF Entries
<1>2. \A i \in 1..Len(b) : b[i].id <= k
  BY <1>1 DEF Numbered
<1> QED
  BY <1>2 DEF Numbered

\* A message is added to both.
LEMMA AppendAgrees ==
  ASSUME Types, Agrees, ~Astray, Told \in Seq(Entries), Cut(Told),
         messages \in Seq(Entries), NEW m \in Entries, NotSummary(m),
         drawn' \in Nat, drawn <= drawn', m.id <= drawn',
         m.role = "assistant" => m.id > drawn,
         m.role # "assistant" => m.id \notin AnswerIds(Told),
         Told' = Append(Told, m), messages' = Append(messages, m),
         dropped' = dropped, Pool' \subseteq Pool
  PROVE  Agrees'
<1>1. /\ drawn \in Nat /\ Numbered(Told, drawn)
      /\ \A x \in Pool : x.id \in Nat /\ x.id <= drawn /\ x.id \notin AnswerIds(Told)
      /\ dropped \subseteq AnswerIds(Told)
      /\ messages = Without(ContextOf(Told), dropped)
  BY PoolType DEF Agrees, Types
<1>2. PICK b \in Seq(Entries) : b = Told
  OBVIOUS
<1>3. /\ Numbered(Append(b, m), drawn')
      /\ AnswerIds(Append(b, m))
           = AnswerIds(b) \union (IF m.role = "assistant" THEN {m.id} ELSE {})
  BY <1>1, <1>2, NumberedAppend
<1>4. \A x \in Pool' : x.id <= drawn' /\ x.id \notin AnswerIds(Append(b, m))
  BY <1>1, <1>2, <1>3
<1>5. m.id \notin dropped
  <2>1. \A x \in AnswerIds(b) : x \in Nat /\ x <= drawn
    BY <1>1, <1>2, AnswerIdsAre
  <2>2. m.id \in Nat
    BY DEF Entries
  <2> QED BY <1>1, <1>2, <2>1, <2>2
<1>6. Append(messages, m) = Without(ContextOf(Append(b, m)), dropped)
  <2>1. Append(b, m) = b \o <<m>> /\ <<m>> \in Seq(Entries)
    BY AppendIsCat
  <2>2. Append(messages, m) = messages \o <<m>>
    BY AppendIsCat
  <2>3. \A i \in 1..Len(<<m>>) : NotSummary(<<m>>[i]) /\ <<m>>[i].id \notin dropped
    BY <1>5
  <2> DEFINE t == <<m>>
  <2> HIDE DEF t
  <2>4. ContextOf(b \o t) = ContextOf(b) \o t
    BY <1>2, <2>1, <2>3, ContextCat DEF t
  <2>5. ContextOf(b) \in Seq(Entries)
    BY <1>2, ContextType
  <2>6. Without(ContextOf(b) \o t, dropped) = Without(ContextOf(b), dropped) \o t
    BY <2>1, <2>3, <2>5, WithoutCat DEF t
  <2> QED BY <1>1, <1>2, <2>1, <2>2, <2>4, <2>6 DEF t
<1> QED
  BY <1>1, <1>2, <1>3, <1>4, <1>6 DEF Agrees

\* Both are rebuilt from a branch, and what was held back follows.
LEMMA RebuildAgrees ==
  ASSUME drawn' \in Nat, NEW b \in Seq(Entries), Cut(b), Numbered(b, drawn'),
         NEW t, AllBash(t),
         \A i \in 1..Len(t) : t[i].id <= drawn' /\ t[i].id \notin AnswerIds(b),
         NEW msgs, msgs = Without(ContextOf(b), dropped'),
         dropped' \subseteq AnswerIds(b),
         Told' = b \o t, messages' = msgs \o t,
         \A x \in Pool' : x.id <= drawn' /\ x.id \notin AnswerIds(b)
  PROVE  Agrees'
<1>1. t \in Seq(Entries) /\ \A i \in 1..Len(t) : NotSummary(t[i])
  BY BashIsNeutral
<1>2. Numbered(b \o t, drawn') /\ AnswerIds(b \o t) = AnswerIds(b)
  BY NumberedCat
<1>3. ContextOf(b \o t) = ContextOf(b) \o t
  BY <1>1, ContextCat
<1>4. PICK ids : ids = dropped'
  OBVIOUS
<1>5. Without(ContextOf(b) \o t, ids) = Without(ContextOf(b), ids) \o t
  <2>1. ContextOf(b) \in Seq(Entries)
    BY ContextType
  <2>2. \A i \in 1..Len(t) : t[i].id \notin ids
    BY <1>4
  <2> QED BY <1>1, <2>1, <2>2, WithoutCat
<1> QED
  BY <1>2, <1>3, <1>4, <1>5 DEF Agrees

\* What is still to come changes, or nothing.
LEMMA SameAgrees ==
  ASSUME Types, Agrees, ~Astray, Told \in Seq(Entries),
         UNCHANGED <<Told, messages, dropped>>,
         drawn' \in {drawn, drawn + 1},
         \A x \in Pool' : x \in Pool \/ (x.id = drawn + 1 /\ drawn' = drawn + 1)
  PROVE  Agrees'
<1>1. /\ drawn \in Nat /\ Numbered(Told, drawn)
      /\ \A x \in Pool : x.id \in Nat /\ x.id <= drawn /\ x.id \notin AnswerIds(Told)
      /\ dropped \subseteq AnswerIds(Told)
      /\ messages = Without(ContextOf(Told), dropped)
  BY PoolType DEF Agrees, Types
<1>2. PICK b \in Seq(Entries) : b = Told
  OBVIOUS
<1>3. Numbered(b, drawn')
  BY <1>1, <1>2, NumberedMore
<1>4. \A x \in AnswerIds(b) : x \in Nat /\ x <= drawn
  BY <1>1, <1>2, AnswerIdsAre
<1>5. \A x \in Pool' : x.id <= drawn' /\ x.id \notin AnswerIds(b)
  BY <1>1, <1>2, <1>4
<1> QED
  BY <1>1, <1>2, <1>3, <1>5 DEF Agrees

\* What the steps start from.
LEMMA Rests ==
  ASSUME IInv, Pairs, Agrees, ~Astray
  PROVE  /\ Types /\ drawn \in Nat /\ messages \in Seq(Entries)
         /\ Told \in Seq(Entries) /\ AllBash(pendingBash)
         /\ branch \in Seq(Entries) /\ Cut(branch)
         /\ held = None => Told = branch
         /\ Numbered(Told, drawn) /\ dropped \subseteq AnswerIds(Told)
         /\ messages = Without(ContextOf(Told), dropped)
         /\ \A x \in AnswerIds(Told) : x \in Nat /\ 1 <= x /\ x <= drawn
         /\ \A x \in Pool : x.id <= drawn /\ x.id \notin AnswerIds(Told)
<1>1. branch \in Seq(Entries) /\ held \in Entries /\ Types
  BY DEF IInv, Types, Buffers
<1>2. Append(branch, held) \in Seq(Entries)
  BY <1>1
<1>3. Told \in Seq(Entries) /\ (held = None => Told = branch)
  BY <1>1, <1>2 DEF Told
<1>4. Numbered(Told, drawn)
  BY DEF Agrees
<1>5. \A x \in AnswerIds(Told) : x \in Nat /\ 1 <= x /\ x <= drawn
  BY <1>3, <1>4, AnswerIdsAre
<1> QED
  BY <1>1, <1>3, <1>4, <1>5 DEF Pairs, Cuts, Agrees, Types

LEMMA EmittedAgrees ==
  ASSUME IInv, Pairs, Agrees, NEW m \in Entries, m # None, NotSummary(m),
         Emitted(m), UNCHANGED <<branch, dropped, handlerFailed>>,
         drawn' \in Nat, drawn <= drawn', m.id <= drawn',
         \/ m.id = drawn + 1
         \/ m.role # "assistant" /\ m \in Pool,
         Pool' \subseteq Pool
  PROVE  Agrees'
<1>1. /\ messages' = Append(messages, m) /\ held = None
      /\ held' = (IF connected THEN m ELSE None)
      /\ crossed' = (crossed \/ ~connected)
  BY DEF Emitted
<1>2. SUFFICES ASSUME ~Astray' PROVE Agrees'
  BY DEF Agrees
<1>3. ~Astray /\ Told = branch /\ Told' = Append(Told, m)
  BY <1>1, <1>2 DEF Told, Astray
<1>4. /\ m.role = "assistant" => m.id > drawn
      /\ m.role # "assistant" => m.id \notin AnswerIds(Told)
  <2>1. /\ \A x \in AnswerIds(Told) : x \in Nat /\ x <= drawn
        /\ \A x \in Pool : x.id \notin AnswerIds(Told)
        /\ drawn \in Nat
    BY <1>3, Rests
  <2>2. CASE m.id = drawn + 1
    BY <2>1, <2>2
  <2>3. CASE m.role # "assistant" /\ m \in Pool
    BY <2>1, <2>3
  <2> QED BY <2>2, <2>3
<1> QED
  BY <1>1, <1>3, <1>4, Rests, AppendAgrees

LEMMA EmitAgrees ==
  ASSUME IInv, Pairs, Agrees, Emit
  PROVE  Agrees'
<1> USE DEF agent, calls, run, shown, retry, compact, marks, history
<1>1. /\ phase = "emit" /\ Emitted(Head(outbox)) /\ outbox' = Tail(outbox)
      /\ UNCHANGED <<branch, dropped, steering, followUps, pendingBash, local, drawn,
                     handlerFailed>>
  BY DEF Emit
<1>2. outbox \in Seq(Users) /\ outbox # <<>> /\ drawn \in Nat /\ Types
  BY <1>1 DEF IInv, Types, Alone
<1>3. PICK m \in Users : m = Head(outbox)
  BY <1>2
<1>4. m \in Entries /\ m # None /\ NotSummary(m) /\ m.role # "assistant"
  BY NoneIs DEF Users, NotSummary
<1>5. m \in Elements(outbox) /\ Elements(outbox') \subseteq Elements(outbox)
  BY <1>1, <1>2, <1>3, ElementsAre
<1>6. m \in Pool /\ Pool' \subseteq Pool
  BY <1>1, <1>5 DEF Pool
<1>7. Emitted(m)
  BY <1>1, <1>3
<1>8. CASE Astray
  <2>1. Astray'
    BY <1>1, <1>7, <1>8 DEF Emitted, Astray
  <2> QED BY <2>1 DEF Agrees
<1>9. CASE ~Astray
  <2>1. m.id <= drawn
    BY <1>6, <1>9, Rests
  <2> QED BY <1>1, <1>2, <1>4, <1>6, <1>7, <2>1, EmittedAgrees
<1> QED
  BY <1>8, <1>9

LEMMA NewNumber ==
  ASSUME NEW role, NEW kind
  PROVE  New(role, kind).id = drawn + 1
BY DEF New, Message

LEMMA AnswerAgrees ==
  ASSUME IInv, Pairs, Agrees, Answer \/ ToolResult
  PROVE  Agrees'
<1> USE DEF agent, calls, run, shown, retry, compact, marks, history
<1>1. /\ drawn' = drawn + 1
      /\ UNCHANGED <<branch, dropped, steering, followUps, outbox, pendingBash, local,
                     handlerFailed>>
  <2>1. CASE Answer
    BY <2>1 DEF Answer
  <2>2. CASE ToolResult
    BY <2>2 DEF ToolResult
  <2> QED BY <2>1, <2>2
<1>2. Pool' \subseteq Pool /\ drawn \in Nat
  BY <1>1 DEF Pool, IInv, Types
<1>3. PICK m \in Entries : m # None /\ NotSummary(m) /\ m.id = drawn + 1 /\ Emitted(m)
  <2>1. CASE Answer
    <3>1. PICK kind \in (IF aborted THEN {"aborted", "abortedLarge"} ELSE Outcomes) :
            \E n \in (IF kind \in {"ok", "large"} THEN 0..MaxCalls ELSE {0}) :
              Emitted([New("assistant", kind) EXCEPT !.calls = n])
      BY <2>1 DEF Answer
    <3>2. PICK n \in (IF kind \in {"ok", "large"} THEN 0..MaxCalls ELSE {0}) :
            Emitted([New("assistant", kind) EXCEPT !.calls = n])
      BY <3>1
    <3> DEFINE m == [New("assistant", kind) EXCEPT !.calls = n]
    <3>3. kind \in Kinds /\ n \in Nat
      BY AgentSessionBounds DEF Kinds
    <3>4. m \in Entries /\ m # None /\ m.role = "assistant" /\ m.id = drawn + 1
      BY <1>2, <3>3, AnswerIs
    <3>5. Emitted(m)
      BY <3>2
    <3> HIDE DEF m
    <3> QED BY <3>4, <3>5 DEF NotSummary
  <2>2. CASE ToolResult
    <3> DEFINE m == New("toolResult", "none")
    <3>1. Emitted(m)
      BY <2>2 DEF ToolResult
    <3>2. m \in Entries /\ m # None /\ m.role = "toolResult" /\ m.id = drawn + 1
      BY <1>2, NewIs, NewNumber DEF Kinds, Roles
    <3> HIDE DEF m
    <3> QED BY <3>1, <3>2 DEF NotSummary
  <2> QED BY <2>1, <2>2
<1>4. drawn' \in Nat /\ drawn <= drawn' /\ m.id <= drawn'
  BY <1>1, <1>2, <1>3
<1> QED
  BY <1>1, <1>2, <1>3, <1>4, EmittedAgrees

LEMMA StillAgrees ==
  ASSUME IInv, Pairs, Agrees, UNCHANGED <<branch, held, messages, dropped>>,
         Astray => Astray',
         drawn' \in {drawn, drawn + 1},
         \A x \in Pool' : x \in Pool \/ (x.id = drawn + 1 /\ drawn' = drawn + 1)
  PROVE  Agrees'
<1>1. SUFFICES ASSUME ~Astray' PROVE Agrees'
  BY DEF Agrees
<1>2. ~Astray /\ Told' = Told
  BY <1>1 DEF Told
<1> QED
  BY <1>2, Rests, SameAgrees

\* After a failure of the handler nothing is claimed.
LEMMA FailsAgrees ==
  ASSUME IInv, HandlerFails \/ Report \/ ReportFails
  PROVE  Agrees'
<1>1. handlerFailed'
  <2>1. CASE HandlerFails
    BY <2>1 DEF HandlerFails
  <2>2. CASE ReportFails
    BY <2>2 DEF ReportFails
  <2>3. CASE Report
    <3>1. phase = "failing" /\ handlerFailed' = handlerFailed
      BY <2>3 DEF Report, marks
    <3> QED BY <3>1 DEF IInv, Alone
  <2> QED BY <2>1, <2>2, <2>3
<1> QED
  BY <1>1 DEF Agrees, Astray

LEMMA BatchEndsAgrees ==
  ASSUME IInv, Pairs, Agrees, BatchEnds
  PROVE  Agrees'
<1> USE DEF agent, calls, run, shown, retry, compact, marks, history
<1>1. UNCHANGED <<messages, branch, held, pendingBash, local, drawn, dropped, crossed,
                  handlerFailed, steering, followUps, outbox>>
  BY DEF BatchEnds
<1>2. Pool' = Pool
  BY <1>1 DEF Pool
<1> QED
  BY <1>1, <1>2, StillAgrees DEF Astray

LEMMA HandleAgrees ==
  ASSUME IInv, Pairs, Agrees, Handle
  PROVE  Agrees'
<1> USE DEF agent, calls, run, shown, retry, compact, marks, history
<1>1. /\ held # None /\ held' = None /\ branch' = Append(branch, held)
      /\ UNCHANGED <<messages, steering, followUps, outbox, pendingBash, local,
                     dropped, crossed, drawn, handlerFailed>>
  BY DEF Handle
<1>2. Told' = Told
  BY <1>1 DEF Told
<1>3. Pool' = Pool
  BY <1>1 DEF Pool
<1> QED
  BY <1>1, <1>2, <1>3 DEF Agrees, Astray

LEMMA PollAgrees ==
  ASSUME IInv, Pairs, Agrees, Poll
  PROVE  Agrees'
<1> USE DEF agent, calls, run, shown, retry, compact, marks, history
<1>1. UNCHANGED <<messages, branch, held, pendingBash, local, drawn, dropped, crossed,
                  handlerFailed>>
  BY DEF Poll
<1>2. steering \in Seq(Users) /\ followUps \in Seq(Users)
  BY DEF IInv, Types
<1>3. \/ /\ steering # <<>> /\ outbox' = <<Head(steering)>>
         /\ steering' = Tail(steering) /\ followUps' = followUps
      \/ /\ followUps # <<>> /\ outbox' = <<Head(followUps)>>
         /\ followUps' = Tail(followUps) /\ steering' = steering
      \/ UNCHANGED <<outbox, steering, followUps>>
  BY DEF Poll, Deliver
<1>4. /\ steering # <<>> => /\ Head(steering) \in Elements(steering)
                            /\ Elements(Tail(steering)) \subseteq Elements(steering)
      /\ followUps # <<>> => /\ Head(followUps) \in Elements(followUps)
                             /\ Elements(Tail(followUps)) \subseteq Elements(followUps)
      /\ \A m : Elements(<<m>>) = {m}
  BY <1>2, ElementsAre
<1>5. Elements(steering') \union Elements(followUps') \union Elements(outbox')
        \subseteq Elements(steering) \union Elements(followUps) \union Elements(outbox)
  <2>1. CASE /\ steering # <<>> /\ outbox' = <<Head(steering)>>
             /\ steering' = Tail(steering) /\ followUps' = followUps
    BY <1>4, <2>1
  <2>2. CASE /\ followUps # <<>> /\ outbox' = <<Head(followUps)>>
             /\ followUps' = Tail(followUps) /\ steering' = steering
    BY <1>4, <2>2
  <2>3. CASE UNCHANGED <<outbox, steering, followUps>>
    BY <2>3
  <2> QED BY <1>3, <2>1, <2>2, <2>3
<1>6. Pool' \subseteq Pool
  BY <1>1, <1>5 DEF Pool
<1> QED
  BY <1>1, <1>6, StillAgrees DEF Astray

LEMMA LeavesAgrees ==
  ASSUME IInv, Pairs, Agrees, NEW p \in Callers, held = None,
         UNCHANGED <<held, crossed, handlerFailed>>,
         UNCHANGED <<steering, followUps, outbox, drawn>>,
         NEW msgs \in {messages, WithoutAnswer(messages)}, Leaves(p, msgs),
         dropped' = dropped \union Removed(msgs)
  PROVE  Agrees'
<1>1. SUFFICES ASSUME ~Astray PROVE Agrees'
  BY DEF Agrees, Astray
<1>2. PICK t \in {<<>>, pendingBash} : messages' = msgs \o t /\ branch' = branch \o t
  BY DEF Leaves
<1>3. /\ Types /\ drawn \in Nat /\ branch \in Seq(Entries) /\ Cut(branch)
      /\ AllBash(pendingBash) /\ Numbered(branch, drawn)
      /\ dropped \subseteq AnswerIds(branch)
      /\ messages = Without(ContextOf(branch), dropped)
      /\ \A x \in Pool : x.id <= drawn /\ x.id \notin AnswerIds(branch)
  BY <1>1, Rests
<1>4. Told' = branch \o t
  BY <1>2 DEF Told
<1>5. /\ AllBash(t) /\ Elements(t) \subseteq Pool
      /\ Elements(pendingBash') \subseteq Elements(pendingBash)
  <2>1. AllBash(<<>>) /\ Elements(<<>>) = {}
    BY DEF AllBash, Elements
  <2> QED BY <1>3, <2>1 DEF Leaves, Pool
<1>6. Pool' \subseteq Pool
  BY <1>5 DEF Leaves, Pool
<1>7. /\ \A i \in 1..Len(t) : t[i].id <= drawn /\ t[i].id \notin AnswerIds(branch)
      /\ \A x \in Pool' : x.id <= drawn /\ x.id \notin AnswerIds(branch)
  BY <1>3, <1>5, <1>6 DEF Elements
<1>8. /\ msgs = Without(ContextOf(branch), dropped')
      /\ dropped' \subseteq AnswerIds(branch)
  <2> DEFINE s == ContextOf(branch)
  <2>1. s \in Seq(Entries) /\ Numbered(s, drawn) /\ AnswerIds(s) \subseteq AnswerIds(branch)
    BY <1>3, ContextType, ContextNumbered
  <2> HIDE DEF s
  <2>2. messages = Without(s, dropped)
    BY <1>3 DEF s
  <2>3. /\ msgs = Without(s, dropped \union Gone(msgs, messages))
        /\ Gone(msgs, messages) \subseteq AnswerIds(s)
    <3> DEFINE cur == messages
               ids == dropped
               gone == Gone(msgs, cur)
    <3>1. cur = Without(s, ids) /\ Shorter(msgs, cur)
      BY <2>2 DEF Shorter
    <3>2. drawn \in Nat /\ s \in Seq(Entries) /\ Numbered(s, drawn)
      BY <1>3, <2>1
    <3> HIDE DEF cur, ids
    <3>3. gone = Gone(msgs, cur)
      OBVIOUS
    <3> HIDE DEF gone
    <3>4. msgs = Without(s, ids \union gone) /\ gone \subseteq AnswerIds(s)
      BY <3>1, <3>2, <3>3, Shortened
    <3> QED BY <3>4 DEF cur, ids, gone
  <2>4. msgs = Without(s, dropped \union Removed(msgs))
        /\ Removed(msgs) \subseteq AnswerIds(s)
    BY <2>3 DEF Removed, Gone
  <2> QED BY <1>3, <2>1, <2>4 DEF s
<1>9. drawn' = drawn
  OBVIOUS
<1> QED
  BY <1>2, <1>3, <1>4, <1>5, <1>7, <1>8, <1>9, RebuildAgrees

\* Nothing is taken from the messages.
LEMMA NothingRemoved ==
  ASSUME messages \in Seq(Entries)
  PROVE  Removed(messages) = {}
<1>1. (Len(messages) + 1)..Len(messages) = {}
  OBVIOUS
<1> QED
  BY <1>1 DEF Removed

LEMMA EndRunAgrees ==
  ASSUME IInv, Pairs, Agrees, EndRun
  PROVE  Agrees'
<1> USE DEF agent, calls, run, shown, retry, compact, marks, history
<1>1. /\ held = None /\ phase \in {"ending", "reported"}
      /\ UNCHANGED <<held, crossed, handlerFailed, steering, followUps, outbox, drawn>>
  BY DEF EndRun
<1>2. owner \in Callers
  BY <1>1 DEF IInv, Alone
<1>3. PICK msgs \in {messages, WithoutAnswer(messages)} :
        Leaves(owner, msgs) /\ dropped' = dropped \union Removed(msgs)
  BY EndRunLeaves
<1> QED
  BY <1>1, <1>2, <1>3, LeavesAgrees

LEMMA CheckAgrees ==
  ASSUME IInv, Pairs, Agrees, NEW p \in Callers,
         PreCheck(p) \/ RetryCancelled(p) \/ AutoCompactFails(p)
  PROVE  Agrees'
<1> USE DEF agent, calls, run, shown, retry, compact, marks, history
<1>1. /\ pc[p] \in {"check", "cancelled", "compact"}
      /\ UNCHANGED <<held, crossed, handlerFailed, steering, followUps, outbox, drawn>>
  BY DEF PreCheck, RetryCancelled, AutoCompactFails
<1>2. held = None /\ Types /\ messages \in Seq(Entries)
  BY <1>1, OnlyOne DEF IInv, Pairs
<1>3. \E msgs \in {messages, WithoutAnswer(messages)} :
        Leaves(p, msgs) /\ dropped' = dropped \union Removed(msgs)
  <2>1. CASE \E m : CheckCompaction(p, m)
    BY <1>2, <2>1, CheckCompactionLeaves
  <2>2. CASE NotContinued(p, messages) /\ dropped' = dropped
    <3>1. Leaves(p, messages)
      BY <1>2, <2>2, NotContinuedLeaves
    <3>2. Removed(messages) = {}
      BY <1>2, NothingRemoved
    <3> QED BY <2>2, <3>1, <3>2
  <2>3. \/ \E m : CheckCompaction(p, m)
        \/ NotContinued(p, messages) /\ dropped' = dropped
    BY DEF PreCheck, RetryCancelled, AutoCompactFails
  <2> QED BY <2>1, <2>2, <2>3
<1>4. PICK msgs \in {messages, WithoutAnswer(messages)} :
        Leaves(p, msgs) /\ dropped' = dropped \union Removed(msgs)
  BY <1>3
<1> QED
  BY <1>1, <1>2, <1>4, LeavesAgrees

\* A run begins with what was to be sent.
LEMMA BeginsAgrees ==
  ASSUME IInv, Pairs, Agrees, NEW m,
         outbox' \in {<<m>>, <<>>}, m \in Pool,
         Elements(steering') \subseteq Elements(steering),
         Elements(followUps') \subseteq Elements(followUps),
         \A q \in Callers : local'[q].prompt \in {local[q].prompt, None},
         UNCHANGED <<messages, branch, held, pendingBash, drawn, dropped, crossed,
                     handlerFailed>>
  PROVE  Agrees'
<1>1. Elements(outbox') \subseteq Pool
  <2>1. Elements(<<m>>) = {m} /\ Elements(<<>>) = {}
    BY DEF Elements
  <2> QED BY <2>1
<1>2. Pool' \subseteq Pool
  BY <1>1 DEF Pool
<1> QED
  BY <1>2, StillAgrees DEF Astray

LEMMA SendAgrees ==
  ASSUME IInv, Pairs, Agrees, NEW p \in Callers, Send(p) \/ Continue(p)
  PROVE  Agrees'
<1> USE DEF agent, calls, run, shown, retry, compact, marks, history
<1>1. /\ pc[p] \in {"ready", "continue"}
      /\ UNCHANGED <<held, crossed, drawn, dropped, handlerFailed>>
  BY DEF Send, Continue
<1>2. /\ phase = "none" /\ held = None /\ Types /\ ~Active
      /\ messages \in Seq(Entries)
      /\ steering \in Seq(Users) /\ followUps \in Seq(Users)
  BY <1>1, OnlyOne DEF IInv, Types, Active, Pairs
<1>3. CASE Throws(p, branch) /\ UNCHANGED <<steering, followUps, outbox>>
  <2>1. Leaves(p, messages)
    BY <1>2, <1>3, ThrowsLeaves
  <2>2. dropped' = dropped \union Removed(messages)
    BY <1>1, <1>2, NothingRemoved
  <2> QED BY <1>1, <1>2, <1>3, <2>1, <2>2, LeavesAgrees
<1>4. CASE Send(p)
  <2>1. /\ outbox' = <<local[p].prompt>> /\ local' = [local EXCEPT ![p] = NoLocals]
        /\ UNCHANGED <<messages, branch, pendingBash, steering, followUps>>
    BY <1>2, <1>4 DEF Send, StartRun
  <2>2. PICK m \in Pool : m = local[p].prompt
    BY DEF Pool
  <2>3. outbox' \in {<<m>>, <<>>}
    BY <2>1, <2>2
  <2>4. /\ Elements(steering') \subseteq Elements(steering)
        /\ Elements(followUps') \subseteq Elements(followUps)
    BY <2>1
  <2>5. \A q \in Callers : local'[q].prompt \in {local[q].prompt, None}
    <3>1. NoLocals.prompt = None
      BY DEF NoLocals
    <3> QED BY <1>2, <2>1, <3>1 DEF Types, Locals
  <2> QED BY <1>1, <2>1, <2>2, <2>3, <2>4, <2>5, BeginsAgrees
<1>5. CASE Continue(p)
  <2> DEFINE answered == LastOf(messages).role = "assistant"
  <2>1. CASE messages = <<>>
    <3>1. ~answered
      BY <2>1, NoneIs DEF LastOf
    <3> QED BY <1>2, <1>3, <1>5, <2>1, <3>1 DEF Continue
  <2>2. CASE messages # <<>> /\ answered /\ ~HasQueued
    BY <1>2, <1>3, <1>5, <2>2 DEF Continue, HasQueued
  <2>3. CASE messages # <<>> /\ answered /\ steering # <<>>
    <3>1. /\ outbox' = <<Head(steering)>> /\ steering' = Tail(steering)
          /\ UNCHANGED <<messages, branch, pendingBash, local, followUps>>
      BY <1>2, <1>5, <2>3 DEF Continue, StartRun, HasQueued
    <3>2. /\ Head(steering) \in Elements(steering)
          /\ Elements(Tail(steering)) \subseteq Elements(steering)
      BY <1>2, <2>3, ElementsAre
    <3>3. Head(steering) \in Pool
      BY <3>2 DEF Pool
    <3> QED BY <1>1, <3>1, <3>2, <3>3, BeginsAgrees
  <2>4. CASE messages # <<>> /\ answered /\ steering = <<>> /\ followUps # <<>>
    <3>1. /\ outbox' = <<Head(followUps)>> /\ followUps' = Tail(followUps)
          /\ UNCHANGED <<messages, branch, pendingBash, local, steering>>
      BY <1>2, <1>5, <2>4 DEF Continue, StartRun, HasQueued
    <3>2. /\ Head(followUps) \in Elements(followUps)
          /\ Elements(Tail(followUps)) \subseteq Elements(followUps)
      BY <1>2, <2>4, ElementsAre
    <3>3. Head(followUps) \in Pool
      BY <3>2 DEF Pool
    <3> QED BY <1>1, <3>1, <3>2, <3>3, BeginsAgrees
  <2>5. CASE messages # <<>> /\ ~answered
    <3>1. /\ outbox' = <<>>
          /\ UNCHANGED <<messages, branch, pendingBash, local, steering, followUps>>
      BY <1>2, <1>5, <2>5 DEF Continue, StartRun, HasQueued
    <3>2. None \in Pool
      BY DEF Pool
    <3> QED BY <1>1, <3>1, <3>2, BeginsAgrees
  <2> QED BY <2>1, <2>2, <2>3, <2>4, <2>5 DEF HasQueued
<1> QED
  BY <1>4, <1>5

LEMMA WakeAgrees ==
  ASSUME IInv, Pairs, Agrees, NEW p \in Callers, Wake(p)
  PROVE  Agrees'
<1> USE DEF agent, calls, run, shown, retry, compact, marks, history
<1>1. /\ UNCHANGED <<messages, branch, held, dropped, crossed, drawn, handlerFailed>>
      /\ UNCHANGED <<steering, followUps, outbox, pendingBash, local>>
  BY DEF Wake
<1>2. Pool' = Pool
  BY <1>1 DEF Pool
<1> QED
  BY <1>1, <1>2, StillAgrees DEF Astray

LEMMA PromptAgrees ==
  ASSUME IInv, Pairs, Agrees, NEW p \in Callers, Prompt(p)
  PROVE  Agrees'
<1> USE DEF agent, calls, run, shown, retry, compact, marks, history
<1>1. /\ phase = "none" /\ drawn' = drawn + 1
      /\ messages' = messages \o pendingBash /\ branch' = branch \o pendingBash
      /\ pendingBash' = <<>>
      /\ UNCHANGED <<steering, followUps, outbox, held, dropped, crossed,
                     handlerFailed>>
  BY DEF Prompt, AtRest, Active
<1>2. \E text \in Texts : \E m :
        local' = [local EXCEPT ![p] =
                    [NoLocals EXCEPT !.prompt = New("user", text),
                                     !.msg = m, !.pre = "check"]]
  BY Zenon DEF Prompt
<1>3. SUFFICES ASSUME ~Astray PROVE Agrees'
  BY <1>1 DEF Agrees, Astray
<1>4. held = None
  BY <1>1 DEF IInv, Alone
<1>5. /\ drawn \in Nat /\ branch \in Seq(Entries) /\ Cut(branch)
      /\ AllBash(pendingBash) /\ Numbered(branch, drawn)
      /\ dropped \subseteq AnswerIds(branch)
      /\ messages = Without(ContextOf(branch), dropped)
      /\ \A x \in AnswerIds(branch) : x \in Nat /\ x <= drawn
      /\ \A x \in Pool : x.id <= drawn /\ x.id \notin AnswerIds(branch)
      /\ \A x \in Pool : x.id \in Nat
  BY <1>3, <1>4, Rests, PoolType
<1>6. \A q \in Callers :
        local'[q].prompt \in {local[q].prompt} \/ local'[q].prompt.id = drawn + 1
  <2>1. PICK text, m :
          local' = [local EXCEPT ![p] =
                      [NoLocals EXCEPT !.prompt = New("user", text),
                                       !.msg = m, !.pre = "check"]]
    BY <1>2
  <2> DEFINE n == New("user", text)
             l == [NoLocals EXCEPT !.prompt = n, !.msg = m, !.pre = "check"]
  <2>2. n.id = drawn + 1
    BY NewNumber
  <2> HIDE DEF n
  <2>3. l.prompt = n
    BY DEF NoLocals
  <2>4. local' = [local EXCEPT ![p] = l]
    BY <2>1 DEF n
  <2> HIDE DEF l
  <2> QED BY <2>2, <2>3, <2>4 DEF IInv, Types, Locals
<1>7. \A x \in Pool' : x \in Pool \/ x.id = drawn + 1
  <2>1. Elements(pendingBash') = {}
    BY <1>1 DEF Elements
  <2> QED BY <1>1, <1>6, <2>1 DEF Pool
<1>8. \A x \in Pool' : x.id <= drawn' /\ x.id \notin AnswerIds(branch)
  BY <1>1, <1>5, <1>7
<1>9. \A i \in 1..Len(pendingBash) :
        pendingBash[i].id <= drawn' /\ pendingBash[i].id \notin AnswerIds(branch)
  BY <1>1, <1>5 DEF Pool, Elements
<1>10. Numbered(branch, drawn')
  <2>1. PICK b \in Seq(Entries) : b = branch
    BY <1>5
  <2>2. PICK k \in Nat : k = drawn + 1
    BY <1>5
  <2>3. Numbered(b, k)
    BY <1>5, <2>1, <2>2, NumberedMore
  <2> QED BY <1>1, <2>1, <2>2, <2>3
<1>11. Told' = branch \o pendingBash /\ drawn' \in Nat
  BY <1>1, <1>4, <1>5 DEF Told
<1>12. messages = Without(ContextOf(branch), dropped') /\ dropped' \subseteq AnswerIds(branch)
  BY <1>1, <1>5
<1>13. PICK b, t, msgs : b = branch /\ t = pendingBash /\ msgs = messages
  OBVIOUS
<1> QED
  BY <1>1, <1>5, <1>8, <1>9, <1>10, <1>11, <1>12, <1>13, RebuildAgrees

LEMMA QueueAgrees ==
  ASSUME IInv, Pairs, Agrees, Queue \/ ClearQueue
  PROVE  Agrees'
<1> USE DEF agent, calls, run, shown, retry, compact, marks, history
<1>1. UNCHANGED <<messages, branch, held, dropped, crossed, outbox, pendingBash, local,
                  handlerFailed>>
  BY DEF Queue, ClearQueue
<1>2. CASE ClearQueue
  <2>1. steering' = <<>> /\ followUps' = <<>> /\ drawn' = drawn
    BY <1>2 DEF ClearQueue
  <2>2. Elements(steering') = {} /\ Elements(followUps') = {}
    BY <2>1 DEF Elements
  <2>3. Pool' \subseteq Pool
    BY <1>1, <2>2 DEF Pool
  <2> QED BY <1>1, <2>1, <2>3, StillAgrees DEF Astray
<1>3. CASE Queue
  <2>1. PICK text \in Texts :
          \/ steering' = Append(steering, New("user", text)) /\ UNCHANGED followUps
          \/ followUps' = Append(followUps, New("user", text)) /\ UNCHANGED steering
    BY <1>3 DEF Queue
  <2> DEFINE m == New("user", text)
  <2>2. m.id = drawn + 1 /\ m \in Users
    <3>1. text \in Kinds /\ "user" \in Roles /\ drawn \in Nat
      BY DEF Kinds, Roles, IInv, Types
    <3> QED BY <3>1, NewIs, NewNumber DEF Users
  <2>3. \/ steering' = Append(steering, m) /\ UNCHANGED followUps
        \/ followUps' = Append(followUps, m) /\ UNCHANGED steering
    BY <2>1
  <2> HIDE DEF m
  <2>4. /\ Elements(Append(steering, m)) = Elements(steering) \union {m}
        /\ Elements(Append(followUps, m)) = Elements(followUps) \union {m}
    <3>1. steering \in Seq(Users) /\ followUps \in Seq(Users)
      BY DEF IInv, Types
    <3> QED BY <2>2, <3>1, ElementsAre
  <2>5. Elements(steering') \union Elements(followUps')
          \subseteq Elements(steering) \union Elements(followUps) \union {m}
    BY <2>3, <2>4
  <2>6. Pool' \subseteq Pool \union {m}
    BY <1>1, <2>5 DEF Pool
  <2>7. drawn' = drawn + 1
    BY <1>3 DEF Queue
  <2> QED BY <1>1, <2>2, <2>6, <2>7, StillAgrees DEF Astray
<1> QED
  BY <1>2, <1>3

LEMMA BashAgrees ==
  ASSUME IInv, Pairs, Agrees, Bash
  PROVE  Agrees'
<1> USE DEF agent, calls, run, shown, retry, compact, marks, history
<1> DEFINE m == New("bash", "none")
<1>1. /\ UNCHANGED <<held, local, crossed, dropped, steering, followUps, outbox,
                     handlerFailed>>
      /\ drawn' = drawn + 1
      /\ \/ /\ Active /\ pendingBash' = Append(pendingBash, m)
            /\ UNCHANGED <<messages, branch>>
         \/ /\ ~Active /\ messages' = Append(messages, m)
            /\ branch' = Append(branch, m) /\ UNCHANGED pendingBash
  BY DEF Bash
<1>2. m \in Entries /\ m.role = "bash" /\ m.id = drawn + 1 /\ drawn \in Nat
  BY NewIs, NewNumber DEF IInv, Types, Roles, Kinds
<1> HIDE DEF m
<1>3. CASE /\ pendingBash' = Append(pendingBash, m)
           /\ UNCHANGED <<messages, branch>>
  <2>1. pendingBash \in Seq(Entries)
    BY DEF IInv, Types, Buffers
  <2>2. Elements(pendingBash') = Elements(pendingBash) \union {m}
    BY <1>2, <1>3, <2>1, ElementsAre
  <2>3. Pool' \subseteq Pool \union {m}
    BY <1>1, <2>2 DEF Pool
  <2> QED BY <1>1, <1>2, <1>3, <2>3, StillAgrees DEF Astray
<1>4. CASE /\ ~Active /\ messages' = Append(messages, m)
           /\ branch' = Append(branch, m) /\ UNCHANGED pendingBash
  <2>1. SUFFICES ASSUME ~Astray PROVE Agrees'
    BY <1>1 DEF Agrees, Astray
  <2>2. held = None
    BY <1>4 DEF Active, IInv, Alone
  <2>3. Told = branch /\ Told' = Append(Told, m) /\ Cut(Told)
    BY <1>1, <1>4, <2>1, <2>2, Rests DEF Told
  <2>4. Pool' \subseteq Pool
    BY <1>1, <1>4 DEF Pool
  <2>5. m.id \notin AnswerIds(Told) /\ m.role # "assistant" /\ NotSummary(m)
    <3>1. \A x \in AnswerIds(Told) : x \in Nat /\ x <= drawn
      BY <2>1, Rests
    <3> QED BY <1>2, <3>1 DEF NotSummary
  <2>6. drawn' \in Nat /\ drawn <= drawn' /\ m.id <= drawn'
    BY <1>1, <1>2
  <2>7. Types /\ Told \in Seq(Entries) /\ messages \in Seq(Entries)
    BY <2>1, Rests
  <2> QED
    BY <1>1, <1>2, <1>4, <2>1, <2>3, <2>4, <2>5, <2>6, <2>7, AppendAgrees
<1> QED
  BY <1>1, <1>3, <1>4

LEMMA AbortAgrees ==
  ASSUME IInv, Pairs, Agrees, Abort \/ CompactBegins \/ CompactPrepares
  PROVE  Agrees'
<1> USE DEF agent, calls, run, shown, retry, compact, marks, history
<1>1. /\ UNCHANGED <<messages, branch, held, dropped, drawn, handlerFailed>>
      /\ UNCHANGED <<steering, followUps, outbox, pendingBash, local>>
      /\ crossed => crossed'
  <2>1. CASE Abort
    BY <2>1 DEF Abort
  <2>2. CASE CompactBegins
    BY <2>2 DEF CompactBegins
  <2>3. CASE CompactPrepares
    <3>1. crossed' = (crossed \/ ~Quiet)
      BY <2>3 DEF CompactPrepares
    <3>2. crossed => crossed'
      BY <3>1
    <3> QED BY <2>3, <3>2 DEF CompactPrepares
  <2> QED BY <2>1, <2>2, <2>3
<1>2. Pool' = Pool
  BY <1>1 DEF Pool
<1>3. Astray => Astray'
  BY <1>1 DEF Astray
<1> QED
  BY <1>1, <1>2, <1>3, StillAgrees

LEMMA ShortenedOnce ==
  ASSUME NEW s \in Seq(Entries), NEW n \in Nat, Numbered(s, n),
         NEW msgs, Shorter(msgs, s)
  PROVE  msgs = Without(s, Gone(msgs, s)) /\ Gone(msgs, s) \subseteq AnswerIds(s)
<1>1. PICK ids : ids = {} /\ s = Without(s, ids)
  BY WithoutNothing
<1>2. PICK cur : cur = s
  OBVIOUS
<1>3. PICK gone : gone = Gone(msgs, cur)
  OBVIOUS
<1>4. cur = Without(s, ids) /\ Shorter(msgs, cur)
  BY <1>1, <1>2
<1>5. msgs = Without(s, ids \union gone) /\ gone \subseteq AnswerIds(s)
  BY <1>3, <1>4, Shortened
<1>6. ids \union gone = gone
  BY <1>1
<1> QED
  BY <1>2, <1>3, <1>5, <1>6

\* A summary is appended and the context is made anew.
LEMMA SummaryAgrees ==
  ASSUME IInv, Pairs, Agrees, ~Astray, held = None, held' = None,
         NEW e \in Entries, e.role = "summary", e.id = drawn + 1,
         MayKeep(branch, e.keep), drawn' = drawn + 1,
         NEW t \in {<<>>, pendingBash}, NEW b, b = Append(branch, e),
         NEW msgs \in {ContextOf(b), WithoutAnswer(ContextOf(b))},
         branch' = b \o t, messages' = msgs \o t,
         dropped' = Gone(msgs, ContextOf(b)),
         Pool' \subseteq Pool
  PROVE  Agrees'
<1>1. /\ drawn \in Nat /\ branch \in Seq(Entries) /\ Cut(branch)
      /\ AllBash(pendingBash) /\ Numbered(branch, drawn)
      /\ \A x \in AnswerIds(branch) : x \in Nat /\ x <= drawn
      /\ \A x \in Pool : x.id <= drawn /\ x.id \notin AnswerIds(branch)
      /\ \A x \in Pool : x.id \in Nat
  BY Rests, PoolType
<1>2. b \in Seq(Entries) /\ Cut(b)
  BY <1>1, CutAppend
<1>3. Numbered(b, drawn') /\ AnswerIds(b) = AnswerIds(branch)
  <2>1. PICK old \in Seq(Entries), n \in Nat, k \in Nat :
          old = branch /\ n = drawn /\ k = drawn + 1
    BY <1>1
  <2>2. /\ n <= k /\ Numbered(old, n) /\ e.id <= k
        /\ e.role # "assistant" /\ e.id \notin AnswerIds(old)
    BY <1>1, <2>1
  <2>3. Numbered(Append(old, e), k) /\ AnswerIds(Append(old, e)) = AnswerIds(old)
    BY <2>2, NumberedAppend
  <2> QED BY <2>1, <2>3
<1>4. AllBash(t) /\ Elements(t) \subseteq Pool
  <2>1. AllBash(<<>>) /\ Elements(<<>>) = {}
    BY DEF AllBash, Elements
  <2> QED BY <1>1, <2>1 DEF Pool
<1>5. /\ \A i \in 1..Len(t) : t[i].id <= drawn' /\ t[i].id \notin AnswerIds(b)
      /\ \A x \in Pool' : x.id <= drawn' /\ x.id \notin AnswerIds(b)
  <2>1. \A x \in Pool : x.id <= drawn' /\ x.id \notin AnswerIds(b)
    BY <1>1, <1>3
  <2>2. \A i \in 1..Len(t) : t[i] \in Pool
    BY <1>4 DEF Elements
  <2> QED BY <2>1, <2>2
<1>6. msgs = Without(ContextOf(b), dropped') /\ dropped' \subseteq AnswerIds(b)
  <2>1. PICK k \in Nat : k = drawn'
    BY <1>1
  <2> DEFINE s == ContextOf(b)
  <2>2. s \in Seq(Entries) /\ Numbered(s, k) /\ AnswerIds(s) \subseteq AnswerIds(b)
    BY <1>2, <1>3, <2>1, ContextType, ContextNumbered
  <2>3. Shorter(msgs, s) /\ dropped' = Gone(msgs, s)
    BY DEF Shorter
  <2> HIDE DEF s
  <2>4. msgs = Without(s, Gone(msgs, s)) /\ Gone(msgs, s) \subseteq AnswerIds(s)
    BY <2>1, <2>2, <2>3, ShortenedOnce
  <2> QED BY <2>2, <2>3, <2>4 DEF s
<1>7. Told' = b \o t /\ drawn' \in Nat
  BY <1>1 DEF Told
<1> QED
  BY <1>2, <1>3, <1>4, <1>5, <1>6, <1>7, RebuildAgrees

LEMMA CompactEndsAgrees ==
  ASSUME IInv, Pairs, Agrees, CompactEnds
  PROVE  Agrees'
<1> USE DEF agent, calls, run, shown, retry, compact, marks, history
<1>1. /\ cpc = "compacting" /\ UNCHANGED <<held, crossed, handlerFailed>>
      /\ UNCHANGED <<steering, followUps, outbox, pendingBash, local>>
      /\ \/ /\ branch' = Append(branch, [New("summary", "manual") EXCEPT !.keep = ckeep])
            /\ messages' = ContextOf(branch') /\ drawn' = drawn + 1 /\ dropped' = {}
         \/ UNCHANGED <<messages, branch, drawn, dropped>>
  BY DEF CompactEnds
<1>2. Pool' = Pool
  BY <1>1 DEF Pool
<1>3. CASE UNCHANGED <<messages, branch, drawn, dropped>>
  BY <1>1, <1>2, <1>3, StillAgrees DEF Astray
<1>4. CASE /\ branch' = Append(branch, [New("summary", "manual") EXCEPT !.keep = ckeep])
           /\ messages' = ContextOf(branch') /\ drawn' = drawn + 1 /\ dropped' = {}
  <2>1. SUFFICES ASSUME ~Astray PROVE Agrees'
    BY <1>1 DEF Agrees, Astray
  <2>2. "manual" \in Kinds /\ ckeep \in Nat /\ Types
    BY DEF Kinds, IInv, Types
  <2>3. PICK e \in Entries :
          /\ e = [New("summary", "manual") EXCEPT !.keep = ckeep]
          /\ e.role = "summary" /\ e.keep = ckeep /\ e.id = drawn + 1
    <3> DEFINE n == [New("summary", "manual") EXCEPT !.keep = ckeep]
    <3>1. n \in Entries /\ n.role = "summary" /\ n.keep = ckeep /\ n.id = drawn + 1
      BY <2>2, SummaryIs
    <3> HIDE DEF n
    <3>2. \E e \in Entries :
            e = n /\ e.role = "summary" /\ e.keep = ckeep /\ e.id = drawn + 1
      BY <3>1
    <3> QED BY <3>2 DEF n
  <2>4. held = None /\ held' = None
    <3>1. Quiet
      BY <1>1, <2>1 DEF IInv, Alone, Astray
    <3> QED BY <1>1, <3>1 DEF IInv, Alone, Quiet
  <2>5. branch \in Seq(Entries) /\ Cut(branch) /\ MayKeep(branch, e.keep)
    BY <1>1, <2>3 DEF IInv, Types, Buffers, Pairs, Cuts
  <2>6. PICK b : b = Append(branch, e)
    OBVIOUS
  <2>7. b \in Seq(Entries) /\ Cut(b)
    BY <2>3, <2>5, <2>6, CutAppend
  <2>8. PICK msgs \in Seq(Entries) : msgs = ContextOf(b)
    BY <2>7, ContextType
  <2>9. branch' = b \o <<>> /\ messages' = msgs \o <<>>
    <3>1. branch' = b /\ messages' = msgs
      BY <1>4, <2>3, <2>6, <2>8
    <3> QED BY <2>7, <2>8, <3>1, NothingFollows
  <2>10. dropped' = Gone(msgs, ContextOf(b))
    <3>1. (Len(msgs) + 1)..Len(msgs) = {}
      BY <2>8
    <3> QED BY <1>4, <2>8, <3>1 DEF Gone
  <2>11. msgs \in {ContextOf(b), WithoutAnswer(ContextOf(b))}
    BY <2>8
  <2>12. PICK t \in {<<>>, pendingBash} : t = <<>>
    OBVIOUS
  <2>13. Pool' \subseteq Pool /\ drawn' = drawn + 1
    BY <1>2, <1>4
  <2>14. branch' = b \o t /\ messages' = msgs \o t
    BY <2>9, <2>12
  <2> QED
    BY <2>1, <2>3, <2>4, <2>5, <2>6, <2>10, <2>11, <2>12, <2>13, <2>14,
       SummaryAgrees
<1> QED
  BY <1>1, <1>3, <1>4

LEMMA AutoCompactedAgrees ==
  ASSUME IInv, Pairs, Agrees, NEW p \in Callers, AutoCompacted(p)
  PROVE  Agrees'
<1>1. /\ held = None /\ drawn' = drawn + 1
      /\ UNCHANGED <<steering, followUps, outbox, held, crossed, handlerFailed>>
      /\ pendingBash' \in {<<>>, pendingBash}
      /\ \A q \in Callers : local'[q].prompt \in {local[q].prompt, None}
  BY AutoCompactedIs
<1>2. SUFFICES ASSUME ~Astray PROVE Agrees'
  BY <1>1 DEF Agrees, Astray
<1>3. Pool' \subseteq Pool
  <2>1. Elements(pendingBash') \subseteq Elements(pendingBash)
    <3>1. Elements(<<>>) = {}
      BY DEF Elements
    <3> QED BY <1>1, <3>1
  <2> QED BY <1>1, <2>1 DEF Pool
<1>4. PICK e \in Entries, t \in {<<>>, pendingBash} :
        /\ e.role = "summary" /\ e.id = drawn + 1 /\ MayKeep(branch, e.keep)
        /\ branch' = Append(branch, e) \o t
        /\ LET context == ContextOf(Append(branch, e))
           IN \E msgs \in {context, WithoutAnswer(context)} :
                /\ messages' = msgs \o t
                /\ dropped' =
                     {context[i].id : i \in (Len(msgs) + 1)..Len(context)}
  BY AutoCompactedIs
<1>5. PICK b : b = Append(branch, e)
  OBVIOUS
<1>6. PICK msgs \in {ContextOf(b), WithoutAnswer(ContextOf(b))} :
        /\ messages' = msgs \o t
        /\ dropped' = Gone(msgs, ContextOf(b))
  BY <1>4, <1>5 DEF Gone
<1>7. held' = None /\ branch' = b \o t
  BY <1>1, <1>4, <1>5
<1> QED
  BY <1>1, <1>2, <1>3, <1>4, <1>5, <1>6, <1>7, SummaryAgrees

LEMMA InitAgrees == Init => Agrees
<1> SUFFICES ASSUME Init PROVE Agrees
  OBVIOUS
<1>1. Told = <<>> /\ drawn = 0 /\ dropped = {} /\ messages = <<>>
  BY DEF Told, Init
<1>2. <<>> \in Seq(Entries) /\ Numbered(<<>>, 0) /\ AnswerIds(<<>>) = {}
  BY DEF Numbered, AnswerIds
<1>3. ContextOf(<<>>) = <<>>
  <2>1. LastSummary(<<>>) = 0
    BY DEF LastSummary
  <2> QED BY <2>1 DEF ContextOf
<1>4. Without(<<>>, {}) = <<>>
  BY <1>2, WithoutNothing
<1>5. \A x \in Pool : x.id <= 0
  <2>1. /\ Elements(steering) = {} /\ Elements(followUps) = {}
        /\ Elements(outbox) = {} /\ Elements(pendingBash) = {}
    BY DEF Elements, Init
  <2>2. \A p \in Callers : local[p].prompt = None
    BY DEF Init, NoLocals
  <2>3. None.id = 0
    BY DEF None, Message
  <2> QED BY <2>1, <2>2, <2>3 DEF Pool
<1> QED
  BY <1>1, <1>2, <1>3, <1>4, <1>5 DEF Agrees

LEMMA NextAgrees == IInv /\ Pairs /\ Agrees /\ [Next]_vars => Agrees'
<1> SUFFICES ASSUME IInv, Pairs, Agrees, [Next]_vars PROVE Agrees'
  OBVIOUS
<1>1. CASE Loop
  BY <1>1, EmitAgrees, HandleAgrees, PollAgrees, AnswerAgrees, BatchEndsAgrees,
     EndRunAgrees, FailsAgrees DEF Loop
<1>2. ASSUME NEW p \in Callers, Step(p) \/ Prompt(p)
      PROVE  Agrees'
  BY <1>2, CheckAgrees, SendAgrees, WakeAgrees, AutoCompactedAgrees, PromptAgrees
     DEF Step
<1>3. CASE Queue \/ ClearQueue \/ Bash \/ Abort \/ CompactBegins \/ Compact
  BY <1>3, QueueAgrees, BashAgrees, AbortAgrees, CompactEndsAgrees DEF Compact
<1>4. CASE UNCHANGED vars
  <2>1. /\ UNCHANGED <<messages, branch, held, dropped, crossed, drawn, handlerFailed>>
        /\ UNCHANGED <<steering, followUps, outbox, pendingBash, local>>
    BY <1>4 DEF vars, agent, run, marks, history
  <2>2. Pool' = Pool
    BY <2>1 DEF Pool
  <2> QED BY <2>1, <2>2, StillAgrees DEF Astray
<1> QED
  BY <1>1, <1>2, <1>3, <1>4 DEF Next, Rest

\* When nothing goes on, the agent holds what reopening the session would give
\* it, except the failed answers it was relieved of: whatever was retried,
\* compacted, aborted or held back meanwhile (_handlePostAgentRun,
\* _flushPendingBashMessages, _prepareRetry and both kinds of compaction), unless
\* its handler failed or an event passed it by.
THEOREM SessionIsHeld == Spec => []SessionAgrees
<1>1. Init => IInv /\ Pairs /\ Agrees
  BY InitIs, InitPairs, InitAgrees
<1>2. IInv /\ Pairs /\ Agrees /\ [Next]_vars => (IInv /\ Pairs /\ Agrees)'
  BY NextKeeps, NextPairs, NextAgrees
<1>3. IInv /\ Pairs /\ Agrees => SessionAgrees
  <2> SUFFICES ASSUME IInv, Pairs, Agrees, AtRest, ~Astray
               PROVE  messages = Without(ContextOf(branch), dropped)
    BY DEF SessionAgrees, Astray
  <2>1. held = None
    BY DEF AtRest, Active, IInv, Alone
  <2> QED BY <2>1, Rests
<1> QED
  BY <1>1, <1>2, <1>3, PTL DEF Spec

-----------------------------------------------------------------------------
(* How the session ends *)

IsAnswer(m) == m.role = "assistant"

\* What the agent is relieved of: an answer whose request is made again.
Relieved(m) == m.kind \in {"retryable", "overflow", "silent"}

\* The entries but for the summaries.
Real(b) == Picked(b, {i \in 1..Len(b) : NotSummary(b[i])})
Prior(s) == IF Len(s) < 2 THEN None ELSE s[Len(s) - 1]

LEMMA LastIs ==
  ASSUME NEW S, NEW s \in Seq(S), s # <<>>
  PROVE  LastOf(s) = s[Len(s)] /\ LastOf(s) \in S /\ Len(s) \in Nat \ {0}
<1>1. Len(s) \in Nat \ {0}
  OBVIOUS
<1>2. s[Len(s)] \in S
  BY <1>1
<1> QED
  BY <1>1, <1>2 DEF LastOf

LEMMA LastOfCat ==
  ASSUME NEW s \in Seq(Entries), NEW t \in Seq(Entries), t # <<>>
  PROVE  LastOf(s \o t) = LastOf(t)
<1>1. Len(t) \in Nat \ {0} /\ Len(s) \in Nat /\ Len(s \o t) = Len(s) + Len(t)
  OBVIOUS
<1>2. (s \o t)[Len(s) + Len(t)] = t[Len(t)]
  BY <1>1
<1>3. s \o t # <<>>
  BY <1>1
<1> QED
  BY <1>1, <1>2, <1>3 DEF LastOf

LEMMA LastOfAppend ==
  ASSUME NEW S, NEW s \in Seq(S), NEW m \in S
  PROVE  /\ LastOf(Append(s, m)) = m /\ Prior(Append(s, m)) = LastOf(s)
         /\ Append(s, m) # <<>>
<1> DEFINE t == Append(s, m)
<1>1. /\ Len(t) = Len(s) + 1 /\ Len(s) \in Nat /\ t[Len(s) + 1] = m /\ t # <<>>
      /\ \A i \in 1..Len(s) : t[i] = s[i]
  OBVIOUS
<1> HIDE DEF t
<1>2. LastOf(t) = m
  BY <1>1 DEF LastOf
<1>3. CASE s = <<>>
  <2>1. Len(s) = 0
    BY <1>3
  <2>2. Len(t) < 2
    BY <1>1, <2>1
  <2>3. LastOf(s) = None /\ Prior(t) = None
    BY <1>3, <2>2 DEF LastOf, Prior
  <2> QED BY <1>1, <1>2, <2>3 DEF t
<1>4. CASE s # <<>>
  <2>1. Len(s) >= 1
    BY <1>4
  <2>2. ~(Len(t) < 2) /\ Len(t) - 1 = Len(s) /\ t[Len(s)] = s[Len(s)]
    BY <1>1, <2>1
  <2>3. LastOf(s) = s[Len(s)] /\ Prior(t) = t[Len(t) - 1]
    BY <1>4, <2>2 DEF LastOf, Prior
  <2>4. Prior(t) = LastOf(s)
    BY <2>2, <2>3
  <2> QED BY <1>1, <1>2, <2>4 DEF t
<1> QED
  BY <1>3, <1>4

LEMMA LastOfShort ==
  ASSUME NEW s \in Seq(Entries)
  PROVE  LastOf(SubSeq(s, 1, Len(s) - 1)) = Prior(s)
<1> DEFINE n == Len(s)
           t == SubSeq(s, 1, n - 1)
<1>1. n \in Nat
  OBVIOUS
<1>2. CASE n < 2
  <2>1. t = <<>>
    BY <1>1, <1>2
  <2> QED BY <1>2, <2>1 DEF LastOf, Prior
<1>3. CASE ~(n < 2)
  <2>1. Len(t) = n - 1 /\ n - 1 \in Nat \ {0} /\ t[n - 1] = s[n - 1]
    BY <1>1, <1>3
  <2>2. t # <<>>
    BY <2>1
  <2> QED BY <1>3, <2>1, <2>2 DEF LastOf, Prior
<1> QED
  BY <1>2, <1>3

LEMMA ShorterByOne ==
  ASSUME NEW s \in Seq(Entries), s # <<>>
  PROVE  (Len(SubSeq(s, 1, Len(s) - 1)) + 1)..Len(s) = {Len(s)}
<1>1. ASSUME NEW n \in Nat, Len(s) = n + 1
      PROVE  Len(SubSeq(s, 1, n)) = n
  BY <1>1
<1>2. PICK n \in Nat : Len(s) = n + 1
  <2>1. Len(s) \in Nat \ {0}
    BY LastIs
  <2> QED BY <2>1
<1>3. Len(SubSeq(s, 1, Len(s) - 1)) = n
  BY <1>1, <1>2
<1> QED
  BY <1>2, <1>3

LEMMA RealIs ==
  ASSUME NEW b \in Seq(Entries)
  PROVE  Real(b) \in Seq(Entries)
<1> DEFINE all == {i \in 1..Len(b) : NotSummary(b[i])}
<1>1. Len(b) \in Nat /\ all \in SUBSET (1..Len(b)) /\ \A i \in all : b[i] \in Entries
  OBVIOUS
<1> HIDE DEF all
<1>2. Picked(b, all) \in Seq(Entries)
  BY <1>1, PickedIs
<1> QED
  BY <1>2 DEF Real, all

LEMMA RealCat ==
  ASSUME NEW s \in Seq(Entries), NEW t \in Seq(Entries),
         \A i \in 1..Len(t) : NotSummary(t[i])
  PROVE  Real(s \o t) = Real(s) \o t
<1> DEFINE all == {i \in 1..Len(s) : NotSummary(s[i])}
           c == s \o t
           new == (Len(s) + 1)..(Len(s) + Len(t))
<1>1. all \in SUBSET (1..Len(s))
  OBVIOUS
<1>2. /\ Len(c) = Len(s) + Len(t) /\ Len(s) \in Nat /\ Len(t) \in Nat
      /\ \A i \in 1..Len(s) : c[i] = s[i]
      /\ \A i \in new : i - Len(s) \in 1..Len(t) /\ c[i] = t[i - Len(s)]
  OBVIOUS
<1>3. 1..(Len(s) + Len(t)) = (1..Len(s)) \union new
  BY <1>2
<1>4. \A i \in new : NotSummary(c[i])
  BY <1>2
<1> HIDE DEF c, new
<1>5. {i \in 1..Len(c) : NotSummary(c[i])} = all \union new
  BY <1>2, <1>3, <1>4
<1>6. Picked(s \o t, all \union ((Len(s) + 1)..(Len(s) + Len(t)))) = Picked(s, all) \o t
  <2> HIDE DEF all
  <2> QED BY <1>1, PickedCat
<1> QED
  BY <1>5, <1>6 DEF Real, c, new

LEMMA RealAppend ==
  ASSUME NEW s \in Seq(Entries), NEW m \in Entries
  PROVE  /\ NotSummary(m) => Real(Append(s, m)) = Append(Real(s), m)
         /\ ~NotSummary(m) => Real(Append(s, m)) = Real(s)
<1>1. ASSUME NotSummary(m) PROVE Real(Append(s, m)) = Append(Real(s), m)
  <2>1. Append(s, m) = s \o <<m>> /\ <<m>> \in Seq(Entries)
    BY AppendIsCat
  <2>2. Real(s) \in Seq(Entries)
    BY RealIs
  <2>3. Append(Real(s), m) = Real(s) \o <<m>>
    BY <2>2, AppendIsCat
  <2>4. \A i \in 1..Len(<<m>>) : NotSummary(<<m>>[i])
    BY <1>1
  <2> DEFINE t == <<m>>
  <2> HIDE DEF t
  <2>5. Real(s \o t) = Real(s) \o t
    BY <2>1, <2>4, RealCat DEF t
  <2> QED BY <2>1, <2>3, <2>5 DEF t
<1>2. ASSUME ~NotSummary(m) PROVE Real(Append(s, m)) = Real(s)
  <2> DEFINE all == {i \in 1..Len(s) : NotSummary(s[i])}
             t == Append(s, m)
  <2>1. /\ Len(t) = Len(s) + 1 /\ Len(s) \in Nat /\ t[Len(s) + 1] = m
        /\ \A i \in 1..Len(s) : t[i] = s[i]
    OBVIOUS
  <2> HIDE DEF t
  <2>2. {i \in 1..Len(t) : NotSummary(t[i])} = all
    BY <1>2, <2>1
  <2>3. Picked(t, all) = Picked(s, all)
    <3>1. all \in SUBSET (1..Len(s)) /\ \A i \in all : t[i] = s[i]
      BY <2>1
    <3> HIDE DEF all
    <3> QED BY <2>1, <3>1, PickedSame
  <2> QED BY <2>2, <2>3 DEF Real, t
<1> QED
  BY <1>1, <1>2

\* The greatest of some positions of a sequence.
Greatest(m, at, s, n) ==
  /\ n \in Nat /\ at \in SUBSET (1..n) /\ \A i \in at : s[i] \in Entries
  /\ m \in at /\ \A j \in at : j <= m

LEMMA PickedEnds ==
  ASSUME NEW m, NEW at, NEW s, NEW n, Greatest(m, at, s, n)
  PROVE  /\ Picked(s, at) \in Seq(Entries) /\ Picked(s, at) # <<>>
         /\ LastOf(Picked(s, at)) = s[m]
         /\ Prior(Picked(s, at)) = LastOf(Picked(s, at \ {m}))
<1>0. /\ n \in Nat /\ at \in SUBSET (1..n) /\ \A i \in at : s[i] \in Entries
      /\ m \in at /\ \A j \in at : j <= m
  BY DEF Greatest
<1>1. Picked(s, at)[Len(Picked(s, at))] = s[m]
  <2>1. {j \in at : j <= m} = at
    BY <1>0
  <2>2. Rank(at, m) = Cardinality(at)
    BY <2>1 DEF Rank
  <2>3. Len(Picked(s, at)) = Cardinality(at)
    BY <1>0, PickedIs
  <2>4. Picked(s, at)[Rank(at, m)] = s[m]
    BY <1>0, PickedAt
  <2> QED BY <2>2, <2>3, <2>4
<1>2. PICK cur \in Seq(Entries) : cur = Picked(s, at) /\ Len(cur) \in Nat \ {0}
  <2>1. Rank(at, m) \in 1..Cardinality(at) /\ Cardinality(at) \in Nat
    BY <1>0, RankIs, SomeOf
  <2>2. Len(Picked(s, at)) = Cardinality(at)
    BY <1>0, PickedIs
  <2>3. Picked(s, at) \in Seq(Entries)
    BY <1>0, PickedIs
  <2> QED BY <2>1, <2>2, <2>3
<1>3. cur # <<>> /\ cur[Len(cur)] = s[m]
  BY <1>1, <1>2
<1>4. LastOf(cur) = s[m]
  BY <1>3 DEF LastOf
<1>5. LastOf(Picked(s, at \ {m})) = Prior(cur)
  <2>1. Picked(s, at \ {m})
          = SubSeq(Picked(s, at), 1, Len(Picked(s, at)) - 1)
    BY <1>0, PickedButLast
  <2> QED BY <1>2, <2>1, LastOfShort
<1> QED
  BY <1>2, <1>3, <1>4, <1>5

\* What stands at the later of some positions ends as what stands at all.
LEMMA SameEnds ==
  ASSUME NEW n \in Nat, NEW all \in SUBSET (1..n), NEW s,
         \A i \in all : s[i] \in Entries, NEW k \in all,
         NEW at, at = {i \in all : i >= k}
  PROVE  /\ Picked(s, at) \in Seq(Entries) /\ Picked(s, at) # <<>>
         /\ LastOf(Picked(s, at)) = LastOf(Picked(s, all))
         /\ \/ Len(Picked(s, at)) = 1
            \/ Len(Picked(s, at)) >= 2 /\ Prior(Picked(s, at)) = Prior(Picked(s, all))
<1>1. at \in SUBSET (1..n) /\ k \in at /\ \A i \in at : s[i] \in Entries
  <2>1. k \in Nat
    OBVIOUS
  <2>2. k >= k
    BY <2>1
  <2> QED BY <2>2
<1>2. PICK m : Greatest(m, at, s, n)
  BY <1>1, GreatestExists DEF Greatest
<1>3. Greatest(m, all, s, n)
  <2>1. m >= k /\ m \in Nat /\ k \in Nat /\ \A j \in all : j \in Nat
    BY <1>1, <1>2 DEF Greatest
  <2> QED BY <1>2, <2>1 DEF Greatest
<1>4. /\ Picked(s, at) \in Seq(Entries) /\ Picked(s, at) # <<>>
      /\ LastOf(Picked(s, at)) = s[m]
      /\ Prior(Picked(s, at)) = LastOf(Picked(s, at \ {m}))
  BY <1>1, <1>2, PickedEnds
<1>5. /\ LastOf(Picked(s, all)) = s[m]
      /\ Prior(Picked(s, all)) = LastOf(Picked(s, all \ {m}))
  BY <1>3, PickedEnds
<1>6. Len(Picked(s, at)) = Cardinality(at)
  BY <1>1, PickedIs
<1>7. CASE at \ {m} = {}
  <2>1. at = {m} /\ Cardinality({m}) = 1
    BY <1>2, <1>7, FS_Singleton DEF Greatest
  <2> QED BY <1>4, <1>5, <1>6, <2>1
<1>8. CASE at \ {m} # {}
  <2>1. PICK au, bu : au = at \ {m} /\ bu = all \ {m}
    OBVIOUS
  <2>2. /\ au \in SUBSET (1..n) /\ bu \in SUBSET (1..n) /\ au # {}
        /\ \A i \in au : s[i] \in Entries
        /\ \A i \in bu : s[i] \in Entries
        /\ au \subseteq bu /\ \A i \in bu : i >= k => i \in au
    BY <1>1, <1>8, <2>1
  <2>3. PICK l : Greatest(l, au, s, n)
    BY <2>2, GreatestExists DEF Greatest
  <2>4. Greatest(l, bu, s, n)
    <3>1. l >= k /\ l \in Nat /\ k \in Nat /\ \A j \in bu : j \in Nat
      BY <2>1, <2>2, <2>3 DEF Greatest
    <3> QED BY <2>2, <2>3, <3>1 DEF Greatest
  <2>5. LastOf(Picked(s, au)) = s[l]
    BY <2>2, <2>3, PickedEnds
  <2>6. LastOf(Picked(s, bu)) = s[l]
    BY <2>2, <2>4, PickedEnds
  <2>7. Len(Picked(s, at)) >= 2
    <3>1. m \in at /\ l \in at /\ l # m
      BY <1>2, <2>1, <2>3 DEF Greatest
    <3>2. IsFiniteSet(at)
      BY <1>1, SomeOf
    <3>3. {m, l} \subseteq at /\ Cardinality({m, l}) = 2
      <4>1. PICK one : one = {l}
        OBVIOUS
      <4>2. Cardinality(one) = 1 /\ IsFiniteSet(one) /\ m \notin one
        BY <3>1, <4>1, FS_Singleton
      <4>3. Cardinality(one \union {m}) = 1 + 1
        BY <4>2, FS_AddElement
      <4>4. one \union {m} = {m, l}
        BY <4>1
      <4> QED BY <3>1, <4>3, <4>4
    <3>4. Cardinality({m, l}) <= Cardinality(at)
      BY <3>2, <3>3, FS_Subset
    <3> QED BY <1>6, <3>3, <3>4
  <2> QED BY <1>4, <1>5, <2>1, <2>5, <2>6, <2>7
<1> QED
  BY <1>7, <1>8

LEMMA LedBy ==
  ASSUME NEW m \in Entries, NEW s \in Seq(Entries), s # <<>>
  PROVE  /\ <<m>> \o s \in Seq(Entries) /\ LastOf(<<m>> \o s) = LastOf(s)
         /\ Len(s) = 1 => Prior(<<m>> \o s) = m
         /\ Len(s) >= 2 => Prior(<<m>> \o s) = Prior(s)
<1>1. PICK t : t = <<m>> \o s
  OBVIOUS
<1>2. /\ t \in Seq(Entries) /\ Len(t) = Len(s) + 1 /\ Len(s) \in Nat \ {0}
      /\ t[1] = m /\ \A i \in 1..Len(s) : t[i + 1] = s[i]
  BY <1>1
<1>3. t # <<>> /\ LastOf(t) = LastOf(s)
  BY <1>2 DEF LastOf
<1>4. ASSUME Len(s) = 1 PROVE Prior(t) = m
  BY <1>2, <1>4 DEF Prior
<1>5. ASSUME Len(s) >= 2 PROVE Prior(t) = Prior(s)
  <2>1. Len(s) - 1 \in 1..Len(s) /\ (Len(s) - 1) + 1 = Len(t) - 1
    BY <1>2, <1>5
  <2>2. t[Len(t) - 1] = s[Len(s) - 1]
    BY <1>2, <2>1
  <2> QED BY <1>2, <1>5, <2>2 DEF Prior
<1> QED
  BY <1>1, <1>2, <1>3, <1>4, <1>5

\* The last entry of the context is that of the branch, and the one before it
\* too if it is an answer.
LEMMA ContextEnds ==
  ASSUME NEW b \in Seq(Entries), Cut(b)
  PROVE  /\ LastOf(ContextOf(b)) = LastOf(Real(b))
         /\ IsAnswer(Prior(ContextOf(b))) => Prior(ContextOf(b)) = Prior(Real(b))
<1> DEFINE c == LastSummary(b)
           n == Len(b)
           all == {i \in 1..n : NotSummary(b[i])}
<1>0. n \in Nat /\ all \in SUBSET (1..n) /\ \A i \in all : b[i] \in Entries
  OBVIOUS
<1>1. CASE c = 0
  <2>1. \A i \in 1..n : NotSummary(b[i])
    BY <1>0, <1>1, LastSummaryLast DEF NotSummary
  <2>2. all = 1..n
    BY <2>1
  <2>3. Real(b) = b
    BY <2>2, PickedAll DEF Real
  <2> QED BY <1>1, <2>3 DEF ContextOf
<1>2. CASE c # 0
  <2> DEFINE k == b[c].keep
             at == {i \in k..n : NotSummary(b[i])}
  <2>1. /\ c \in 1..n /\ b[c].role = "summary"
        /\ k \in 1..(c - 1) /\ MayLead(b[k])
        /\ ContextOf(b) = <<b[c]>> \o Picked(b, at)
    BY <1>2, ContextForm
  <2>2. k \in all /\ at = {i \in all : i >= k}
    BY <1>0, <2>1 DEF MayLead, NotSummary
  <2>3. b[c] \in Entries /\ ~IsAnswer(b[c])
    BY <2>1 DEF IsAnswer
  <2>4. Picked(b, all) = Real(b)
    BY DEF Real
  <2> HIDE DEF c, k, at, all, n
  <2>5. /\ Picked(b, at) \in Seq(Entries) /\ Picked(b, at) # <<>>
        /\ LastOf(Picked(b, at)) = LastOf(Picked(b, all))
        /\ \/ Len(Picked(b, at)) = 1
           \/ Len(Picked(b, at)) >= 2 /\ Prior(Picked(b, at)) = Prior(Picked(b, all))
    BY <1>0, <2>2, SameEnds
  <2> QED BY <2>1, <2>3, <2>4, <2>5, LedBy
<1> QED
  BY <1>1, <1>2

LEMMA LastWithout ==
  ASSUME NEW s \in Seq(Entries), NEW ids, LastOf(s).id \notin ids
  PROVE  LastOf(Without(s, ids)) = LastOf(s)
<1> DEFINE at == {i \in DOMAIN s : s[i].id \notin ids}
           n == Len(s)
<1>1. CASE s = <<>>
  <2>1. s \in Seq({})
    BY <1>1
  <2>2. at = {}
    BY <1>1
  <2>3. n \in Nat /\ {} \in SUBSET (1..n)
    OBVIOUS
  <2>4. Picked(s, {}) \in Seq({})
    BY <2>3, PickedIs
  <2>5. Picked(s, {}) = <<>>
    BY <2>4
  <2> QED BY <1>1, <2>2, <2>5 DEF Without
<1>2. CASE s # <<>>
  <2>1. n \in Nat \ {0} /\ LastOf(s) = s[n] /\ DOMAIN s = 1..n
    BY <1>2, LastIs
  <2>2. /\ Greatest(n, at, s, n) /\ at \in SUBSET (1..n)
        /\ \A i \in at : s[i] \in Entries
    BY <2>1 DEF Greatest
  <2> HIDE DEF at, n
  <2>4. LastOf(Picked(s, at)) = s[n]
    BY <2>1, <2>2, PickedEnds
  <2> QED BY <2>1, <2>4 DEF Without, at
<1> QED
  BY <1>1, <1>2

\* What the context holds is in the branch.
LEMMA ContextWithin ==
  ASSUME NEW b \in Seq(Entries), Cut(b), NEW ids, NEW cur,
         cur = Without(ContextOf(b), ids), cur # <<>>
  PROVE  \E i \in 1..Len(b) : b[i] = LastOf(cur)
<1> DEFINE S == Elements(b)
           s == ContextOf(b)
<1>1. \A i \in 1..Len(b) : b[i] \in S
  BY DEF Elements
<1>2. s \in Seq(S)
  <2>1. CASE LastSummary(b) = 0
    <3>1. b \in Seq(S)
      BY <1>1
    <3> QED BY <2>1, <3>1 DEF ContextOf
  <2>2. CASE LastSummary(b) # 0
    <3> DEFINE c == LastSummary(b)
               at == {i \in b[c].keep..Len(b) : NotSummary(b[i])}
    <3>1. /\ c \in 1..Len(b) /\ at \in SUBSET (1..Len(b))
          /\ s = <<b[c]>> \o Picked(b, at)
      BY <2>2, ContextForm
    <3> HIDE DEF c, at, S
    <3>2. Len(b) \in Nat /\ \A i \in at : b[i] \in S
      BY <1>1, <3>1
    <3>3. Picked(b, at) \in Seq(S)
      BY <3>1, <3>2, PickedIs
    <3>4. <<b[c]>> \in Seq(S)
      BY <1>1, <3>1
    <3> QED BY <3>1, <3>3, <3>4
  <2> QED BY <2>1, <2>2
<1>3. cur \in Seq(S)
  <2> HIDE DEF S, s
  <2> DEFINE at == {i \in DOMAIN s : s[i].id \notin ids}
  <2>1. Len(s) \in Nat /\ at \in SUBSET (1..Len(s)) /\ \A i \in at : s[i] \in S
    BY <1>2
  <2>2. cur = Picked(s, at)
    BY DEF Without, s
  <2> HIDE DEF at
  <2>3. Picked(s, at) \in Seq(S)
    BY <2>1, PickedIs
  <2> QED BY <2>2, <2>3
<1>4. LastOf(cur) \in S
  <2> HIDE DEF S
  <2> QED BY <1>3, LastIs
<1> QED
  BY <1>4 DEF Elements

\* What an answer was relieved of, and the ends of the branch: an answer that
\* follows another follows one whose request was made again, and a failed one
\* that follows an overflow comes after the recovery.
Second(s, kind) ==
  IsAnswer(Prior(s)) /\ Prior(s).kind = kind /\ IsAnswer(LastOf(s)) /\ IsError(LastOf(s))

DroppedAre(b, ids) ==
  \A i \in 1..Len(b) : IsAnswer(b[i]) /\ b[i].id \in ids => Relieved(b[i])

TailIs(b, ids, tried) ==
  LET r == Real(b)
  IN /\ DroppedAre(b, ids)
     /\ IsAnswer(Prior(r)) /\ IsAnswer(LastOf(r)) => Relieved(Prior(r))
     /\ IsAnswer(LastOf(r)) /\ LastOf(r).kind = "overflow" /\ LastOf(r).id \in ids
          => tried
     /\ Second(r, "overflow") => tried

\* The context may be compacted for an overflow: what is then at its end is
\* not an answer that nobody repeats.
MayGo(b) ==
  LET r == Real(b)
  IN IsAnswer(LastOf(r)) => Relieved(LastOf(r)) /\ ~Second(r, "overflow")

\* An answer that continue() may find at the end.
MayRefuse(m, b) ==
  \/ m.kind = "silent"
  \/ /\ m.kind = "retryable"
     /\ \E i \in DOMAIN b :
          b[i].role = "summary" /\ b[i].kind = "overflow" /\ b[i].id > m.id

Waits(p) ==
  /\ pc[p] = "compact" /\ local[p].reason = "overflow" =>
       overflowTried /\ MayGo(branch)
  /\ pc[p] = "check" /\ IsAnswer(LastOf(messages)) =>
       local[p].msg = LastOf(messages)
  /\ pc[p] \in {"sleep", "cancelled"} => local[p].msg.kind = "retryable"
  /\ pc[p] = "continue" /\ ~HasQueued /\ IsAnswer(LastOf(messages)) =>
       MayRefuse(LastOf(messages), branch)

Ends ==
  ~Astray =>
    /\ TailIs(Told, dropped, overflowTried)
    /\ phase \in {"pollEnd", "ending"} /\ IsAnswer(LastOf(messages)) =>
         LastOf(messages) = LastHeard
    /\ \A p \in Callers : Waits(p)
    /\ refused.kind = "none" \/ MayRefuse(refused, branch)

LEMMA NoneIsNoAnswer == ~IsAnswer(None) /\ None.kind = "none"
BY DEF IsAnswer, None, Message

\* What ends the branch is in it.
LEMMA RealWithin ==
  ASSUME NEW b \in Seq(Entries), IsAnswer(LastOf(Real(b)))
  PROVE  \E i \in 1..Len(b) : b[i] = LastOf(Real(b))
<1> DEFINE S == Elements(b)
           all == {i \in 1..Len(b) : NotSummary(b[i])}
<1>1. Len(b) \in Nat /\ all \in SUBSET (1..Len(b)) /\ \A i \in all : b[i] \in S
  BY DEF Elements
<1> HIDE DEF all, S
<1>2. Picked(b, all) \in Seq(S)
  BY <1>1, PickedIs
<1>3. PICK r \in Seq(S) : r = Real(b)
  BY <1>2 DEF Real, all
<1>4. r # <<>>
  BY <1>3, NoneIsNoAnswer DEF LastOf
<1>5. LastOf(r) \in S
  BY <1>4, LastIs
<1> QED
  BY <1>3, <1>5 DEF Elements, S

NoAnswers(t) == t \in Seq(Entries) /\ \A i \in 1..Len(t) : NotSummary(t[i]) /\ ~IsAnswer(t[i])

LEMMA DroppedCat ==
  ASSUME NEW b \in Seq(Entries), NEW t, t \in Seq(Entries), NEW ids, DroppedAre(b, ids),
         \A i \in 1..Len(t) : IsAnswer(t[i]) => t[i].id \notin ids
  PROVE  DroppedAre(b \o t, ids)
<1> DEFINE c == b \o t
<1>1. \A i \in 1..Len(c) :
        \/ i \in 1..Len(b) /\ c[i] = b[i]
        \/ \E j \in 1..Len(t) : c[i] = t[j]
  <2> SUFFICES ASSUME NEW i \in 1..Len(c)
               PROVE  \/ i \in 1..Len(b) /\ c[i] = b[i]
                      \/ \E j \in 1..Len(t) : c[i] = t[j]
    OBVIOUS
  <2>1. Len(c) = Len(b) + Len(t) /\ Len(b) \in Nat /\ Len(t) \in Nat
    OBVIOUS
  <2>2. CASE i <= Len(b)
    BY <2>1, <2>2
  <2>3. CASE i > Len(b)
    <3>1. i - Len(b) \in 1..Len(t) /\ c[i] = t[i - Len(b)]
      BY <2>1, <2>3
    <3> QED BY <3>1
  <2> QED BY <2>1, <2>2, <2>3
<1> HIDE DEF c
<1>2. DroppedAre(c, ids)
  BY <1>1 DEF DroppedAre
<1> QED
  BY <1>2 DEF c

LEMMA TailCat ==
  ASSUME NEW b \in Seq(Entries), NEW t, NoAnswers(t), NEW ids, NEW tried,
         TailIs(b, ids, tried)
  PROVE  TailIs(b \o t, ids, tried)
<1>1. t \in Seq(Entries) /\ \A i \in 1..Len(t) : NotSummary(t[i]) /\ ~IsAnswer(t[i])
  BY DEF NoAnswers
<1>2. Real(b \o t) = Real(b) \o t
  BY <1>1, RealCat
<1>3. DroppedAre(b \o t, ids)
  BY <1>1, DroppedCat DEF TailIs
<1>4. CASE t = <<>>
  <2>1. b \o t = b
    BY <1>4
  <2> QED BY <2>1
<1>5. CASE t # <<>>
  <2>1. Real(b) \in Seq(Entries)
    BY RealIs
  <2>2. LastOf(Real(b) \o t) = LastOf(t)
    BY <1>1, <1>5, <2>1, LastOfCat
  <2>3. LastOf(t) = t[Len(t)] /\ Len(t) \in 1..Len(t)
    BY <1>1, <1>5, LastIs
  <2>4. ~IsAnswer(LastOf(Real(b \o t)))
    BY <1>1, <1>2, <2>2, <2>3
  <2> QED BY <1>3, <2>4 DEF TailIs, Second
<1> QED
  BY <1>4, <1>5

\* An answer that follows one that was dropped, or none.
LEMMA TailAnswer ==
  ASSUME NEW b \in Seq(Entries), NEW m \in Entries, IsAnswer(m), NEW ids, NEW tried,
         TailIs(b, ids, tried), m.id \notin ids,
         IsAnswer(LastOf(Real(b))) => LastOf(Real(b)).id \in ids
  PROVE  TailIs(Append(b, m), ids, tried)
<1> DEFINE r == Real(b)
<1>1. NotSummary(m)
  BY DEF NotSummary, IsAnswer
<1>2. Real(Append(b, m)) = Append(r, m)
  BY <1>1, RealAppend
<1>3. r \in Seq(Entries)
  BY RealIs
<1> HIDE DEF r
<1>4. LastOf(Append(r, m)) = m /\ Prior(Append(r, m)) = LastOf(r)
  BY <1>3, LastOfAppend
<1>5. DroppedAre(Append(b, m), ids)
  <2>1. Append(b, m) = b \o <<m>> /\ <<m>> \in Seq(Entries)
    BY AppendIsCat
  <2>2. \A i \in 1..Len(<<m>>) : <<m>>[i].id \notin ids
    OBVIOUS
  <2> DEFINE t == <<m>>
  <2> HIDE DEF t
  <2>3. DroppedAre(b \o t, ids)
    BY <2>1, <2>2, DroppedCat DEF t, TailIs
  <2> QED BY <2>1, <2>3 DEF t
<1>6. ASSUME IsAnswer(LastOf(r))
      PROVE  Relieved(LastOf(r)) /\ (LastOf(r).kind = "overflow" => tried)
  <2>1. LastOf(r).id \in ids
    BY <1>6 DEF r
  <2>2. PICK i \in 1..Len(b) : b[i] = LastOf(r)
    BY <1>6, RealWithin DEF r
  <2>3. DroppedAre(b, ids)
        /\ (IsAnswer(LastOf(r)) /\ LastOf(r).kind = "overflow" /\ LastOf(r).id \in ids
              => tried)
    BY DEF TailIs, r
  <2> QED BY <1>6, <2>1, <2>2, <2>3 DEF DroppedAre
<1> QED
  BY <1>2, <1>4, <1>5, <1>6 DEF TailIs, Second

\* The recovery may be over with an answer without error.
LEMMA TailAnswered ==
  ASSUME NEW b \in Seq(Entries), NEW m \in Entries, NotSummary(m), NEW ids,
         NEW tried, NEW tried2,
         TailIs(Append(b, m), ids, tried), tried => tried2 \/ ~IsError(m)
  PROVE  TailIs(Append(b, m), ids, tried2)
<1> DEFINE r == Real(b)
<1>1. Real(Append(b, m)) = Append(r, m)
  BY RealAppend
<1>2. r \in Seq(Entries)
  BY RealIs
<1> HIDE DEF r
<1>3. LastOf(Append(r, m)) = m
  BY <1>2, LastOfAppend
<1> QED
  BY <1>1, <1>3 DEF TailIs, Second, IsError

LEMMA TailSummary ==
  ASSUME NEW b \in Seq(Entries), NEW e \in Entries, ~NotSummary(e), NEW ids, NEW ids2,
         NEW tried, TailIs(b, ids, tried), DroppedAre(Append(b, e), ids2),
         IsAnswer(LastOf(Real(b))) /\ LastOf(Real(b)).id \in ids2 => tried
  PROVE  TailIs(Append(b, e), ids2, tried)
<1>1. Real(Append(b, e)) = Real(b)
  BY RealAppend
<1> QED
  BY <1>1 DEF TailIs

\* The answer at the end of the agent's messages is dropped.
LEMMA TailDrop ==
  ASSUME NEW b \in Seq(Entries), NEW n, Numbered(b, n), NEW i \in 1..Len(b),
         NEW x, x = b[i], IsAnswer(x), Relieved(x),
         NEW ids, NEW tried, NEW tried2, TailIs(b, ids, tried), tried => tried2,
         x.kind = "overflow" => tried2
  PROVE  TailIs(b, ids \union {x.id}, tried2)
<1>1. \A j \in 1..Len(b) : b[j].id = x.id => b[j] = x
  BY DEF Numbered, IsAnswer
<1>2. DroppedAre(b, ids \union {x.id})
  BY <1>1 DEF DroppedAre, TailIs
<1>3. ASSUME IsAnswer(LastOf(Real(b))), LastOf(Real(b)).id = x.id
      PROVE  LastOf(Real(b)) = x
  BY <1>1, <1>3, RealWithin
<1> QED
  BY <1>2, <1>3 DEF TailIs

LEMMA TailMore ==
  ASSUME NEW b, NEW ids, NEW tried, NEW tried2, TailIs(b, ids, tried), tried => tried2
  PROVE  TailIs(b, ids, tried2)
BY DEF TailIs
-----------------------------------------------------------------------------
(* The answer at the end of the messages *)

LEMMA ToldIs ==
  ASSUME IInv, Pairs
  PROVE  /\ Told \in Seq(Entries) /\ Cut(Told)
         /\ branch \in Seq(Entries) /\ Cut(branch) /\ messages \in Seq(Entries)
         /\ held \in Entries /\ NotSummary(held) /\ AllBash(pendingBash)
<1>1. /\ branch \in Seq(Entries) /\ Cut(branch) /\ messages \in Seq(Entries)
      /\ held \in Entries /\ NotSummary(held) /\ AllBash(pendingBash)
  BY DEF IInv, Types, Buffers, Pairs, Cuts
<1>2. Append(branch, held) \in Seq(Entries) /\ Cut(Append(branch, held))
  BY <1>1, CutAppend
<1> QED
  BY <1>1, <1>2 DEF Told

\* The answer at the end of the branch was dropped, or it ends the messages.
LEMMA LastKept ==
  ASSUME IInv, Pairs, Agrees, ~Astray
  PROVE  \/ LastOf(Real(Told)).id \in dropped
         \/ LastOf(messages) = LastOf(Real(Told))
<1>1. Told \in Seq(Entries) /\ Cut(Told)
  BY ToldIs
<1>2. messages = Without(ContextOf(Told), dropped)
  BY Rests
<1>3. ContextOf(Told) \in Seq(Entries)
  BY <1>1, ContextType
<1>4. LastOf(ContextOf(Told)) = LastOf(Real(Told))
  BY <1>1, ContextEnds
<1>5. PICK s, ids : s \in Seq(Entries) /\ s = ContextOf(Told) /\ ids = dropped
  BY <1>3
<1>6. LastOf(s).id \notin ids => LastOf(Without(s, ids)) = LastOf(s)
  BY <1>5, LastWithout
<1> QED
  BY <1>2, <1>4, <1>5, <1>6

\* What ends the messages is in the branch.
LEMMA LastFound ==
  ASSUME IInv, Pairs, Agrees, ~Astray, IsAnswer(LastOf(messages))
  PROVE  \E i \in 1..Len(Told) : Told[i] = LastOf(messages)
<1>1. PICK b \in Seq(Entries) : b = Told /\ Cut(b)
  BY ToldIs
<1>2. PICK ids, cur : cur = messages /\ cur = Without(ContextOf(b), ids)
  BY <1>1, Rests
<1>3. cur # <<>>
  BY <1>2, NoneIsNoAnswer DEF LastOf
<1>4. \E i \in 1..Len(b) : b[i] = LastOf(cur)
  BY <1>1, <1>2, <1>3, ContextWithin
<1> QED
  BY <1>1, <1>2, <1>4

\* A compaction for an overflow leaves nothing at the end to go on from that
\* nobody repeats.
LEMMA GoesFor ==
  ASSUME IInv, Pairs, Agrees, Ends, ~Astray, held = None, ~overflowTried,
         IsAnswer(LastOf(messages)) => Relieved(LastOf(messages))
  PROVE  MayGo(branch)
<1>1. Told = branch /\ branch \in Seq(Entries)
  BY ToldIs DEF Told
<1>2. TailIs(branch, dropped, overflowTried)
  BY <1>1 DEF Ends
<1>3. SUFFICES ASSUME IsAnswer(LastOf(Real(branch)))
               PROVE  Relieved(LastOf(Real(branch)))
  BY <1>2 DEF MayGo, TailIs
<1>4. CASE LastOf(Real(branch)).id \in dropped
  <2>1. PICK i \in 1..Len(branch) : branch[i] = LastOf(Real(branch))
    BY <1>1, <1>3, RealWithin
  <2> QED BY <1>2, <1>3, <1>4, <2>1 DEF TailIs, DroppedAre
<1>5. CASE LastOf(messages) = LastOf(Real(branch))
  BY <1>3, <1>5
<1> QED
  BY <1>1, <1>4, <1>5, LastKept

LEMMA RemovedIs ==
  ASSUME messages \in Seq(Entries), NEW msgs \in {messages, WithoutAnswer(messages)}
  PROVE  \/ Removed(msgs) = {}
         \/ /\ msgs # messages /\ IsAnswer(LastOf(messages))
            /\ Removed(msgs) = {LastOf(messages).id}
<1>1. CASE msgs = messages
  BY <1>1, NothingRemoved
<1>2. CASE msgs # messages
  <2>1. msgs = SubSeq(messages, 1, Len(messages) - 1) /\ IsAnswer(LastOf(messages))
    BY <1>2 DEF WithoutAnswer, IsAnswer
  <2>2. messages # <<>>
    BY <2>1, NoneIsNoAnswer DEF LastOf
  <2>3. LastOf(messages) = messages[Len(messages)] /\ Len(messages) \in Nat \ {0}
    BY <2>2, LastIs
  <2>4. (Len(msgs) + 1)..Len(messages) = {Len(messages)}
    BY <2>1, <2>2, ShorterByOne
  <2> QED BY <1>2, <2>1, <2>3, <2>4 DEF Removed
<1> QED
  BY <1>1, <1>2

LEMMA TailDropped ==
  ASSUME IInv, Pairs, Agrees, Ends, ~Astray, held = None,
         NEW msgs \in {messages, WithoutAnswer(messages)},
         NEW ids, ids = dropped \union Removed(msgs), NEW tried,
         overflowTried => tried,
         msgs # messages /\ IsAnswer(LastOf(messages)) =>
           Relieved(LastOf(messages)) /\ (LastOf(messages).kind = "overflow" => tried)
  PROVE  TailIs(branch, ids, tried)
<1>1. Told = branch /\ branch \in Seq(Entries) /\ messages \in Seq(Entries)
  BY ToldIs DEF Told
<1>2. TailIs(branch, dropped, overflowTried) /\ Numbered(branch, drawn)
  BY <1>1, Rests DEF Ends
<1>3. CASE Removed(msgs) = {}
  BY <1>2, <1>3, TailMore
<1>4. CASE /\ msgs # messages /\ IsAnswer(LastOf(messages))
           /\ Removed(msgs) = {LastOf(messages).id}
  <2>1. PICK i \in 1..Len(branch) : branch[i] = LastOf(messages)
    BY <1>1, <1>4, LastFound
  <2>2. PICK x : x = LastOf(messages)
    OBVIOUS
  <2>3. /\ x = branch[i] /\ IsAnswer(x) /\ Relieved(x)
        /\ x.kind = "overflow" => tried
    BY <1>4, <2>1, <2>2
  <2>4. TailIs(branch, dropped \union {x.id}, tried)
    BY <1>1, <1>2, <2>3, TailDrop
  <2> QED BY <1>4, <2>2, <2>4
<1> QED
  BY <1>1, <1>3, <1>4, RemovedIs

LEMMA BashNoAnswers ==
  ASSUME NEW t, AllBash(t)
  PROVE  NoAnswers(t)
BY DEF AllBash, NoAnswers, NotSummary, IsAnswer

\* What may be refused stays so as the branch grows.
LEMMA MayRefuseMore ==
  ASSUME NEW b \in Seq(Entries), NEW t \in Seq(Entries), NEW m, MayRefuse(m, b)
  PROVE  MayRefuse(m, b \o t)
<1>1. \A i \in DOMAIN b : i \in DOMAIN (b \o t) /\ (b \o t)[i] = b[i]
  OBVIOUS
<1> QED
  BY <1>1 DEF MayRefuse

LEMMA MayRefuseAppend ==
  ASSUME NEW b \in Seq(Entries), NEW e \in Entries, NEW m, MayRefuse(m, b)
  PROVE  MayRefuse(m, Append(b, e))
<1>1. \A i \in DOMAIN b : i \in DOMAIN Append(b, e) /\ Append(b, e)[i] = b[i]
  OBVIOUS
<1> QED
  BY <1>1 DEF MayRefuse

-----------------------------------------------------------------------------
(* Decisions *)

\* What a decision does, besides what it leaves.
Decided(p, v, msgs) ==
  /\ Leaves(p, msgs) /\ dropped' = dropped \union Removed(msgs)
  /\ overflowTried' = (overflowTried \/ v = "overflow")
  /\ v = "overflow" => ~overflowTried
  /\ pc'[p] \in {"ready", "idle", "continue", "compact", "sleep"}
  /\ pc'[p] = "continue" => HasQueued
  /\ pc'[p] = "compact" => local'[p].reason = v

LEMMA DecidedEnds ==
  ASSUME IInv, Pairs, Agrees, Ends, NEW p \in Callers, held = None,
         \A q \in Callers : q # p => pc[q] = "idle",
         phase' = "none",
         UNCHANGED <<held, crossed, handlerFailed, steering, followUps>>,
         refused' = refused \/ (~Astray => MayRefuse(refused', branch)),
         NEW v, NEW msgs \in {messages, WithoutAnswer(messages)}, Decided(p, v, msgs),
         ~Astray /\ IsAnswer(LastOf(messages)) /\ (msgs # messages \/ v = "overflow") =>
           /\ Relieved(LastOf(messages))
           /\ LastOf(messages).kind = "overflow" => overflowTried',
         ~Astray /\ pc'[p] = "sleep" => local'[p].msg.kind = "retryable"
  PROVE  Ends'
<1>1. SUFFICES ASSUME ~Astray PROVE Ends'
  BY DEF Ends, Astray
<1>2. PICK t \in {<<>>, pendingBash} :
        /\ messages' = msgs \o t /\ branch' = branch \o t
        /\ pc'[p] = "compact" => t = <<>>
  BY DEF Decided, Leaves
<1>3. /\ branch \in Seq(Entries) /\ messages \in Seq(Entries) /\ AllBash(t)
      /\ overflowTried \in BOOLEAN
  <2>1. AllBash(<<>>)
    BY DEF AllBash
  <2> QED BY <2>1, ToldIs DEF IInv, Types
<1>4. t \in Seq(Entries) /\ NoAnswers(t)
  BY <1>3, BashNoAnswers DEF AllBash
<1>5. TailIs(branch', dropped', overflowTried')
  <2>1. PICK ids, tried : ids = dropped' /\ tried = overflowTried'
    OBVIOUS
  <2>2. ids = dropped \union Removed(msgs) /\ (overflowTried => tried)
    BY <2>1 DEF Decided
  <2>3. msgs # messages /\ IsAnswer(LastOf(messages)) =>
          Relieved(LastOf(messages)) /\ (LastOf(messages).kind = "overflow" => tried)
    BY <1>1, <2>1
  <2>4. TailIs(branch, ids, tried)
    BY <1>1, <2>2, <2>3, TailDropped
  <2>5. TailIs(branch \o t, ids, tried)
    BY <1>3, <1>4, <2>4, TailCat
  <2> QED BY <1>2, <2>1, <2>5
<1>6. Told' = branch'
  BY DEF Told
<1>7. ASSUME NEW q \in Callers PROVE Waits(q)'
  <2>1. CASE q # p
    <3>1. pc'[q] = "idle"
      BY <2>1 DEF Decided, Leaves
    <3> QED BY <3>1 DEF Waits
  <2>2. CASE q = p
    <3>1. /\ pc'[p] \in {"ready", "idle", "continue", "compact", "sleep"}
          /\ pc'[p] = "continue" => HasQueued'
      BY DEF Decided, HasQueued
    <3>2. ASSUME pc'[p] = "compact", local'[p].reason = "overflow"
          PROVE  overflowTried' /\ MayGo(branch')
      <4>1. v = "overflow" /\ ~overflowTried /\ overflowTried'
        BY <1>3, <3>2 DEF Decided
      <4>2. MayGo(branch)
        BY <1>1, <4>1, GoesFor
      <4>3. branch' = branch
        BY <1>2, <1>3, <3>2, NothingFollows
      <4> QED BY <4>1, <4>2, <4>3
    <3> QED BY <1>1, <2>2, <3>1, <3>2 DEF Waits
  <2> QED BY <2>1, <2>2
<1>8. refused'.kind = "none" \/ MayRefuse(refused', branch')
  <2>1. refused'.kind = "none" \/ MayRefuse(refused', branch)
    BY <1>1 DEF Ends
  <2> QED BY <1>2, <1>3, <1>4, <2>1, MayRefuseMore
<1> QED
  BY <1>5, <1>6, <1>7, <1>8 DEF Ends

LEMMA ReasonUpdate ==
  ASSUME NEW l, IsLocal(l), NEW r, NEW k, NEW m
  PROVE  /\ [l EXCEPT !.reason = r, !.keep = k].reason = r
         /\ [l EXCEPT !.msg = m].msg = m
<1> DEFINE n == [l EXCEPT !.reason = r]
<1>1. n = [prompt |-> l.prompt, msg |-> l.msg, pre |-> l.pre,
           reason |-> r, keep |-> l.keep]
  BY DEF IsLocal
<1> HIDE DEF n
<1>2. [n EXCEPT !.keep = k] = [prompt |-> n.prompt, msg |-> n.msg, pre |-> n.pre,
                               reason |-> n.reason, keep |-> k]
  BY <1>1
<1>3. [n EXCEPT !.keep = k].reason = r
  BY <1>1, <1>2
<1> DEFINE o == [l EXCEPT !.msg = m]
<1>4. o = [prompt |-> l.prompt, msg |-> m, pre |-> l.pre,
           reason |-> l.reason, keep |-> l.keep]
  BY DEF IsLocal
<1> HIDE DEF o
<1>5. o.msg = m
  BY <1>4
<1> QED
  BY <1>3, <1>5 DEF n, o

LEMMA PlaceOf ==
  ASSUME Types, NEW p \in Callers, NEW place, GoesTo(p, place)
  PROVE  pc'[p] = place
BY DEF GoesTo, Types

LEMMA NotContinuedDecides ==
  ASSUME Types, NEW p \in Callers, NEW msgs \in Seq(Entries), NotContinued(p, msgs)
  PROVE  /\ Leaves(p, msgs)
         /\ pc'[p] \in {"ready", "idle", "continue"}
         /\ pc'[p] = "continue" => HasQueued
<1>1. IsSequence(msgs)
  BY IsSequenceIntro
<1>2. PICK place \in {"ready", "continue", "idle"} :
        GoesTo(p, place) /\ (place = "continue" => HasQueued)
  BY <1>1, NotContinuedIs
<1>3. pc'[p] = place
  BY <1>2, PlaceOf
<1> QED
  BY <1>2, <1>3, NotContinuedLeaves

LEMMA CheckDecides ==
  ASSUME Types, messages \in Seq(Entries), NEW p \in Callers, NEW m,
         CheckCompaction(p, m)
  PROVE  \E v \in {"none", "overflow", "threshold"},
            msgs \in {messages, WithoutAnswer(messages)} :
           /\ Decided(p, v, msgs) /\ pc'[p] # "sleep"
           /\ msgs # messages => v = "overflow"
           /\ v = "overflow" => IsOverflow(m)
<1> DEFINE v == Verdict(p, m)
           msgs == IF v = "overflow" THEN WithoutAnswer(messages) ELSE messages
<1>1. /\ v \in {"none", "overflow", "threshold"}
      /\ v = "overflow" => IsOverflow(m) /\ ~overflowTried
  BY DEF Verdict
<1>2. /\ dropped' = dropped \union Removed(msgs)
      /\ overflowTried' = (overflowTried \/ v = "overflow")
      /\ \/ NotContinued(p, msgs)
         \/ /\ messages' = msgs /\ pc' = [pc EXCEPT ![p] = "compact"]
            /\ \E k \in KeepFrom(branch) :
                 local' = [local EXCEPT ![p].reason = v, ![p].keep = k]
            /\ UNCHANGED <<branch, pendingBash>>
  BY DEF CheckCompaction, Goto
<1> HIDE DEF v
<1>3. /\ msgs \in {messages, WithoutAnswer(messages)}
      /\ msgs # messages => v = "overflow"
  OBVIOUS
<1>4. msgs \in Seq(Entries)
  BY DEF WithoutAnswer
<1> HIDE DEF msgs
<1>5. /\ Leaves(p, msgs)
      /\ pc'[p] \in {"ready", "idle", "continue", "compact"}
      /\ pc'[p] = "continue" => HasQueued
      /\ pc'[p] = "compact" => local'[p].reason = v
  <2>1. CASE NotContinued(p, msgs)
    BY <1>4, <2>1, NotContinuedDecides
  <2>2. CASE /\ messages' = msgs /\ pc' = [pc EXCEPT ![p] = "compact"]
             /\ \E k \in KeepFrom(branch) :
                  local' = [local EXCEPT ![p].reason = v, ![p].keep = k]
             /\ UNCHANGED <<branch, pendingBash>>
    <3>1. PICK k \in KeepFrom(branch) :
            local' = [local EXCEPT ![p].reason = v, ![p].keep = k]
      BY <2>2
    <3> DEFINE old == local[p]
               l == [old EXCEPT !.reason = v, !.keep = k]
    <3>2. local' = [local EXCEPT ![p] = l]
      BY <3>1 DEF Types, Locals
    <3>3. IsLocal(old)
      BY DEF Types, Locals
    <3> HIDE DEF old
    <3>4. l.prompt = old.prompt /\ l.keep = k
      <4>1. LET n == [old EXCEPT !.reason = v, !.keep = k]
            IN n.keep = k /\ n.prompt = old.prompt
        BY <3>3, KeepUpdate
      <4> QED BY <4>1
    <3>5. l.reason = v
      BY <3>3, ReasonUpdate
    <3> HIDE DEF l
    <3>6. /\ \A q \in Callers : local'[q].prompt \in {local[q].prompt, None}
          /\ local'[p].keep = k /\ local'[p].reason = v
      BY <3>2, <3>4, <3>5 DEF Types, Locals, old
    <3>7. pc'[p] = "compact" /\ \A q \in Callers : q # p => pc'[q] = pc[q]
      BY <2>2 DEF Types
    <3>8. messages' = msgs \o <<>> /\ branch' = branch \o <<>>
      BY <1>4, <2>2, NothingFollows DEF Types, Buffers
    <3>9. Leaves(p, msgs)
      BY <2>2, <3>1, <3>6, <3>7, <3>8 DEF Leaves
    <3> QED BY <3>6, <3>7, <3>9
  <2> QED BY <1>2, <2>1, <2>2
<1>6. Decided(p, v, msgs) /\ pc'[p] # "sleep"
  BY <1>1, <1>2, <1>5 DEF Decided
<1> QED
  BY <1>1, <1>3, <1>6

LEMMA EndRunEnds ==
  ASSUME IInv, Pairs, Agrees, Ends, EndRun
  PROVE  Ends'
<1> USE DEF agent, calls, run, shown, retry, compact, marks, history
<1>1. /\ held = None /\ phase \in {"ending", "reported"} /\ phase' = "none"
      /\ UNCHANGED <<held, crossed, handlerFailed, refused, steering, followUps>>
  BY DEF EndRun
<1>2. /\ owner \in Callers /\ pc[owner] = "running" /\ Types
      /\ messages \in Seq(Entries) /\ overflowTried \in BOOLEAN
  BY <1>1 DEF IInv, Alone, Types, Pairs
<1>3. \A q \in Callers : q # owner => pc[q] = "idle"
  BY <1>2, OnlyOne
<1>4. ~Astray /\ IsAnswer(LastOf(messages)) => LastOf(messages) = lastAssistant
  <2> SUFFICES ASSUME ~Astray, IsAnswer(LastOf(messages))
               PROVE  LastOf(messages) = lastAssistant
    OBVIOUS
  <2>1. phase = "ending"
    BY <1>1 DEF IInv, Alone, Astray
  <2> QED BY <1>1, <2>1, NoneIs DEF Ends, LastHeard
<1>5. PICK p \in Callers : p = owner
  BY <1>2
<1>6. CASE lastAssistant = None
  <2>1. RoundsDone(p, messages) /\ UNCHANGED <<dropped, overflowTried>>
    <3>1. ~RetriesLeft(lastAssistant)
      BY <1>6, NoneIs DEF RetriesLeft, IsRetryable
    <3> QED BY <1>5, <1>6, <3>1 DEF EndRun
  <2>2. IsSequence(messages)
    BY <1>2, IsSequenceIntro
  <2>3. PICK place \in {"ready", "idle"} : GoesTo(p, place)
    BY <1>2, <2>1, <2>2, RoundsDoneIs
  <2>4. Leaves(p, messages) /\ pc'[p] = place
    BY <1>2, <2>1, <2>3, RoundsDoneLeaves, PlaceOf
  <2>5. dropped' = dropped \union Removed(messages)
    BY <1>2, <2>1, NothingRemoved
  <2>6. Decided(p, "none", messages)
    BY <1>2, <2>1, <2>4, <2>5 DEF Decided
  <2>7. PICK msgs \in {messages, WithoutAnswer(messages)} : msgs = messages
    OBVIOUS
  <2>8. ~Astray => ~IsAnswer(LastOf(messages))
    BY <1>4, <1>6, NoneIsNoAnswer
  <2>9. pc'[p] # "sleep"
    BY <2>4
  <2> QED
    BY <1>1, <1>3, <1>5, <2>6, <2>7, <2>8, <2>9, DecidedEnds
<1>7. CASE lastAssistant # None /\ RetriesLeft(lastAssistant)
  <2>1. PrepareRetry(p, lastAssistant)
    BY <1>5, <1>7 DEF EndRun
  <2>2. lastAssistant.kind = "retryable"
    BY <1>7 DEF RetriesLeft, IsRetryable
  <2>3. /\ Leaves(p, WithoutAnswer(messages))
        /\ dropped' = dropped \union Removed(WithoutAnswer(messages))
    BY <1>2, <2>1, PrepareRetryLeaves
  <2>4. /\ pc'[p] = "sleep" /\ overflowTried' = overflowTried
        /\ local' = [local EXCEPT ![p].msg = lastAssistant]
    BY <1>2, <2>1 DEF PrepareRetry, Goto, Types
  <2>5. local'[p].msg.kind = "retryable"
    <3> DEFINE old == local[p]
               l == [old EXCEPT !.msg = lastAssistant]
    <3>1. local' = [local EXCEPT ![p] = l] /\ IsLocal(old)
      BY <1>2, <2>4 DEF Types, Locals
    <3> HIDE DEF old
    <3>2. l.msg = lastAssistant
      BY <3>1, ReasonUpdate
    <3> HIDE DEF l
    <3>3. local'[p] = l
      BY <1>2, <3>1 DEF Types, Locals
    <3> QED BY <2>2, <3>2, <3>3
  <2>6. Decided(p, "none", WithoutAnswer(messages))
    BY <1>2, <2>3, <2>4 DEF Decided
  <2>7. PICK msgs \in {messages, WithoutAnswer(messages)} :
          msgs = WithoutAnswer(messages)
    OBVIOUS
  <2>8. ~Astray /\ IsAnswer(LastOf(messages)) =>
          Relieved(LastOf(messages)) /\ LastOf(messages).kind # "overflow"
    BY <1>4, <2>2 DEF Relieved
  <2> QED
    BY <1>1, <1>3, <1>5, <2>5, <2>6, <2>7, <2>8, DecidedEnds
<1>8. CASE lastAssistant # None /\ ~RetriesLeft(lastAssistant)
  <2>1. CheckCompaction(p, lastAssistant)
    BY <1>5, <1>8 DEF EndRun
  <2>2. PICK v \in {"none", "overflow", "threshold"},
             msgs \in {messages, WithoutAnswer(messages)} :
          /\ Decided(p, v, msgs) /\ pc'[p] # "sleep"
          /\ msgs # messages => v = "overflow"
          /\ v = "overflow" => IsOverflow(lastAssistant)
    BY <1>2, <2>1, CheckDecides
  <2>3. v = "overflow" /\ ~Astray /\ IsAnswer(LastOf(messages)) =>
          Relieved(LastOf(messages)) /\ overflowTried'
    BY <1>2, <1>4, <2>2 DEF Relieved, IsOverflow, Decided
  <2> QED
    BY <1>1, <1>3, <1>5, <2>2, <2>3, DecidedEnds
<1> QED
  BY <1>6, <1>7, <1>8

LEMMA CheckEnds ==
  ASSUME IInv, Pairs, Agrees, Ends, NEW p \in Callers,
         PreCheck(p) \/ RetryCancelled(p) \/ AutoCompactFails(p)
  PROVE  Ends'
<1> USE DEF agent, calls, run, shown, retry, compact, marks, history
<1>1. /\ pc[p] \in {"check", "cancelled", "compact"}
      /\ UNCHANGED <<held, crossed, handlerFailed, refused, steering, followUps, phase>>
  BY DEF PreCheck, RetryCancelled, AutoCompactFails
<1>2. /\ held = None /\ phase = "none" /\ Types /\ messages \in Seq(Entries)
      /\ \A q \in Callers : q # p => pc[q] = "idle"
  BY <1>1, OnlyOne DEF IInv, Pairs
<1>3. ~Astray => Waits(p)
  BY DEF Ends
<1>4. CASE (PreCheck(p) \/ RetryCancelled(p)) /\ pc[p] # "compact"
  <2>1. CheckCompaction(p, local[p].msg) /\ pc[p] \in {"check", "cancelled"}
    BY <1>1, <1>4 DEF PreCheck, RetryCancelled
  <2>2. PICK v \in {"none", "overflow", "threshold"},
             msgs \in {messages, WithoutAnswer(messages)} :
          /\ Decided(p, v, msgs) /\ pc'[p] # "sleep"
          /\ msgs # messages => v = "overflow"
          /\ v = "overflow" => IsOverflow(local[p].msg)
    BY <1>2, <2>1, CheckDecides
  <2>3. v = "overflow" /\ ~Astray /\ IsAnswer(LastOf(messages)) =>
          Relieved(LastOf(messages)) /\ overflowTried'
    <3>1. v = "overflow" => overflowTried'
      BY <1>2, <2>2 DEF Decided, Types
    <3> QED BY <1>3, <2>1, <2>2, <3>1 DEF Waits, Relieved, IsOverflow
  <2> QED
    BY <1>1, <1>2, <2>2, <2>3, DecidedEnds
<1>5. CASE AutoCompactFails(p)
  <2>1. NotContinued(p, messages) /\ UNCHANGED <<dropped, overflowTried>>
    BY <1>5 DEF AutoCompactFails
  <2>2. /\ Leaves(p, messages) /\ pc'[p] \in {"ready", "idle", "continue"}
        /\ pc'[p] = "continue" => HasQueued
    BY <1>2, <2>1, NotContinuedDecides
  <2>3. dropped' = dropped \union Removed(messages)
    BY <1>2, <2>1, NothingRemoved
  <2>4. Decided(p, "none", messages) /\ pc'[p] # "sleep"
    BY <1>2, <2>1, <2>2, <2>3 DEF Decided, Types
  <2>5. PICK msgs \in {messages, WithoutAnswer(messages)} : msgs = messages
    OBVIOUS
  <2>6. PICK v : v = "none"
    OBVIOUS
  <2> QED
    BY <1>1, <1>2, <2>4, <2>5, <2>6, DecidedEnds
<1> QED
  BY <1>4, <1>5 DEF PreCheck, RetryCancelled

-----------------------------------------------------------------------------
(* The steps of a run *)

\* While a run goes on no call waits for anything but its end.
LEMMA RunWaits ==
  ASSUME IInv, phase # "none", pc' = pc
  PROVE  \A q \in Callers : Waits(q)'
<1>1. /\ owner \in Callers /\ pc[owner] = "running"
      /\ \A q \in Callers : q # owner => pc[q] = "idle"
  BY DEF IInv, Alone
<1>2. \A q \in Callers : pc'[q] \in {"idle", "running"}
  BY <1>1
<1> QED
  BY <1>2 DEF Waits

LEMMA StillEnds ==
  ASSUME Ends, UNCHANGED <<branch, held, messages, dropped, overflowTried, lastAssistant>>,
         refused' = refused, Astray => Astray',
         ~Astray /\ phase' \in {"pollEnd", "ending"} /\ IsAnswer(LastOf(messages)) =>
           phase \in {"pollEnd", "ending"},
         ~Astray' => \A q \in Callers : Waits(q)'
  PROVE  Ends'
<1>1. Told' = Told /\ LastHeard' = LastHeard
  BY DEF Told, LastHeard
<1> QED
  BY <1>1 DEF Ends

\* The end of the branch is no answer.
LEMMA TailOther ==
  ASSUME NEW b \in Seq(Entries), NEW m \in Entries, NotSummary(m), ~IsAnswer(m),
         NEW ids, DroppedAre(b, ids), NEW tried
  PROVE  TailIs(Append(b, m), ids, tried) /\ MayGo(Append(b, m))
<1> DEFINE r == Real(b)
<1>1. Real(Append(b, m)) = Append(r, m)
  BY RealAppend
<1>2. r \in Seq(Entries)
  BY RealIs
<1> HIDE DEF r
<1>3. LastOf(Append(r, m)) = m
  BY <1>2, LastOfAppend
<1>4. DroppedAre(Append(b, m), ids)
  <2>1. Append(b, m) = b \o <<m>> /\ <<m>> \in Seq(Entries)
    BY AppendIsCat
  <2>2. \A i \in 1..Len(<<m>>) : ~IsAnswer(<<m>>[i])
    OBVIOUS
  <2> DEFINE t == <<m>>
  <2> HIDE DEF t
  <2>3. DroppedAre(b \o t, ids)
    BY <2>1, <2>2, DroppedCat DEF t
  <2> QED BY <2>1, <2>3 DEF t
<1> QED
  BY <1>1, <1>3, <1>4 DEF TailIs, Second, MayGo

LEMMA EmittedEnds ==
  ASSUME IInv, Pairs, Agrees, Ends, NEW m \in Entries, m # None, NotSummary(m),
         Emitted(m), UNCHANGED <<branch, dropped, refused, pc, handlerFailed>>, phase # "none",
         \/ ~IsAnswer(m) /\ phase' \notin {"pollEnd", "ending"}
         \/ /\ IsAnswer(m) /\ phase = "request" /\ m.id = drawn + 1
            /\ overflowTried' = overflowTried
  PROVE  Ends'
<1>1. /\ messages' = Append(messages, m) /\ held = None
      /\ held' = (IF connected THEN m ELSE None)
      /\ crossed' = (crossed \/ ~connected)
  BY DEF Emitted
<1>2. SUFFICES ASSUME ~Astray' PROVE Ends'
  BY DEF Ends
<1>3. /\ ~Astray /\ Told = branch /\ Told' = Append(branch, m) /\ held' = m
      /\ branch \in Seq(Entries) /\ messages \in Seq(Entries)
  BY <1>1, <1>2, ToldIs DEF Told, Astray
<1>4. /\ TailIs(branch, dropped, overflowTried)
      /\ refused.kind = "none" \/ MayRefuse(refused, branch)
  BY <1>3 DEF Ends
<1>5. \A q \in Callers : Waits(q)'
  BY RunWaits
<1>6. TailIs(Told', dropped', overflowTried')
  <2>1. CASE ~IsAnswer(m)
    <3>1. PICK ids, tried : ids = dropped /\ tried = overflowTried'
      OBVIOUS
    <3>2. DroppedAre(branch, ids)
      BY <1>4, <3>1 DEF TailIs
    <3>3. TailIs(Append(branch, m), ids, tried)
      BY <1>3, <2>1, <3>2, TailOther
    <3> QED BY <1>3, <3>1, <3>3
  <2>2. CASE /\ IsAnswer(m) /\ phase = "request" /\ m.id = drawn + 1
             /\ overflowTried' = overflowTried
    <3>1. m.id \notin dropped
      <4>1. \A x \in dropped : x \in Nat /\ x <= drawn
        BY <1>3, Rests
      <4>2. drawn \in Nat
        BY DEF IInv, Types
      <4> QED BY <2>2, <4>1, <4>2
    <3>2. ~IsAnswer(LastOf(messages))
      BY <1>3, <2>2 DEF IInv, Going, Begun, Unanswered, IsAnswer, Astray
    <3>3. IsAnswer(LastOf(Real(branch))) => LastOf(Real(branch)).id \in dropped
      BY <1>3, <3>2, LastKept
    <3>4. TailIs(Append(branch, m), dropped, overflowTried)
      BY <1>3, <1>4, <2>2, <3>1, <3>3, TailAnswer
    <3> QED BY <1>3, <2>2, <3>4
  <2> QED BY <2>1, <2>2
<1>7. phase' \in {"pollEnd", "ending"} /\ IsAnswer(LastOf(messages')) =>
        LastOf(messages') = LastHeard'
  <2>1. LastOf(messages') = m
    BY <1>1, <1>3, LastOfAppend
  <2> QED BY <1>3, <2>1 DEF LastHeard, IsAnswer
<1> QED
  BY <1>4, <1>5, <1>6, <1>7 DEF Ends

LEMMA EmitEnds ==
  ASSUME IInv, Pairs, Agrees, Ends, Emit
  PROVE  Ends'
<1> USE DEF agent, calls, run, shown, retry, compact, marks, history
<1>1. /\ phase = "emit" /\ Emitted(Head(outbox))
      /\ phase' = (IF Len(outbox) = 1 THEN after ELSE "emit")
      /\ UNCHANGED <<branch, dropped, refused, pc, handlerFailed>>
  BY DEF Emit
<1>2. outbox \in Seq(Users) /\ outbox # <<>> /\ after \in {"poll", "request"}
  BY <1>1 DEF IInv, Types, Alone
<1>3. PICK m \in Users : m = Head(outbox)
  BY <1>2
<1>4. m \in Entries /\ m # None /\ NotSummary(m) /\ ~IsAnswer(m)
  BY NoneIs DEF Users, NotSummary, IsAnswer
<1>5. phase' \notin {"pollEnd", "ending"} /\ Emitted(m)
  BY <1>1, <1>2, <1>3
<1> QED
  BY <1>1, <1>4, <1>5, EmittedEnds

LEMMA AnswerEnds ==
  ASSUME IInv, Pairs, Agrees, Ends, Answer
  PROVE  Ends'
<1> USE DEF agent, calls, run, shown, retry, compact, marks, history
<1>1. /\ phase = "request" /\ overflowTried' = overflowTried
      /\ UNCHANGED <<branch, dropped, refused, pc, handlerFailed>>
  BY DEF Answer
<1>2. PICK kind \in (IF aborted THEN {"aborted", "abortedLarge"} ELSE Outcomes) :
        \E n \in (IF kind \in {"ok", "large"} THEN 0..MaxCalls ELSE {0}) :
          Emitted([New("assistant", kind) EXCEPT !.calls = n])
  BY DEF Answer
<1>3. PICK n \in (IF kind \in {"ok", "large"} THEN 0..MaxCalls ELSE {0}) :
        Emitted([New("assistant", kind) EXCEPT !.calls = n])
  BY <1>2
<1> DEFINE m == [New("assistant", kind) EXCEPT !.calls = n]
<1>4. kind \in Kinds /\ n \in Nat /\ drawn \in Nat
  BY AgentSessionBounds DEF Kinds, IInv, Types
<1>5. m \in Entries /\ m # None /\ m.role = "assistant" /\ m.id = drawn + 1
  BY <1>4, AnswerIs
<1>6. Emitted(m)
  BY <1>3
<1> HIDE DEF m
<1>7. NotSummary(m) /\ IsAnswer(m)
  BY <1>5 DEF NotSummary, IsAnswer
<1> QED
  BY <1>1, <1>5, <1>6, <1>7, EmittedEnds

LEMMA ToolResultEnds ==
  ASSUME IInv, Pairs, Agrees, Ends, ToolResult
  PROVE  Ends'
<1> USE DEF agent, calls, run, shown, retry, compact, marks, history
<1>1. /\ phase = "tool" /\ phase' = "tool" /\ Emitted(New("toolResult", "none"))
      /\ UNCHANGED <<branch, dropped, refused, pc, handlerFailed>>
  BY DEF ToolResult
<1> DEFINE m == New("toolResult", "none")
<1>2. m \in Entries /\ m # None /\ m.role = "toolResult"
  <2>1. "toolResult" \in Roles /\ "none" \in Kinds /\ drawn \in Nat
    BY DEF Roles, Kinds, IInv, Types
  <2> QED BY <2>1, NewIs
<1>3. Emitted(m)
  BY <1>1
<1> HIDE DEF m
<1>4. NotSummary(m) /\ ~IsAnswer(m)
  BY <1>2 DEF NotSummary, IsAnswer
<1> QED
  BY <1>1, <1>2, <1>3, <1>4, EmittedEnds

LEMMA BatchEndsEnds ==
  ASSUME IInv, Pairs, Agrees, Ends, BatchEnds
  PROVE  Ends'
<1> USE DEF agent, calls, run, shown, retry, compact, marks, history
<1>1. /\ phase = "tool" /\ results > 0
      /\ UNCHANGED <<branch, held, messages, dropped, overflowTried, lastAssistant>>
      /\ UNCHANGED <<refused, pc, crossed, handlerFailed>>
  BY DEF BatchEnds
<1>2. \A q \in Callers : Waits(q)'
  BY <1>1, RunWaits
<1>3. ~Astray => ~IsAnswer(LastOf(messages))
  BY <1>1 DEF IInv, Going, Begun, Unanswered, IsAnswer, Astray
<1>4. ~Astray /\ phase' \in {"pollEnd", "ending"} /\ IsAnswer(LastOf(messages)) =>
        phase \in {"pollEnd", "ending"}
  BY <1>3
<1>5. Astray => Astray'
  BY <1>1 DEF Astray
<1> QED
  BY <1>1, <1>2, <1>4, <1>5, StillEnds

\* After a failure of the handler nothing is claimed.
LEMMA FailsEnds ==
  ASSUME IInv, HandlerFails \/ Report \/ ReportFails
  PROVE  Ends'
<1>1. handlerFailed'
  <2>1. CASE HandlerFails
    BY <2>1 DEF HandlerFails
  <2>2. CASE ReportFails
    BY <2>2 DEF ReportFails
  <2>3. CASE Report
    <3>1. phase = "failing" /\ handlerFailed' = handlerFailed
      BY <2>3 DEF Report, marks
    <3> QED BY <3>1 DEF IInv, Alone
  <2> QED BY <2>1, <2>2, <2>3
<1> QED
  BY <1>1 DEF Ends, Astray

LEMMA HandleEnds ==
  ASSUME IInv, Pairs, Agrees, Ends, Handle
  PROVE  Ends'
<1> USE DEF agent, calls, run, shown, retry, compact, marks, history
<1>1. /\ held # None /\ held' = None /\ branch' = Append(branch, held)
      /\ UNCHANGED <<messages, dropped, crossed, handlerFailed, refused, pc, phase>>
      /\ IF held.role = "assistant"
           THEN /\ lastAssistant' = held
                /\ overflowTried' = (overflowTried /\ IsError(held))
           ELSE UNCHANGED <<lastAssistant, overflowTried>>
  BY DEF Handle
<1>2. SUFFICES ASSUME ~Astray PROVE Ends'
  BY <1>1 DEF Ends, Astray
<1>3. /\ Told = Append(branch, held) /\ Told' = Told
      /\ branch \in Seq(Entries) /\ held \in Entries /\ NotSummary(held)
  BY <1>1, ToldIs DEF Told
<1>4. phase # "none"
  BY <1>1 DEF IInv, Alone
<1>5. \A q \in Callers : Waits(q)'
  BY <1>1, <1>4, RunWaits
<1>6. TailIs(Told', dropped', overflowTried')
  <2>1. PICK tried : tried = overflowTried'
    OBVIOUS
  <2>2. overflowTried => tried \/ ~IsError(held)
    BY <1>1, <2>1
  <2>3. TailIs(Append(branch, held), dropped, overflowTried)
    BY <1>2, <1>3 DEF Ends
  <2>4. TailIs(Append(branch, held), dropped, tried)
    BY <1>3, <2>2, <2>3, TailAnswered
  <2> QED BY <1>1, <1>3, <2>1, <2>4
<1>7. LastHeard' = LastHeard
  BY <1>1, NoneIs DEF LastHeard
<1>8. refused.kind = "none" \/ MayRefuse(refused, Append(branch, held))
  BY <1>2, <1>3, MayRefuseAppend DEF Ends
<1> QED
  BY <1>1, <1>2, <1>5, <1>6, <1>7, <1>8 DEF Ends

LEMMA PollEnds ==
  ASSUME IInv, Pairs, Agrees, Ends, Poll
  PROVE  Ends'
<1> USE DEF agent, calls, run, shown, retry, compact, marks, history
<1>1. /\ phase \in {"poll", "pollEnd"}
      /\ UNCHANGED <<refused, pc, crossed, handlerFailed>>
      /\ UNCHANGED <<branch, held, messages, dropped, overflowTried, lastAssistant>>
  BY DEF Poll
<1>2. phase' \in {"pollEnd", "ending"} => phase = "pollEnd"
  BY <1>1 DEF Poll, Deliver
<1>3. \A q \in Callers : Waits(q)'
  BY <1>1, RunWaits
<1> QED
  BY <1>1, <1>2, <1>3, StillEnds DEF Astray
-----------------------------------------------------------------------------
(* The calls, and what comes from outside *)

LEMMA StillWaits ==
  ASSUME NEW q \in Callers, Waits(q), UNCHANGED <<messages, branch, overflowTried, local>>,
         pc'[q] = pc[q] \/ (pc[q] = "sleep" /\ pc'[q] = "cancelled"),
         pc'[q] = "continue" => UNCHANGED <<steering, followUps>>
  PROVE  Waits(q)'
BY DEF Waits, HasQueued

LEMMA WakeEnds ==
  ASSUME IInv, Ends, NEW p \in Callers, Wake(p)
  PROVE  Ends'
<1> USE DEF agent, calls, run, shown, retry, compact, marks, history
<1>1. /\ pc[p] = "sleep" /\ pc' = [pc EXCEPT ![p] = "continue"]
      /\ UNCHANGED <<branch, held, messages, dropped, overflowTried, lastAssistant,
                     refused, crossed, handlerFailed, phase>>
  BY DEF Wake, Goto
<1>2. Types /\ \A q \in Callers : q # p => pc[q] = "idle"
  BY <1>1, OnlyOne DEF IInv
<1>3. ASSUME ~Astray, NEW q \in Callers PROVE Waits(q)'
  <2>1. CASE q # p
    <3>1. pc'[q] = "idle"
      BY <1>1, <1>2, <2>1 DEF Types
    <3> QED BY <3>1 DEF Waits
  <2>2. CASE q = p
    <3>1. pc'[p] = "continue"
      BY <1>1, <1>2 DEF Types
    <3>2. ~IsAnswer(LastOf(messages'))
      BY <1>1, <1>3 DEF IInv, Going, Begun, Unanswered, IsAnswer, Astray
    <3> QED BY <2>2, <3>1, <3>2 DEF Waits
  <2> QED BY <2>1, <2>2
<1>4. ~Astray' => ~Astray
  BY <1>1 DEF Astray
<1> QED
  BY <1>1, <1>3, <1>4, StillEnds

\* A call begins a run, or throws.
LEMMA SendEnds ==
  ASSUME IInv, Pairs, Agrees, Ends, NEW p \in Callers, Send(p) \/ Continue(p)
  PROVE  Ends'
<1> USE DEF agent, calls, run, shown, retry, compact, marks, history
<1>1. /\ pc[p] \in {"ready", "continue"}
      /\ UNCHANGED <<held, crossed, handlerFailed, dropped, overflowTried, lastAssistant>>
  BY DEF Send, Continue
<1>2. /\ phase = "none" /\ held = None /\ Types /\ ~Active
      /\ messages \in Seq(Entries)
      /\ \A q \in Callers : q # p => pc[q] = "idle"
  BY <1>1, OnlyOne DEF IInv, Active, Pairs
<1>3. CASE /\ Throws(p, branch) /\ UNCHANGED <<steering, followUps, phase>>
           /\ refused' = refused \/ (~Astray => MayRefuse(refused', branch))
  <2>1. Leaves(p, messages) /\ pc'[p] = "idle"
    BY <1>2, <1>3, ThrowsLeaves DEF Throws, Goto, Types
  <2>2. dropped' = dropped \union Removed(messages)
    BY <1>1, <1>2, NothingRemoved
  <2>3. PICK v : v = "none"
    OBVIOUS
  <2>4. PICK msgs \in {messages, WithoutAnswer(messages)} : msgs = messages
    OBVIOUS
  <2>5. Decided(p, v, msgs)
    BY <1>1, <1>2, <2>1, <2>2, <2>3, <2>4 DEF Decided, Types
  <2> QED
    BY <1>1, <1>2, <1>3, <2>1, <2>3, <2>4, <2>5, DecidedEnds
<1>4. CASE /\ phase' \in {"emit", "poll", "request"} /\ pc' = [pc EXCEPT ![p] = "running"]
           /\ UNCHANGED <<messages, branch, refused>>
  <2>1. \A q \in Callers : pc'[q] \in {"idle", "running"}
    BY <1>2, <1>4 DEF Types
  <2>2. \A q \in Callers : Waits(q)'
    BY <2>1 DEF Waits
  <2> QED BY <1>1, <1>4, <2>2, StillEnds DEF Astray
<1>5. CASE Send(p)
  BY <1>2, <1>4, <1>5 DEF Send, StartRun, Goto
<1>6. CASE Continue(p)
  <2> DEFINE answered == LastOf(messages).role = "assistant"
  <2>1. CASE messages = <<>>
    <3>1. ~answered
      BY <2>1, NoneIs DEF LastOf
    <3> QED BY <1>2, <1>3, <1>6, <2>1, <3>1 DEF Continue
  <2>2. CASE messages # <<>> /\ answered /\ ~HasQueued
    <3>1. /\ Throws(p, branch) /\ UNCHANGED <<steering, followUps, phase>>
          /\ refused' = LastOf(messages)
      BY <1>2, <1>6, <2>2 DEF Continue, HasQueued
    <3>2. ~Astray => MayRefuse(LastOf(messages), branch)
      BY <1>6, <2>2 DEF Ends, Waits, IsAnswer, Continue
    <3> QED BY <1>3, <3>1, <3>2
  <2>3. CASE messages # <<>> /\ answered /\ steering # <<>>
    BY <1>2, <1>4, <1>6, <2>3 DEF Continue, StartRun, Goto, HasQueued
  <2>4. CASE messages # <<>> /\ answered /\ steering = <<>> /\ followUps # <<>>
    BY <1>2, <1>4, <1>6, <2>4 DEF Continue, StartRun, Goto, HasQueued
  <2>5. CASE messages # <<>> /\ ~answered
    BY <1>2, <1>4, <1>6, <2>5 DEF Continue, StartRun, Goto, HasQueued
  <2> QED BY <2>1, <2>2, <2>3, <2>4, <2>5 DEF HasQueued
<1> QED
  BY <1>5, <1>6

\* Nothing changes but the queues, and what is asked of the calls.
LEMMA AsksEnds ==
  ASSUME IInv, Ends,
         \/ Settled /\ (Queue \/ ClearQueue \/ Abort \/ CompactBegins)
         \/ CompactPrepares
  PROVE  Ends'
<1> USE DEF agent, calls, run, shown, retry, compact, marks, history
<1>1. /\ UNCHANGED <<branch, held, messages, dropped, overflowTried, lastAssistant,
                     refused, phase, local, handlerFailed>>
      /\ crossed => crossed'
  <2>1. CASE Queue \/ ClearQueue
    BY <2>1 DEF Queue, ClearQueue
  <2>2. CASE Abort
    BY <2>2 DEF Abort
  <2>3. CASE CompactBegins
    BY <2>3 DEF CompactBegins
  <2>4. CASE CompactPrepares
    BY <2>4 DEF CompactPrepares
  <2> QED BY <2>1, <2>2, <2>3, <2>4
<1>0. Astray => Astray'
  BY <1>1 DEF Astray
<1>2. ASSUME NEW q \in Callers
      PROVE  /\ pc'[q] = pc[q] \/ (pc[q] = "sleep" /\ pc'[q] = "cancelled")
             /\ pc'[q] = "continue" => UNCHANGED <<steering, followUps>>
  <2>1. CASE Settled /\ (Queue \/ ClearQueue)
    BY <2>1 DEF Settled, Queue, ClearQueue
  <2>2. CASE Abort \/ CompactBegins
    BY <2>2, AbortsIs DEF Abort, CompactBegins
  <2>3. CASE CompactPrepares
    BY <2>3 DEF CompactPrepares
  <2> QED BY <2>1, <2>2, <2>3
<1>3. ASSUME ~Astray', NEW q \in Callers PROVE Waits(q)'
  <2>1. Waits(q)
    BY <1>0, <1>3 DEF Ends
  <2> QED BY <1>1, <1>2, <2>1, StillWaits
<1> QED
  BY <1>0, <1>1, <1>3, StillEnds

LEMMA BashEnds ==
  ASSUME IInv, Pairs, Agrees, Ends, Settled, Bash
  PROVE  Ends'
<1> USE DEF agent, calls, run, shown, retry, compact, marks, history
<1> DEFINE m == New("bash", "none")
<1>1. /\ UNCHANGED <<phase, held, pc, local, crossed, dropped, refused, overflowTried,
                     lastAssistant, steering, followUps, handlerFailed>>
      /\ \/ Active /\ UNCHANGED <<messages, branch>>
         \/ /\ ~Active /\ messages' = Append(messages, m)
            /\ branch' = Append(branch, m)
  BY DEF Bash
<1>2. m \in Entries /\ m.role = "bash"
  BY NewIs DEF IInv, Types, Roles, Kinds
<1> HIDE DEF m
<1>3. CASE UNCHANGED <<messages, branch>>
  <2>1. ASSUME ~Astray', NEW q \in Callers PROVE Waits(q)'
    <3>1. Waits(q)
      BY <1>1, <2>1 DEF Ends, Astray
    <3> QED BY <1>1, <1>3, <3>1, StillWaits
  <2> QED BY <1>1, <1>3, <2>1, StillEnds DEF Astray
<1>4. CASE /\ ~Active /\ messages' = Append(messages, m)
           /\ branch' = Append(branch, m)
  <2>1. SUFFICES ASSUME ~Astray PROVE Ends'
    BY <1>1 DEF Ends, Astray
  <2>2. /\ phase = "none" /\ held = None /\ Told = branch
        /\ branch \in Seq(Entries) /\ messages \in Seq(Entries)
    BY <1>4, ToldIs DEF Active, IInv, Alone, Told
  <2>3. NotSummary(m) /\ ~IsAnswer(m)
    BY <1>2 DEF NotSummary, IsAnswer
  <2>4. TailIs(Append(branch, m), dropped, overflowTried) /\ MayGo(Append(branch, m))
    <3>1. DroppedAre(branch, dropped)
      BY <2>1, <2>2 DEF Ends, TailIs
    <3> QED BY <1>2, <2>2, <2>3, <3>1, TailOther
  <2>5. Told' = Append(branch, m) /\ ~IsAnswer(LastOf(messages'))
    <3>1. LastOf(Append(messages, m)) = m
      BY <1>2, <2>2, LastOfAppend
    <3> QED BY <1>1, <1>4, <2>2, <2>3, <3>1 DEF Told
  <2>6. ASSUME NEW q \in Callers PROVE Waits(q)'
    <3>1. Waits(q)
      BY <2>1 DEF Ends
    <3> QED BY <1>1, <1>4, <2>4, <2>5, <3>1 DEF Waits
  <2>7. refused.kind = "none" \/ MayRefuse(refused, Append(branch, m))
    BY <1>2, <2>1, <2>2, MayRefuseAppend DEF Ends
  <2> QED BY <1>1, <1>4, <2>2, <2>4, <2>5, <2>6, <2>7 DEF Ends
<1> QED
  BY <1>1, <1>3, <1>4

LEMMA PromptEnds ==
  ASSUME IInv, Pairs, Agrees, Ends, NEW p \in Callers, Prompt(p)
  PROVE  Ends'
<1> USE DEF agent, calls, run, shown, retry, compact, marks, history
<1> DEFINE flushed == messages \o pendingBash
           answers == {i \in DOMAIN flushed : flushed[i].role = "assistant"}
           last == IF answers = {} THEN None
                   ELSE flushed[CHOOSE i \in answers : \A j \in answers : j <= i]
<1>1. /\ Quiet /\ phase = "none" /\ messages' = flushed
      /\ branch' = branch \o pendingBash
      /\ \E place \in {"ready", "check"} : pc' = [pc EXCEPT ![p] = place]
      /\ \E text : local' = [local EXCEPT ![p] =
                               [NoLocals EXCEPT !.prompt = New("user", text),
                                                !.msg = last, !.pre = "check"]]
      /\ UNCHANGED <<phase, held, crossed, handlerFailed, dropped, refused,
                     overflowTried>>
  BY Zenon DEF Prompt, Goto, AtRest, Active
<1>2. SUFFICES ASSUME ~Astray PROVE Ends'
  BY <1>1 DEF Ends, Astray
<1>3. /\ held = None /\ Told = branch /\ Types
      /\ branch \in Seq(Entries) /\ messages \in Seq(Entries)
      /\ pendingBash \in Seq(Entries) /\ NoAnswers(pendingBash)
  BY <1>1, ToldIs, BashNoAnswers DEF IInv, Types, Alone, Buffers, Told
<1>4. TailIs(branch \o pendingBash, dropped, overflowTried)
  BY <1>2, <1>3, TailCat DEF Ends
<1>5. flushed \in Seq(Entries)
  BY <1>3
<1>6. local'[p].msg = last
  <2> HIDE DEF last
  <2>1. PICK text : local' = [local EXCEPT ![p] =
                                [NoLocals EXCEPT !.prompt = New("user", text),
                                                 !.msg = last, !.pre = "check"]]
    BY <1>1
  <2>2. [NoLocals EXCEPT !.prompt = New("user", text), !.msg = last,
                         !.pre = "check"].msg = last
    BY DEF NoLocals
  <2> QED BY <1>3, <2>1, <2>2 DEF Types, Locals
<1> HIDE DEF flushed
<1>7. IsAnswer(LastOf(flushed)) => last = LastOf(flushed)
  <2> SUFFICES ASSUME IsAnswer(LastOf(flushed)) PROVE last = LastOf(flushed)
    OBVIOUS
  <2>1. flushed # <<>>
    BY NoneIsNoAnswer DEF LastOf
  <2>2. LastOf(flushed) = flushed[Len(flushed)] /\ Len(flushed) \in Nat \ {0}
    BY <1>5, <2>1, LastIs
  <2>3. Len(flushed) \in answers /\ answers \subseteq 1..Len(flushed)
    BY <1>5, <2>2 DEF IsAnswer
  <2> HIDE DEF answers
  <2>4. \A j \in answers : j <= Len(flushed)
    BY <2>2, <2>3
  <2>5. PICK i : i = CHOOSE k \in answers : \A j \in answers : j <= k
    OBVIOUS
  <2>6. i \in answers /\ \A j \in answers : j <= i
    BY <2>3, <2>4, <2>5
  <2>7. i = Len(flushed)
    BY <2>2, <2>3, <2>6
  <2> QED BY <2>2, <2>3, <2>5, <2>7
<1> HIDE DEF last
<1>8. ASSUME NEW q \in Callers PROVE Waits(q)'
  <2>1. CASE q # p
    <3>1. pc'[q] = "idle"
      BY <1>1, <1>3, <2>1 DEF Types, Quiet
    <3> QED BY <3>1 DEF Waits
  <2>2. CASE q = p
    <3>1. pc'[p] \in {"ready", "check"}
      BY <1>1, <1>3 DEF Types
    <3> QED BY <1>1, <1>6, <1>7, <2>2, <3>1 DEF Waits
  <2> QED BY <2>1, <2>2
<1>9. refused.kind = "none" \/ MayRefuse(refused, branch \o pendingBash)
  BY <1>2, <1>3, MayRefuseMore DEF Ends
<1>10. Told' = branch'
  BY <1>1, <1>3 DEF Told
<1> QED
  BY <1>1, <1>4, <1>8, <1>9, <1>10 DEF Ends
-----------------------------------------------------------------------------
(* Compactions *)

LEMMA CompactEndsEnds ==
  ASSUME IInv, Pairs, Agrees, Ends, CompactEnds
  PROVE  Ends'
<1> USE DEF agent, calls, run, shown, retry, compact, marks, history
<1>1. /\ cpc = "compacting"
      /\ UNCHANGED <<held, crossed, handlerFailed, refused, phase, lastAssistant,
                     overflowTried, pc, local, steering, followUps>>
      /\ \/ /\ branch' = Append(branch, [New("summary", "manual") EXCEPT !.keep = ckeep])
            /\ dropped' = {}
         \/ UNCHANGED <<messages, branch, dropped>>
  BY DEF CompactEnds
<1>2. CASE UNCHANGED <<messages, branch, dropped>>
  <2>1. ASSUME ~Astray', NEW q \in Callers PROVE Waits(q)'
    <3>1. Waits(q)
      BY <1>1, <2>1 DEF Ends, Astray
    <3> QED BY <1>1, <1>2, <3>1, StillWaits
  <2> QED BY <1>1, <1>2, <2>1, StillEnds DEF Astray
<1>3. CASE /\ branch' = Append(branch, [New("summary", "manual") EXCEPT !.keep = ckeep])
           /\ dropped' = {}
  <2>1. SUFFICES ASSUME ~Astray PROVE Ends'
    BY <1>1 DEF Ends, Astray
  <2>2. Quiet /\ phase = "none" /\ held = None
    BY <1>1, <2>1 DEF IInv, Alone, Quiet, Astray
  <2>3. PICK e \in Entries : branch' = Append(branch, e) /\ ~NotSummary(e)
    <3>1. "manual" \in Kinds /\ ckeep \in Nat /\ Types
      BY DEF Kinds, IInv, Types
    <3> DEFINE n == [New("summary", "manual") EXCEPT !.keep = ckeep]
    <3>2. n \in Entries /\ n.role = "summary"
      BY <3>1, SummaryIs
    <3> HIDE DEF n
    <3>3. n \in Entries /\ ~NotSummary(n)
      BY <3>2 DEF NotSummary
    <3>4. branch' = Append(branch, n)
      BY <1>3 DEF n
    <3> QED BY <3>3, <3>4
  <2>4. branch \in Seq(Entries) /\ TailIs(branch, dropped, overflowTried)
    BY <2>1, <2>2, ToldIs DEF Ends, Told
  <2>5. PICK ids : ids = {}
    OBVIOUS
  <2>6. TailIs(Append(branch, e), ids, overflowTried)
    <3>1. DroppedAre(Append(branch, e), ids) /\ LastOf(Real(branch)).id \notin ids
      BY <2>5 DEF DroppedAre
    <3> QED BY <2>3, <2>4, <3>1, TailSummary
  <2>7. \A q \in Callers : Waits(q)'
    BY <1>1, <2>2 DEF Quiet, Waits
  <2>8. refused.kind = "none" \/ MayRefuse(refused, Append(branch, e))
    BY <2>1, <2>3, <2>4, MayRefuseAppend DEF Ends
  <2>9. Told' = Append(branch, e)
    BY <1>1, <2>2, <2>3 DEF Told
  <2> QED
    BY <1>1, <1>3, <2>2, <2>3, <2>5, <2>6, <2>7, <2>8, <2>9 DEF Ends
<1> QED
  BY <1>1, <1>2, <1>3

LEMMA PriorWithin ==
  ASSUME NEW b \in Seq(Entries), IsAnswer(Prior(Real(b)))
  PROVE  \E i \in 1..Len(b) : b[i] = Prior(Real(b))
<1> DEFINE S == Elements(b)
           all == {i \in 1..Len(b) : NotSummary(b[i])}
<1>1. Len(b) \in Nat /\ all \in SUBSET (1..Len(b)) /\ \A i \in all : b[i] \in S
  BY DEF Elements
<1> HIDE DEF all, S
<1>2. Picked(b, all) \in Seq(S)
  BY <1>1, PickedIs
<1>3. PICK r \in Seq(S) : r = Real(b)
  BY <1>2 DEF Real, all
<1>4. Len(r) >= 2 /\ Prior(r) = r[Len(r) - 1]
  BY <1>3, NoneIsNoAnswer DEF Prior
<1>5. Prior(r) \in S
  BY <1>4
<1> QED
  BY <1>3, <1>5 DEF Elements, S

\* What the answer at the end of a context that is made anew tells of the
\* answer before it.
LEMMA LeftAtEnd ==
  ASSUME NEW b \in Seq(Entries), NEW n \in Nat, Numbered(b, n), NEW ids, NEW tried,
         TailIs(b, ids, tried), MayGo(b), NEW e \in Entries, MayKeep(b, e.keep), Cut(b),
         e.role = "summary", e.kind = "overflow", e.id = n + 1,
         NEW c, c = Append(b, e), NEW context, context = ContextOf(c),
         NEW msgs,
         IF IsAnswer(LastOf(context)) /\ IsError(LastOf(context))
           THEN msgs = WithoutAnswer(context) ELSE msgs = context,
         IsAnswer(LastOf(msgs))
  PROVE  MayRefuse(LastOf(msgs), c)
<1> DEFINE r == Real(b)
<1>1. c \in Seq(Entries) /\ Cut(c) /\ Real(c) = r
  <2>1. ~NotSummary(e)
    BY DEF NotSummary
  <2> QED BY <2>1, CutAppend, RealAppend
<1>2. /\ context \in Seq(Entries) /\ LastOf(context) = LastOf(r)
      /\ IsAnswer(Prior(context)) => Prior(context) = Prior(r)
  BY <1>1, ContextEnds, ContextType
<1>3. r \in Seq(Entries)
  BY RealIs
<1> HIDE DEF r
<1>4. CASE ~(IsAnswer(LastOf(context)) /\ IsError(LastOf(context)))
  <2>1. LastOf(msgs) = LastOf(r) /\ ~IsError(LastOf(r))
    BY <1>2, <1>4
  <2>2. Relieved(LastOf(r))
    BY <2>1 DEF MayGo, r
  <2> QED BY <2>1, <2>2 DEF Relieved, IsError, MayRefuse
<1>5. CASE IsAnswer(LastOf(context)) /\ IsError(LastOf(context))
  <2>1. LastOf(msgs) = Prior(context)
    <3>1. msgs = SubSeq(context, 1, Len(context) - 1)
      BY <1>5 DEF WithoutAnswer, IsAnswer
    <3> QED BY <1>2, <3>1, LastOfShort
  <2>2. LastOf(msgs) = Prior(r)
    BY <1>2, <2>1
  <2>3. Relieved(Prior(r)) /\ Prior(r).kind # "overflow"
    BY <1>2, <1>5, <2>2 DEF MayGo, TailIs, Second, r
  <2>4. CASE Prior(r).kind = "silent"
    BY <2>2, <2>4 DEF MayRefuse
  <2>5. CASE Prior(r).kind = "retryable"
    <3>1. PICK i \in 1..Len(b) : b[i] = Prior(r)
      BY <2>2, PriorWithin DEF r
    <3>2. Prior(r).id <= n /\ Prior(r).id \in Nat
      <4>1. b[i].id <= n
        BY DEF Numbered
      <4>2. b[i] \in Entries
        OBVIOUS
      <4> QED BY <3>1, <4>1, <4>2 DEF Entries
    <3>3. /\ Len(b) + 1 \in DOMAIN c /\ c[Len(b) + 1] = e
      OBVIOUS
    <3>4. c[Len(b) + 1].id > Prior(r).id
      BY <3>2, <3>3
    <3> QED BY <2>2, <2>5, <3>3, <3>4 DEF MayRefuse
  <2> QED BY <2>3, <2>4, <2>5 DEF Relieved
<1> QED
  BY <1>4, <1>5

LEMMA AutoCompactedEnds ==
  ASSUME IInv, Pairs, Agrees, Ends, NEW p \in Callers, AutoCompacted(p)
  PROVE  Ends'
<1>1. /\ pc[p] = "compact" /\ phase = "none" /\ held = None /\ drawn' = drawn + 1
      /\ UNCHANGED <<steering, followUps, held, phase, crossed, handlerFailed,
                     overflowTried, refused>>
      /\ \A q \in Callers :
           pc'[q] \in (IF q = p THEN {"continue", "ready", "idle"} ELSE {"idle"})
  BY AutoCompactedIs
<1>2. SUFFICES ASSUME ~Astray PROVE Ends'
  BY <1>1 DEF Ends, Astray
<1>3. PICK e \in Entries, t \in {<<>>, pendingBash} :
        /\ e.role = "summary" /\ e.id = drawn + 1 /\ e.kind = local[p].reason
        /\ MayKeep(branch, e.keep) /\ branch' = Append(branch, e) \o t
        /\ pc'[p] = "continue" =>
             t = <<>> /\ (local[p].reason = "overflow" \/ HasQueued)
        /\ LET context == ContextOf(Append(branch, e))
           IN \E msgs \in {context, WithoutAnswer(context)} :
                /\ messages' = msgs \o t
                /\ dropped' =
                     {context[i].id : i \in (Len(msgs) + 1)..Len(context)}
                /\ IF /\ local[p].reason = "overflow"
                      /\ LastOf(context).role = "assistant"
                      /\ IsError(LastOf(context))
                     THEN msgs = WithoutAnswer(context) ELSE msgs = context
  BY AutoCompactedIs
<1>4. PICK c : c = Append(branch, e)
  OBVIOUS
<1>5. PICK context, over : /\ context = ContextOf(c)
                           /\ over = (local[p].reason = "overflow")
  OBVIOUS
<1>6. PICK msgs \in {context, WithoutAnswer(context)} :
        /\ messages' = msgs \o t /\ dropped' = Gone(msgs, context)
        /\ IF over /\ IsAnswer(LastOf(context)) /\ IsError(LastOf(context))
             THEN msgs = WithoutAnswer(context) ELSE msgs = context
  BY <1>3, <1>4, <1>5 DEF Gone, IsAnswer
<1>7. /\ Told = branch /\ branch \in Seq(Entries) /\ Cut(branch) /\ drawn \in Nat
      /\ Numbered(branch, drawn) /\ TailIs(branch, dropped, overflowTried)
      /\ AllBash(pendingBash) /\ overflowTried \in BOOLEAN
  BY <1>1, <1>2, Rests DEF Ends, Types
<1>8. over => overflowTried /\ MayGo(branch)
  BY <1>1, <1>2, <1>5 DEF Ends, Waits
<1>9. ~NotSummary(e) /\ ~IsAnswer(e)
  BY <1>3 DEF NotSummary, IsAnswer
<1>10. /\ c \in Seq(Entries) /\ Cut(c) /\ Real(c) = Real(branch)
       /\ context \in Seq(Entries) /\ LastOf(context) = LastOf(Real(branch))
  <2>1. c \in Seq(Entries) /\ Cut(c) /\ Real(c) = Real(branch)
    BY <1>3, <1>4, <1>7, <1>9, CutAppend, RealAppend
  <2> QED BY <1>5, <2>1, ContextType, ContextEnds
<1>11. PICK ids : ids = Gone(msgs, context)
  OBVIOUS
<1>12. \/ ids = {}
       \/ /\ over /\ IsAnswer(LastOf(context)) /\ ids = {LastOf(context).id}
  <2>1. CASE msgs = context
    <3>1. (Len(context) + 1)..Len(context) = {}
      BY <1>10
    <3> QED BY <1>11, <2>1, <3>1 DEF Gone
  <2>2. CASE over /\ IsAnswer(LastOf(context)) /\ msgs = WithoutAnswer(context)
    <3>1. msgs = SubSeq(context, 1, Len(context) - 1) /\ context # <<>>
      BY <2>2, NoneIsNoAnswer DEF WithoutAnswer, IsAnswer, LastOf
    <3>2. LastOf(context) = context[Len(context)] /\ Len(context) \in Nat \ {0}
      BY <1>10, <3>1, LastIs
    <3>3. (Len(msgs) + 1)..Len(context) = {Len(context)}
      BY <1>10, <3>1, ShorterByOne
    <3> QED BY <1>11, <2>2, <3>2, <3>3 DEF Gone
  <2> QED BY <1>6, <2>1, <2>2
<1>13. TailIs(c, ids, overflowTried)
  <2>1. DroppedAre(c, ids)
    <3>1. CASE ids = {}
      BY <3>1 DEF DroppedAre
    <3>2. CASE over /\ IsAnswer(LastOf(context)) /\ ids = {LastOf(context).id}
      <4>1. PICK x : x = LastOf(Real(branch)) /\ IsAnswer(x) /\ ids = {x.id}
        BY <1>10, <3>2
      <4>2. Relieved(x)
        BY <1>8, <3>2, <4>1 DEF MayGo
      <4>3. PICK j \in 1..Len(branch) : branch[j] = x
        BY <1>7, <4>1, RealWithin
      <4>4. \A i \in 1..Len(branch) : IsAnswer(branch[i]) /\ branch[i].id = x.id =>
                                       branch[i] = x
        BY <1>7, <4>1, <4>3 DEF Numbered, IsAnswer
      <4>5. \A i \in 1..Len(c) : IsAnswer(c[i]) =>
              i \in 1..Len(branch) /\ c[i] = branch[i]
        BY <1>4, <1>7, <1>9
      <4> QED BY <4>1, <4>2, <4>4, <4>5 DEF DroppedAre
    <3> QED BY <1>12, <3>1, <3>2
  <2>2. IsAnswer(LastOf(Real(branch))) /\ LastOf(Real(branch)).id \in ids
          => overflowTried
    BY <1>8, <1>12
  <2> QED BY <1>4, <1>7, <1>9, <2>1, <2>2, TailSummary
<1>14. t \in Seq(Entries) /\ NoAnswers(t)
  <2>1. AllBash(<<>>)
    BY DEF AllBash
  <2>2. AllBash(t)
    BY <1>7, <2>1
  <2> QED BY <2>2, BashNoAnswers DEF AllBash
<1>15. TailIs(c \o t, ids, overflowTried)
  BY <1>10, <1>13, <1>14, TailCat
<1>16. Told' = c \o t /\ branch' = c \o t
  BY <1>1, <1>3, <1>4 DEF Told
<1>17. ASSUME NEW q \in Callers PROVE Waits(q)'
  <2>1. CASE q # p
    <3>1. pc'[q] = "idle"
      BY <1>1, <2>1
    <3> QED BY <3>1 DEF Waits
  <2>2. ASSUME q = p, pc'[p] = "continue", ~HasQueued', IsAnswer(LastOf(messages'))
        PROVE  MayRefuse(LastOf(messages'), branch')
    <3>1. t = <<>> /\ over /\ e.kind = "overflow"
      BY <1>1, <1>3, <1>5, <2>2 DEF HasQueued
    <3>2. msgs \in Seq(Entries)
      <4>1. WithoutAnswer(context) \in Seq(Entries)
        BY <1>10 DEF WithoutAnswer
      <4> QED BY <1>6, <1>10, <4>1
    <3>3. messages' = msgs /\ branch' = c
      BY <1>6, <1>10, <1>16, <3>1, <3>2, NothingFollows
    <3>4. MayRefuse(LastOf(msgs), c)
      BY <1>3, <1>4, <1>5, <1>6, <1>7, <1>8, <2>2, <3>1, <3>3, LeftAtEnd
    <3> QED BY <3>3, <3>4
  <2> QED BY <1>1, <2>1, <2>2 DEF Waits
<1>18. refused.kind = "none" \/ MayRefuse(refused, c \o t)
  <2>1. refused.kind = "none" \/ MayRefuse(refused, c)
    BY <1>2, <1>4, <1>7, MayRefuseAppend DEF Ends
  <2> QED BY <1>10, <1>14, <2>1, MayRefuseMore
<1> QED
  BY <1>1, <1>6, <1>11, <1>15, <1>16, <1>17, <1>18 DEF Ends

LEMMA InitEnds == Init => Ends
<1> SUFFICES ASSUME Init PROVE Ends
  OBVIOUS
<1>1. /\ Told = <<>> /\ dropped = {} /\ refused = None /\ phase = "none"
      /\ pc = [p \in Callers |-> "idle"]
  BY DEF Told, Init
<1>2. \A q \in Callers : Waits(q)
  BY <1>1 DEF Waits
<1>3. LastOf(Real(<<>>)) = None
  <2>0. <<>> \in Seq(Entries) /\ Len(<<>>) = 0
    OBVIOUS
  <2>1. PICK s \in Seq(Entries) : s = <<>> /\ Len(s) = 0
    BY <2>0
  <2>2. {i \in 1..Len(s) : NotSummary(s[i])} = 1..Len(s)
    BY <2>1
  <2>3. Picked(s, 1..Len(s)) = s
    BY PickedAll
  <2>4. Real(s) = s
    BY <2>2, <2>3 DEF Real
  <2> QED BY <2>1, <2>4 DEF LastOf
<1>4. TailIs(<<>>, {}, overflowTried)
  BY <1>3, NoneIsNoAnswer DEF TailIs, DroppedAre, Second
<1> QED
  BY <1>1, <1>2, <1>4, NoneIs DEF Ends

LEMMA NextEnds == IInv /\ Pairs /\ Agrees /\ Ends /\ [Next]_vars => Ends'
<1> SUFFICES ASSUME IInv, Pairs, Agrees, Ends, [Next]_vars PROVE Ends'
  OBVIOUS
<1>1. CASE Loop
  BY <1>1, EmitEnds, HandleEnds, PollEnds, AnswerEnds, ToolResultEnds, BatchEndsEnds,
     EndRunEnds, FailsEnds DEF Loop
<1>2. ASSUME NEW p \in Callers, Step(p) \/ Prompt(p)
      PROVE  Ends'
  BY <1>2, CheckEnds, SendEnds, WakeEnds, AutoCompactedEnds, PromptEnds DEF Step
<1>3. CASE Settled /\ (Queue \/ ClearQueue \/ Bash \/ Abort \/ CompactBegins)
  BY <1>3, AsksEnds, BashEnds
<1>4. CASE Compact
  BY <1>4, AsksEnds, CompactEndsEnds DEF Compact
<1>5. CASE UNCHANGED vars
  <2>1. /\ UNCHANGED <<messages, branch, held, dropped, crossed, phase, lastAssistant>>
        /\ UNCHANGED <<overflowTried, refused, pc, local, steering, followUps,
                       handlerFailed>>
    BY <1>5 DEF vars, agent, run, retry, history, marks
  <2>2. ASSUME ~Astray', NEW q \in Callers PROVE Waits(q)'
    <3>1. Waits(q)
      BY <2>1, <2>2 DEF Ends, Astray
    <3> QED BY <2>1, <3>1, StillWaits
  <2> QED BY <2>1, <2>2, StillEnds DEF Astray
<1> QED
  BY <1>1, <1>2, <1>3, <1>4, <1>5 DEF Next, Rest

\* continue() refuses only an answer that showed the overflow without an error,
\* and a failed answer of an earlier retry that a compaction for an overflow
\* brought back, however retries, compactions and what is queued follow one
\* another (_handlePostAgentRun, _checkCompaction, _runAutoCompaction).
THEOREM ContinueIsAccepted == Spec => []ContinueAccepted
<1>1. Init => IInv /\ Pairs /\ Agrees /\ Ends
  BY InitIs, InitPairs, InitAgrees, InitEnds
<1>2. IInv /\ Pairs /\ Agrees /\ Ends /\ [Next]_vars => (IInv /\ Pairs /\ Agrees /\ Ends)'
  BY NextKeeps, NextPairs, NextAgrees, NextEnds
<1>3. Ends => ContinueAccepted
  BY DEF Ends, MayRefuse, ContinueAccepted, Astray
<1> QED
  BY <1>1, <1>2, <1>3, PTL DEF Spec
=============================================================================
