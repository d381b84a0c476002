----------------------- MODULE StreamAndFileProofs -----------------------
(***************************************************************************)
(* Theorems about EventStream, for any number of iterators and events,     *)
(* about FileMutationQueue, for any number of calls and paths, and about   *)
(* SessionManager, for any bounds.                                         *)
(*                                                                         *)
(* Of the stream: the queue always holds the newest events without a gap,  *)
(* so what left it is 1..HandedOut, and an event is handed to a waiter     *)
(* only when the queue is empty, which makes it the next one to leave.     *)
(*                                                                         *)
(* Of the mutations: calls of one key form a list in the order of their    *)
(* registration.  Each call waits for the one before it in that list or    *)
(* for none if all of those were done, and the map's entry is the end of   *)
(* the list as long as that call is not done.  Hence whoever starts finds  *)
(* every earlier call of its key done.                                     *)
(*                                                                         *)
(* Of the sessions: ids are drawn in order, so the lines of every file     *)
(* that can be read, and the entries in the memory, are a tree in which    *)
(* parents come first.  A write that tore leaves a last line that is not   *)
(* acknowledged, and counts as a loss at once; what is appended to it      *)
(* spoils it and is the loss instead.  A file is written anew only with    *)
(* all that is acknowledged, or when nothing of that is read from it.      *)
(* In such a tree the path to an appended entry is the path to its parent  *)
(* with it at the end, and the path to the end of a chain is the chain:    *)
(* what a compaction, a rewrite of an old file or a fork does to what the  *)
(* model sees follows from what it does to these paths.                    *)
(***************************************************************************)
EXTENDS EventStream, FileMutationQueue, SessionManager, TLAPS, FiniteSetTheorems,
        WellFoundedInduction

-----------------------------------------------------------------------------
(* EventStream *)

HandedOut == sent - Len(queue)

\* The queue is a run of consecutive numbers that ends with `sent`.
QueueInv ==
  /\ Len(queue) <= sent
  /\ \A i \in 1..Len(queue) : queue[i] = HandedOut + i

\* Waiters are distinct, their consumers wait, and they wait for an event.
WaitingInv ==
  /\ queue # <<>> => waiting = <<>>
  /\ \A i \in 1..Len(waiting) : at[waiting[i]] = "waiting"
  /\ \A i, j \in 1..Len(waiting) : waiting[i] = waiting[j] => i = j

\* The result comes from the event that completed the stream.
ResultInv ==
  /\ ~done => result = Unresolved
  /\ ResultIsLast

\* What was handed out reached a consumer, each consumer's newest event last.
HandedInv ==
  /\ \A c \in InHand : hand[c] \in 1..HandedOut /\ last[c] < hand[c]
  /\ \A c \in Consumers : last[c] <= HandedOut /\ taken[c] \subseteq 1..last[c]
  /\ \A e \in 1..HandedOut :
       \/ \E c \in InHand : hand[c] = e
       \/ \E c \in Consumers : e \in taken[c]

\* No two consumers have the same event.
UniqueInv ==
  \A c, d \in Consumers : c # d =>
    /\ taken[c] \intersect taken[d] = {}
    /\ c \in InHand => hand[c] \notin taken[d]
    /\ c \in InHand /\ d \in InHand => hand[c] # hand[d]

IInv ==
  /\ TypeOK
  /\ QueueInv /\ WaitingInv /\ ResultInv /\ HandedInv /\ UniqueInv

-----------------------------------------------------------------------------
(* What a step does, in the words of the invariants *)

\* An event is handed to a waiter.
Handed(c) ==
  /\ queue = <<>> /\ queue' = <<>>
  /\ c \in Consumers /\ at[c] = "waiting"
  /\ c = Head(waiting) /\ waiting # <<>> /\ waiting' = Tail(waiting)
  /\ at' = [at EXCEPT ![c] = "woken"]
  /\ hand' = [hand EXCEPT ![c] = sent']

\* An event is queued.
Stored ==
  /\ waiting = <<>>
  /\ queue' = Append(queue, sent')
  /\ UNCHANGED <<waiting, at, hand>>

LEMMA HandOverCases ==
  ASSUME TypeOK, QueueInv, WaitingInv, Push \/ PushComplete
  PROVE  /\ sent < MaxEvents /\ sent' = sent + 1
         /\ UNCHANGED <<last, taken, ended>>
         /\ Stored \/ \E c \in Consumers : Handed(c)
<1>1. /\ sent < MaxEvents /\ sent' = sent + 1
      /\ UNCHANGED <<last, taken, ended>>
      /\ HandOver(sent')
  BY DEF Push, PushComplete
<1>2. CASE waiting = <<>>
  BY <1>1, <1>2 DEF HandOver, Stored
<1>3. CASE waiting # <<>>
  <2>1. Head(waiting) = waiting[1] /\ 1 \in 1..Len(waiting)
    BY <1>3 DEF TypeOK
  <2>2. Head(waiting) \in Consumers
    BY <1>3 DEF TypeOK
  <2>3. at[Head(waiting)] = "waiting"
    BY <2>1 DEF WaitingInv
  <2>4. queue = <<>>
    BY <1>3 DEF WaitingInv
  <2>5. Handed(Head(waiting))
    BY <1>1, <1>3, <2>2, <2>3, <2>4 DEF HandOver, Wake, Handed
  <2>. QED
    BY <1>1, <2>2, <2>5
<1>. QED
  BY <1>2, <1>3

\* Every variable keeps its type.
LEMMA TypeStep ==
  ASSUME TypeOK, QueueInv, WaitingInv, [Next]_vars
  PROVE  TypeOK'
<1>. USE EventsAssumption
<1>1. CASE Push \/ PushComplete
  <2>1. /\ sent' \in 1..MaxEvents /\ last' = last /\ taken' = taken
        /\ ended' = ended
    BY <1>1, HandOverCases DEF TypeOK
  <2>2. done' \in BOOLEAN /\ result' \in Nat
    <3>1. done' = done \/ done' = TRUE
      BY <1>1 DEF Push, PushComplete
    <3>2. result' = result \/ result' = sent'
      BY <1>1 DEF Push, PushComplete, Resolve
    <3>3. done' \in BOOLEAN
      BY <3>1, Zenon DEF TypeOK
    <3>4. result' \in Nat
      BY <2>1, <3>2 DEF TypeOK
    <3>. QED
      BY <3>3, <3>4
  <2>3. CASE Stored
    BY <2>1, <2>2, <2>3 DEF Stored, TypeOK
  <2>4. ASSUME NEW c \in Consumers, Handed(c)  PROVE TypeOK'
    <3>1. /\ queue' \in Seq(1..MaxEvents) /\ waiting' \in Seq(Consumers)
      BY <2>4 DEF Handed, TypeOK
    <3>2. at' \in [Consumers -> Places]
      BY <2>4 DEF Handed, TypeOK, Places
    <3>3. hand' \in [Consumers -> 0..(MaxEvents + 1)]
      BY <2>1, <2>4 DEF Handed, TypeOK
    <3>. QED
      BY <2>1, <2>2, <3>1, <3>2, <3>3 DEF TypeOK
  <2>. QED
    BY <1>1, <2>3, <2>4, HandOverCases
<1>2. CASE End
  BY <1>2 DEF End, Resolve, Given, EndOfStream, TypeOK, Places
<1>3. ASSUME NEW c \in Consumers, TakeQueued(c)  PROVE TypeOK'
  BY <1>3 DEF TakeQueued, Yield, TypeOK, Places
<1>4. ASSUME NEW c \in Consumers, Wait(c)  PROVE TypeOK'
  BY <1>4 DEF Wait, TypeOK, Places
<1>5. ASSUME NEW c \in Consumers, Resume(c)  PROVE TypeOK'
  BY <1>5 DEF Resume, Yield, EndOfStream, Nothing, streamVars, TypeOK, Places
<1>6. ASSUME NEW c \in Consumers, Return(c) \/ Leave(c)  PROVE TypeOK'
  <2>1. /\ at' = [at EXCEPT ![c] = "returned"]
        /\ hand' = hand \/ hand' = [hand EXCEPT ![c] = 0]
        /\ UNCHANGED <<streamVars, last, taken, sent, ended>>
    BY <1>6 DEF Return, Leave, Nothing
  <2>. QED
    BY <2>1 DEF streamVars, TypeOK, Places
<1>7. CASE UNCHANGED vars
  BY <1>7 DEF vars, streamVars, consumerVars, TypeOK
<1>. QED
  BY <1>1, <1>2, <1>3, <1>4, <1>5, <1>6, <1>7 DEF Next, Consume

LEMMA QueueStep ==
  ASSUME TypeOK, QueueInv, WaitingInv, [Next]_vars
  PROVE  QueueInv'
<1>1. CASE Push \/ PushComplete
  <2>1. /\ sent' = sent + 1 /\ sent' \in 1..MaxEvents
        /\ Stored \/ (queue = <<>> /\ queue' = <<>>)
    <3>1. ASSUME NEW c \in Consumers, Handed(c)
          PROVE  queue = <<>> /\ queue' = <<>>
      BY <3>1 DEF Handed
    <3>2. sent' = sent + 1 /\ sent' \in 1..MaxEvents
      BY <1>1, HandOverCases, EventsAssumption DEF TypeOK
    <3>. QED
      BY <1>1, <3>1, <3>2, HandOverCases
  <2>2. CASE Stored
    <3>1. /\ Len(queue') = Len(queue) + 1 /\ queue'[Len(queue) + 1] = sent'
          /\ \A i \in 1..Len(queue) : queue'[i] = queue[i]
          /\ Len(queue) \in Nat
      BY <2>1, <2>2 DEF Stored, TypeOK
    <3>2. HandedOut' = HandedOut /\ sent' = HandedOut + Len(queue) + 1
      BY <2>1, <3>1 DEF HandedOut, TypeOK
    <3>3. \A i \in 1..Len(queue') : queue'[i] = HandedOut + i
      <4>1. \A i \in 1..Len(queue') : i \in 1..Len(queue) \/ i = Len(queue) + 1
        BY <3>1
      <4>2. HandedOut + (Len(queue) + 1) = sent'
        BY <3>1, <3>2 DEF HandedOut, TypeOK
      <4>. QED
        BY <3>1, <4>1, <4>2 DEF QueueInv
    <3>4. Len(queue') <= sent'
      BY <2>1, <3>1 DEF QueueInv, TypeOK
    <3>. QED
      BY <3>2, <3>3, <3>4 DEF QueueInv
  <2>3. CASE queue = <<>> /\ queue' = <<>>
    BY <2>1, <2>3 DEF QueueInv, HandedOut, TypeOK
  <2>. QED
    BY <2>1, <2>2, <2>3
<1>2. ASSUME NEW c \in Consumers, TakeQueued(c)  PROVE QueueInv'
  <2>1. queue # <<>> /\ queue' = Tail(queue) /\ sent' = sent
    BY <1>2 DEF TakeQueued
  <2>2. /\ Len(queue') = Len(queue) - 1
        /\ \A i \in 1..Len(queue') : queue'[i] = queue[i + 1]
    BY <2>1 DEF TypeOK
  <2>. QED
    BY <2>1, <2>2 DEF QueueInv, HandedOut, TypeOK
<1>3. CASE UNCHANGED <<queue, sent>>
  BY <1>3 DEF QueueInv, HandedOut
<1>. QED
  BY <1>1, <1>2, <1>3 DEF Next, Consume, End, Wait, Resume, Return, Leave,
       vars, streamVars

LEMMA WaitingStep ==
  ASSUME TypeOK, QueueInv, WaitingInv, [Next]_vars
  PROVE  WaitingInv'
<1>1. waiting \in Seq(Consumers) /\ at \in [Consumers -> Places]
  BY DEF TypeOK
<1>2. CASE Push \/ PushComplete
  <2>1. CASE Stored
    BY <2>1 DEF Stored, WaitingInv, TypeOK
  <2>2. ASSUME NEW c \in Consumers, Handed(c)  PROVE WaitingInv'
    <3>1. /\ Len(waiting') = Len(waiting) - 1
          /\ \A i \in 1..Len(waiting') : waiting'[i] = waiting[i + 1]
          /\ Len(waiting) \in Nat
      BY <2>2 DEF Handed, TypeOK
    <3>2. c = waiting[1] /\ 1 \in 1..Len(waiting)
      BY <2>2 DEF Handed, TypeOK
    <3>3. \A i \in 1..Len(waiting') :
            /\ i + 1 \in 1..Len(waiting)
            /\ waiting'[i] # c
      BY <3>1, <3>2 DEF WaitingInv
    <3>4. \A i \in 1..Len(waiting') : at'[waiting'[i]] = "waiting"
      BY <2>2, <3>1, <3>3 DEF Handed, WaitingInv, TypeOK
    <3>5. \A i, j \in 1..Len(waiting') : waiting'[i] = waiting'[j] => i = j
      BY <3>1, <3>3 DEF WaitingInv
    <3>. QED
      BY <2>2, <3>4, <3>5 DEF Handed, WaitingInv
  <2>. QED
    BY <1>2, <2>1, <2>2, HandOverCases
<1>3. CASE End
  BY <1>3 DEF End, WaitingInv
<1>4. ASSUME NEW c \in Consumers, Wait(c)  PROVE WaitingInv'
  <2>1. /\ at[c] = "asking" /\ queue' = <<>>
        /\ at' = [at EXCEPT ![c] = "waiting"]
        /\ waiting' = Append(waiting, c)
    BY <1>4 DEF Wait
  <2>2. \A i \in 1..Len(waiting) : waiting[i] # c
    BY <2>1 DEF WaitingInv
  <2>3. \A i \in 1..Len(waiting') :
          \/ i \in 1..Len(waiting) /\ waiting'[i] = waiting[i]
          \/ i = Len(waiting) + 1 /\ waiting'[i] = c
    <3>1. PICK w : w = waiting'
      OBVIOUS
    <3>2. w = Append(waiting, c)
      BY <2>1, <3>1
    <3>3. \A i \in 1..Len(w) : \/ i \in 1..Len(waiting) /\ w[i] = waiting[i]
                               \/ i = Len(waiting) + 1 /\ w[i] = c
      BY <1>1, <3>2
    <3>. QED
      BY <3>1, <3>3
  <2>4. \A i \in 1..Len(waiting') : at'[waiting'[i]] = "waiting"
    <3>1. \A i \in 1..Len(waiting) :
            at[waiting[i]] = "waiting" /\ waiting[i] \in Consumers
      <4>1. \A i \in 1..Len(waiting) : waiting[i] \in Consumers
        BY <1>1
      <4>. QED
        BY <4>1 DEF WaitingInv
    <3>2. at'[c] = "waiting" /\ \A d \in Consumers \ {c} : at'[d] = at[d]
      BY <1>1, <2>1
    <3>. QED
      BY <2>2, <2>3, <3>1, <3>2
  <2>5. \A i, j \in 1..Len(waiting') : waiting'[i] = waiting'[j] => i = j
    BY <2>2, <2>3 DEF WaitingInv
  <2>. QED
    BY <2>1, <2>4, <2>5 DEF WaitingInv
<1>5. ASSUME NEW c \in Consumers,
             TakeQueued(c) \/ Resume(c) \/ Return(c) \/ Leave(c)
      PROVE  WaitingInv'
  <2>1. /\ at[c] # "waiting" /\ waiting' = waiting
        /\ \A d \in Consumers : d # c => at'[d] = at[d]
        /\ queue' # <<>> => queue # <<>>
    BY <1>5 DEF TakeQueued, Resume, Return, Leave, Yield, streamVars, TypeOK
  <2>2. \A i \in 1..Len(waiting) : waiting[i] # c /\ waiting[i] \in Consumers
    <3>1. \A i \in 1..Len(waiting) : waiting[i] \in Consumers
      BY <1>1
    <3>. QED
      BY <2>1, <3>1 DEF WaitingInv
  <2>. QED
    BY <2>1, <2>2 DEF WaitingInv
<1>6. CASE UNCHANGED vars
  BY <1>6 DEF vars, streamVars, consumerVars, WaitingInv
<1>. QED
  BY <1>2, <1>3, <1>4, <1>5, <1>6 DEF Next, Consume

LEMMA ResultStep ==
  ASSUME TypeOK, ResultInv, [Next]_vars
  PROVE  ResultInv'
<1>. USE EventsAssumption DEF ResultInv, ResultIsLast, Unresolved, Given
<1>1. CASE Push
  <2>1. ~done /\ done' = done /\ result' = result
    BY <1>1 DEF Push
  <2>. QED
    BY <2>1
<1>2. CASE PushComplete
  <2>1. ~done /\ done' = TRUE /\ result' = IF result = 0 THEN sent' ELSE result
    BY <1>2 DEF PushComplete, Resolve
  <2>. QED
    BY <2>1
<1>3. CASE End
  <2>1. /\ done' = TRUE /\ sent' = sent
        /\ result' \in {result, MaxEvents + 1}
    BY <1>3 DEF End, Resolve
  <2>. QED
    BY <2>1
<1>4. CASE UNCHANGED <<done, result, sent>>
  BY <1>4
<1>. QED
  BY <1>1, <1>2, <1>3, <1>4 DEF Next, Consume, TakeQueued, Wait, Resume,
       Return, Leave, vars, streamVars

\* Handing out.
LEMMA HandedStep ==
  ASSUME TypeOK, QueueInv, WaitingInv, HandedInv, UniqueInv, [Next]_vars
  PROVE  HandedInv' /\ UniqueInv'
<1>. DEFINE H == HandedOut
<1>1. H \in Nat
  BY DEF HandedOut, TypeOK, QueueInv
<1>2. CASE Push \/ PushComplete
  <2>1. /\ sent' = sent + 1 /\ sent' \in 1..MaxEvents
        /\ last' = last /\ taken' = taken
    BY <1>2, HandOverCases, EventsAssumption DEF TypeOK
  <2>2. CASE Stored
    <3>1. HandedOut' = HandedOut /\ InHand' = InHand /\ hand' = hand
      BY <2>1, <2>2, EventsAssumption DEF Stored, HandedOut, InHand, TypeOK
    <3>. QED
      BY <2>1, <3>1 DEF HandedInv, UniqueInv
  <2>3. ASSUME NEW c \in Consumers, Handed(c)  PROVE HandedInv' /\ UniqueInv'
    <3>1. HandedOut' = H + 1 /\ sent' = H + 1
      BY <2>1, <2>3 DEF Handed, HandedOut, TypeOK
    <3>2. /\ c \notin InHand /\ InHand' = InHand \union {c}
          /\ hand'[c] = H + 1
          /\ \A d \in Consumers : d # c => hand'[d] = hand[d]
      <4>1. /\ at[c] = "waiting" /\ at'[c] = "woken"
            /\ hand'[c] = H + 1 /\ H + 1 # EndOfStream
        BY <2>1, <2>3, <3>1, EventsAssumption
           DEF Handed, EndOfStream, TypeOK
      <4>2. \A d \in Consumers :
              d # c => hand'[d] = hand[d] /\ at'[d] = at[d]
        BY <2>3 DEF Handed, TypeOK
      <4>. QED
        BY <4>1, <4>2 DEF InHand, EndOfStream
    <3>3. \A d \in Consumers : taken[d] \subseteq 1..H
      BY <1>1 DEF HandedInv, TypeOK
    <3>4. HandedInv'
      <4>1. \A d \in InHand' : hand'[d] \in 1..(H + 1) /\ last[d] < hand'[d]
        <5>1. last[c] <= H /\ \A d \in Consumers : last[d] \in Nat
          BY DEF HandedInv, TypeOK
        <5>2. \A d \in InHand :
                d \in Consumers /\ hand[d] \in 1..H /\ last[d] < hand[d]
          BY DEF HandedInv, InHand
        <5>3. \A d \in InHand' : d = c \/ (d \in InHand /\ d # c)
          BY <3>2
        <5>. QED
          BY <1>1, <3>2, <5>1, <5>2, <5>3
      <4>2. \A d \in Consumers : /\ last[d] <= H + 1
                                  /\ taken[d] \subseteq 1..last[d]
        BY <1>1 DEF HandedInv, TypeOK
      <4>3. \A e \in 1..(H + 1) : \/ \E d \in InHand' : hand'[d] = e
                                  \/ \E d \in Consumers : e \in taken[d]
        <5>1. \A e \in 1..(H + 1) : e \in 1..H \/ e = H + 1
          BY <1>1
        <5>2. \A d \in InHand : d # c /\ d \in Consumers
          BY <3>2 DEF InHand
        <5>. QED
          BY <3>2, <5>1, <5>2 DEF HandedInv
      <4>. QED
        BY <2>1, <3>1, <4>1, <4>2, <4>3 DEF HandedInv
    <3>5. UniqueInv'
      <4>1. \A d \in Consumers : H + 1 \notin taken[d]
        BY <1>1, <3>3
      <4>2. \A d \in InHand : hand[d] # H + 1
        BY <1>1 DEF HandedInv
      <4>. QED
        BY <2>1, <3>2, <4>1, <4>2 DEF UniqueInv
    <3>. QED
      BY <3>4, <3>5
  <2>. QED
    BY <1>2, <2>2, <2>3, HandOverCases
<1>3. CASE End
  <2>1. UNCHANGED <<queue, last, taken, sent>>
    BY <1>3 DEF End
  <2>2. InHand' = InHand /\ \A c \in InHand : hand'[c] = hand[c]
    BY <1>3 DEF End, InHand, TypeOK
  <2>. QED
    BY <2>1, <2>2 DEF HandedInv, UniqueInv, HandedOut
<1>4. ASSUME NEW c \in Consumers, TakeQueued(c)
      PROVE  HandedInv' /\ UniqueInv'
  <2>1. /\ Head(queue) = H + 1 /\ HandedOut' = H + 1
    <3>1. queue # <<>> /\ queue' = Tail(queue) /\ sent' = sent
      BY <1>4 DEF TakeQueued
    <3>2. /\ Head(queue) = queue[1] /\ 1 \in 1..Len(queue)
          /\ Len(queue') = Len(queue) - 1
      BY <3>1 DEF TypeOK
    <3>. QED
      BY <3>1, <3>2 DEF QueueInv, HandedOut, TypeOK
  <2>2. /\ at[c] = "asking" /\ at' = [at EXCEPT ![c] = "asking"]
        /\ last' = [last EXCEPT ![c] = H + 1]
        /\ taken' = [taken EXCEPT ![c] = @ \union {H + 1}]
        /\ hand' = hand
    BY <1>4, <2>1 DEF TakeQueued, Yield
  <2>3. InHand' = InHand /\ c \notin InHand
    BY <2>2 DEF InHand, TypeOK
  <2>4. \A d \in Consumers : taken[d] \subseteq 1..H
    BY <1>1 DEF HandedInv, TypeOK
  <2>5. HandedInv'
    <3>1. \A d \in InHand' : hand'[d] \in 1..(H + 1) /\ last'[d] < hand'[d]
      BY <1>1, <2>2, <2>3 DEF HandedInv, TypeOK, InHand
    <3>2. \A d \in Consumers :
            last'[d] <= H + 1 /\ taken'[d] \subseteq 1..last'[d]
      BY <1>1, <2>2, <2>4 DEF HandedInv, TypeOK
    <3>3. \A e \in 1..(H + 1) : \/ \E d \in InHand' : hand'[d] = e
                                \/ \E d \in Consumers : e \in taken'[d]
      <4>1. \A e \in 1..(H + 1) : e \in 1..H \/ e = H + 1
        BY <1>1
      <4>2. \A d \in Consumers : taken[d] \subseteq taken'[d]
        BY <2>2 DEF TypeOK
      <4>3. H + 1 \in taken'[c]
        BY <2>2 DEF TypeOK
      <4>. QED
        BY <2>2, <2>3, <4>1, <4>2, <4>3 DEF HandedInv
    <3>. QED
      BY <2>1, <3>1, <3>2, <3>3 DEF HandedInv
  <2>6. UniqueInv'
    <3>1. \A d \in Consumers : H + 1 \notin taken[d]
      BY <1>1, <2>4
    <3>2. \A d \in InHand : hand[d] # H + 1
      BY <1>1 DEF HandedInv
    <3>3. \A d \in Consumers :
            taken'[d] = IF d = c THEN taken[d] \union {H + 1} ELSE taken[d]
      BY <2>2 DEF TypeOK
    <3>. QED
      BY <2>2, <2>3, <3>1, <3>2, <3>3 DEF UniqueInv
  <2>. QED
    BY <2>5, <2>6
<1>5. ASSUME NEW c \in Consumers, Wait(c)  PROVE HandedInv' /\ UniqueInv'
  <2>1. UNCHANGED <<queue, hand, last, taken, sent>>
    BY <1>5 DEF Wait
  <2>2. InHand' = InHand
    BY <1>5 DEF Wait, InHand, TypeOK
  <2>. QED
    BY <2>1, <2>2 DEF HandedInv, UniqueInv, HandedOut
<1>6. ASSUME NEW c \in Consumers, Resume(c)  PROVE HandedInv' /\ UniqueInv'
  <2>1. /\ c \in InHand /\ at' = [at EXCEPT ![c] = "asking"]
        /\ last' = [last EXCEPT ![c] = hand[c]]
        /\ taken' = [taken EXCEPT ![c] = @ \union {hand[c]}]
        /\ hand' = [hand EXCEPT ![c] = 0]
        /\ HandedOut' = H
    BY <1>6 DEF Resume, Yield, InHand, Nothing, streamVars, HandedOut
  <2>2. /\ InHand' = InHand \ {c}
        /\ \A d \in Consumers : d # c =>
             hand'[d] = hand[d] /\ last'[d] = last[d] /\ taken'[d] = taken[d]
        /\ last'[c] = hand[c] /\ taken'[c] = taken[c] \union {hand[c]}
    BY <2>1 DEF InHand, TypeOK
  <2>3. hand[c] \in 1..H /\ last[c] < hand[c]
    BY <2>1 DEF HandedInv
  <2>4. HandedInv'
    <3>1. \A d \in InHand' : hand'[d] \in 1..H /\ last'[d] < hand'[d]
      BY <2>2 DEF HandedInv, InHand
    <3>2. \A d \in Consumers : last'[d] <= H /\ taken'[d] \subseteq 1..last'[d]
      <4>1. taken[c] \subseteq 1..last[c] /\ last[c] \in Nat
        BY DEF HandedInv, TypeOK
      <4>2. last'[c] <= H /\ taken'[c] \subseteq 1..last'[c]
        BY <1>1, <2>2, <2>3, <4>1
      <4>. QED
        BY <2>2, <4>2 DEF HandedInv
    <3>3. \A e \in 1..H : \/ \E d \in InHand' : hand'[d] = e
                          \/ \E d \in Consumers : e \in taken'[d]
      <4>1. \A d \in Consumers : taken[d] \subseteq taken'[d]
        BY <2>2
      <4>2. \A d \in InHand : d = c \/ (d \in InHand' /\ hand'[d] = hand[d])
        <5>1. InHand \subseteq Consumers
          BY DEF InHand
        <5>. QED
          BY <2>2, <5>1
      <4>3. hand[c] \in taken'[c]
        BY <2>2
      <4>. QED
        BY <4>1, <4>2, <4>3 DEF HandedInv
    <3>. QED
      BY <2>1, <3>1, <3>2, <3>3 DEF HandedInv
  <2>5. UniqueInv'
    <3>1. \A d \in Consumers : d # c => hand[c] \notin taken[d]
      BY <2>1 DEF UniqueInv
    <3>2. \A d \in InHand' : d # c /\ d \in InHand /\ hand'[d] = hand[d]
      BY <2>2 DEF InHand
    <3>3. \A d \in InHand : d # c => hand[d] # hand[c]
      BY <2>1 DEF UniqueInv, InHand
    <3>. QED
      BY <2>2, <3>1, <3>2, <3>3 DEF UniqueInv
  <2>. QED
    BY <2>4, <2>5
<1>7. ASSUME NEW c \in Consumers, Return(c) \/ Leave(c)
      PROVE  HandedInv' /\ UniqueInv'
  <2>1. UNCHANGED <<queue, last, taken, sent>>
    BY <1>7 DEF Return, Leave, streamVars
  <2>2. InHand' = InHand /\ \A d \in InHand : hand'[d] = hand[d]
    BY <1>7 DEF Return, Leave, InHand, TypeOK
  <2>. QED
    BY <2>1, <2>2 DEF HandedInv, UniqueInv, HandedOut
<1>8. CASE UNCHANGED vars
  BY <1>8 DEF vars, streamVars, consumerVars, HandedInv, UniqueInv, HandedOut,
       InHand
<1>. QED
  BY <1>2, <1>3, <1>4, <1>5, <1>6, <1>7, <1>8 DEF Next, Consume

LEMMA Initially == Init => IInv
<1> SUFFICES ASSUME Init PROVE IInv
  OBVIOUS
<1>. USE EventsAssumption
<1>1. TypeOK
  <2>1. done \in BOOLEAN /\ ended \in BOOLEAN
    BY Zenon DEF Init
  <2>2. queue \in Seq(1..MaxEvents) /\ waiting \in Seq(Consumers)
    BY DEF Init
  <2>3. at \in [Consumers -> Places]
    BY DEF Init, Places
  <2>. QED
    BY <2>1, <2>2, <2>3 DEF Init, TypeOK, Unresolved, Nothing
<1>2. InHand = {}
  <2>1. \A c \in Consumers : at[c] # "woken"
    BY Zenon DEF Init
  <2>. QED
    BY <2>1, Zenon DEF InHand
<1>3. /\ sent = 0 /\ queue = <<>> /\ waiting = <<>> /\ result = 0
      /\ \A c \in Consumers : last[c] = 0 /\ taken[c] = {}
  BY DEF Init, Unresolved
<1>4. HandedOut = 0
  <2>1. Len(queue) = 0 /\ sent = 0
    BY <1>3
  <2>. QED
    BY <2>1 DEF HandedOut
<1>5. QueueInv /\ WaitingInv /\ ResultInv
  BY <1>3, <1>4 DEF QueueInv, WaitingInv, ResultInv, ResultIsLast, Unresolved
<1>6. HandedInv /\ UniqueInv
  BY <1>2, <1>3, <1>4 DEF HandedInv, UniqueInv
<1>. QED
  BY <1>1, <1>5, <1>6 DEF IInv

LEMMA Invariance == Spec => []IInv
<1>1. Init => IInv
  BY Initially
<1>2. IInv /\ [Next]_vars => IInv'
  BY TypeStep, QueueStep, WaitingStep, ResultStep, HandedStep DEF IInv
<1>. QED
  BY <1>1, <1>2, PTL DEF Spec

\* The event the final result is extracted from is the last one of the stream.
THEOREM ResultComesLast == Spec => []ResultIsLast
<1>1. IInv => ResultIsLast
  BY DEF IInv, ResultInv
<1>. QED
  BY <1>1, Invariance, PTL

\* Every event reaches exactly one iterator, or is still on its way, however
\* pushes, waiters and takes interleave (push and the async iterator).
THEOREM NoneLostOrRepeated == Spec => []ExactlyOnce
<1>1. IInv => ExactlyOnce
  <2> SUFFICES ASSUME IInv PROVE ExactlyOnce
    OBVIOUS
  <2>. USE DEF IInv
  <2>0. /\ HandedOut \in Nat /\ Len(queue) \in Nat
        /\ sent = HandedOut + Len(queue)
    BY DEF HandedOut, TypeOK, QueueInv
  <2>1. Queued = (HandedOut + 1)..sent
    <3>1. \A i \in 1..Len(queue) : queue[i] \in (HandedOut + 1)..sent
      BY <2>0 DEF QueueInv
    <3>2. \A e \in (HandedOut + 1)..sent :
            e - HandedOut \in 1..Len(queue) /\ queue[e - HandedOut] = e
      BY <2>0 DEF QueueInv
    <3>. QED
      BY <3>1, <3>2 DEF Queued
  <2>2. \A c \in Consumers : taken[c] \subseteq 1..HandedOut
    BY <2>0 DEF HandedInv, TypeOK
  <2>3. \A c \in InHand : c \in Consumers /\ hand[c] \in 1..HandedOut
    BY DEF HandedInv, InHand
  <2>4. 1..sent = Queued \union {hand[c] : c \in InHand}
                    \union UNION {taken[c] : c \in Consumers}
    <3>1. 1..sent = 1..HandedOut \union Queued
      BY <2>0, <2>1
    <3>2. {hand[c] : c \in InHand} \union UNION {taken[c] : c \in Consumers}
            = 1..HandedOut
      BY <2>2, <2>3 DEF HandedInv
    <3>. QED
      BY <3>1, <3>2
  <2>5. \A e \in 1..HandedOut : e \notin Queued
    BY <2>0, <2>1
  <2>6. \A c \in InHand : hand[c] \notin taken[c]
    BY <2>0, <2>3 DEF HandedInv, TypeOK
  <2>. QED
    BY <2>2, <2>3, <2>4, <2>5, <2>6 DEF ExactlyOnce, WaitingInv, UniqueInv
<1>. QED
  BY <1>1, Invariance, PTL

\* No iterator ever sees an older event after a newer one.
THEOREM SeenInOrder == Spec => []InOrder
<1>1. IInv => InOrder
  <2> SUFFICES ASSUME IInv PROVE InOrder
    OBVIOUS
  <2>1. HandedOut \in Nat /\ \A c \in Consumers : last[c] \in Nat
    BY DEF IInv, HandedOut, TypeOK, QueueInv
  <2>2. \A i \in 1..Len(queue) : queue[i] = HandedOut + i /\ i \in Nat
    BY DEF IInv, QueueInv
  <2>3. \A c \in Consumers : last[c] <= HandedOut
    BY DEF IInv, HandedInv
  <2>4. \A c \in InHand : hand[c] \in 1..HandedOut /\ last[c] < hand[c]
    BY DEF IInv, HandedInv
  <2>. QED
    BY <2>1, <2>2, <2>3, <2>4 DEF InOrder
<1>. QED
  BY <1>1, Invariance, PTL

\* Whatever the order of pushes, waiters and late wake-ups, every event is
\* delivered once and in order, and the result is that of the last.
THEOREM DeliveryHolds == Spec => []Delivery
BY NoneLostOrRepeated, SeenInOrder, ResultComesLast, PTL DEF Delivery

-----------------------------------------------------------------------------
(* FileMutationQueue *)

Queueing == {"registered", "running", "done"}

\* The registration in progress is the oldest one of the chain.
ChainInv ==
  \A o \in Ops : pc[o] \in {"resolving", "resolved"} =>
    chain # <<>> /\ o = Head(chain)

\* `order` lists every registered call once.
OrderInv ==
  /\ \A i, j \in 1..Len(order) : order[i] = order[j] => i = j
  /\ \A o \in Ops : pc[o] \in Queueing <=>
                      \E i \in 1..Len(order) : order[i] = o

\* q is the newest registered call with key k.
Newest(k, q) ==
  \E i \in 1..Len(order) :
    /\ order[i] = q /\ key[q] = k
    /\ \A j \in (i + 1)..Len(order) : key[order[j]] # k

\* The entry of the map.
TailInv ==
  \A k \in Paths :
    IF queues[k] = NoOp
      THEN \A i \in 1..Len(order) :
             key[order[i]] = k => pc[order[i]] = "done"
      ELSE Newest(k, queues[k]) /\ pc[queues[k]] \in InQueue

\* What a registered call waits for.
BeforeInv ==
  \A j \in 1..Len(order) :
    pc[order[j]] = "registered" =>
      IF before[order[j]] = NoOp
        THEN \A i \in 1..(j - 1) :
               key[order[i]] = key[order[j]] => pc[order[i]] = "done"
        ELSE \E i \in 1..(j - 1) :
               /\ order[i] = before[order[j]]
               /\ key[order[i]] = key[order[j]]
               /\ \A m \in (i + 1)..(j - 1) :
                    key[order[m]] # key[order[j]]

MutationsInv ==
  /\ MutationsTypeOK
  /\ ChainInv /\ OrderInv /\ TailInv /\ BeforeInv /\ FirstComeFirstServed

LEMMA MutationsTypeStep ==
  ASSUME MutationsTypeOK, ChainInv, [MutationsNext]_mutationsVars
  PROVE  MutationsTypeOK'
<1>. USE PathsAssumption, ChangesAssumption DEF MutationsTypeOK, States, Moved
<1>1. ASSUME NEW o \in Ops, Call(o)  PROVE MutationsTypeOK'
  BY <1>1 DEF Call
<1>2. ASSUME NEW o \in Ops, CallsRealpath(o) \/ Start(o)  PROVE MutationsTypeOK'
  BY <1>2 DEF CallsRealpath, Start
<1>3. ASSUME NEW o \in Ops, RealpathAnswers(o)  PROVE MutationsTypeOK'
  <2>1. Resolved(path[o]) \in Paths
    BY DEF Resolved
  <2>. QED
    BY <1>3, <2>1 DEF RealpathAnswers
<1>4. ASSUME NEW o \in Ops, RealpathThrows(o)  PROVE MutationsTypeOK'
  BY <1>4 DEF RealpathThrows, ChainInv
<1>5. ASSUME NEW o \in Ops, Register(o)  PROVE MutationsTypeOK'
  <2>1. chain # <<>>
    BY <1>5 DEF Register, ChainInv
  <2>. QED
    BY <1>5, <2>1 DEF Register
<1>6. ASSUME NEW o \in Ops, Create(o)  PROVE MutationsTypeOK'
  BY <1>6 DEF Create
<1>7. ASSUME NEW o \in Ops, Finish(o)  PROVE MutationsTypeOK'
  <2>1. queues' \in [Paths -> Ops \union {NoOp}]
    BY <1>7 DEF Finish
  <2>. QED
    BY <1>7, <2>1 DEF Finish
<1>8. CASE FileChanges
  <2>1. exists' \subseteq Paths
    BY <1>8 DEF FileChanges, Files
  <2>. QED
    BY <1>8, <2>1 DEF FileChanges
<1>9. CASE UNCHANGED mutationsVars
  BY <1>9 DEF mutationsVars
<1>. QED
  BY <1>1, <1>2, <1>3, <1>4, <1>5, <1>6, <1>7, <1>8, <1>9 DEF MutationsNext, Step

LEMMA ChainStep ==
  ASSUME MutationsTypeOK, ChainInv, [MutationsNext]_mutationsVars
  PROVE  ChainInv'
<1>. USE DEF MutationsTypeOK, ChainInv, Moved
<1>1. ASSUME NEW o \in Ops, Call(o)  PROVE ChainInv'
  <2>1. chain # <<>> => chain' # <<>> /\ Head(chain') = Head(chain)
    BY <1>1 DEF Call
  <2>. QED
    BY <1>1, <2>1 DEF Call
<1>2. ASSUME NEW o \in Ops,
             CallsRealpath(o) \/ RealpathAnswers(o) \/ Start(o) \/ Create(o)
               \/ Finish(o)
      PROVE  ChainInv'
  BY <1>2 DEF CallsRealpath, RealpathAnswers, Start, Create, Finish
<1>3. ASSUME NEW o \in Ops, RealpathThrows(o) \/ Register(o)  PROVE ChainInv'
  <2>1. \A p \in Ops : pc'[p] \notin {"resolving", "resolved"}
    BY <1>3 DEF RealpathThrows, Register
  <2>. QED
    BY <2>1
<1>4. CASE FileChanges
  BY <1>4 DEF FileChanges
<1>5. CASE UNCHANGED mutationsVars
  BY <1>5 DEF mutationsVars
<1>. QED
  BY <1>1, <1>2, <1>3, <1>4, <1>5 DEF MutationsNext, Step

\* Registration: the new call is the last of the list of its key.
LEMMA RegisterStep ==
  ASSUME MutationsInv, NEW o \in Ops, Register(o)
  PROVE  (OrderInv /\ TailInv /\ BeforeInv /\ FirstComeFirstServed)'
<1>. DEFINE n == Len(order)
<1>1. /\ n \in Nat /\ Len(order') = n + 1 /\ order'[n + 1] = o
      /\ \A i \in 1..n : order'[i] = order[i] /\ order[i] \in Ops
  BY DEF Register, MutationsInv, MutationsTypeOK
<1>2. /\ pc[o] = "resolved" /\ pc'[o] = "registered"
      /\ \A p \in Ops : p # o => pc'[p] = pc[p] /\ before'[p] = before[p]
      /\ key' = key /\ before'[o] = queues[key[o]]
      /\ queues'[key[o]] = o
      /\ \A k \in Paths : k # key[o] => queues'[k] = queues[k]
  BY DEF Register, Moved, MutationsInv, MutationsTypeOK
<1>3. \A i \in 1..n : order[i] # o
  BY <1>2 DEF MutationsInv, OrderInv, Queueing
<1>4. \A i \in 1..(n + 1) : i \in 1..n \/ i = n + 1
  BY <1>1
<1>5. \A i \in 1..n : pc'[order[i]] = pc[order[i]]
  BY <1>1, <1>2, <1>3
<1>. HIDE DEF n
<1>6. OrderInv'
  <2>1. \A i, j \in 1..(n + 1) : order'[i] = order'[j] => i = j
    BY <1>1, <1>3, <1>4 DEF MutationsInv, OrderInv, n
  <2>2. \A p \in Ops : pc'[p] \in Queueing <=>
                         \E i \in 1..(n + 1) : order'[i] = p
    <3>1. ASSUME NEW p \in Ops, p # o
          PROVE  pc'[p] \in Queueing <=> \E i \in 1..(n + 1) : order'[i] = p
      <4>1. pc[p] \in Queueing <=> \E i \in 1..n : order[i] = p
        BY DEF MutationsInv, OrderInv, n
      <4>. QED
        BY <1>1, <1>2, <1>4, <3>1, <4>1
    <3>2. pc'[o] \in Queueing /\ \E i \in 1..(n + 1) : order'[i] = o
      BY <1>1, <1>2 DEF Queueing
    <3>. QED
      BY <3>1, <3>2
  <2>. QED
    BY <1>1, <2>1, <2>2 DEF OrderInv
<1>7. TailInv'
  <2> SUFFICES ASSUME NEW k \in Paths
               PROVE  IF queues'[k] = NoOp
                        THEN \A i \in 1..(n + 1) :
                               key[order'[i]] = k => pc'[order'[i]] = "done"
                        ELSE /\ Newest(k, queues[k])'
                             /\ pc'[queues'[k]] \in InQueue
    BY <1>1, <1>2 DEF TailInv
  <2>1. CASE k = key[o]
    <3>1. Newest(k, queues[k])'
      BY <1>1, <1>2, <2>1 DEF Newest
    <3>. QED
      BY <1>2, <2>1, <3>1, OpsAssumption DEF InQueue
  <2>2. CASE k # key[o] /\ queues[k] = NoOp
    BY <1>1, <1>2, <1>4, <1>5, <2>2 DEF MutationsInv, TailInv, n
  <2>3. CASE k # key[o] /\ queues[k] # NoOp
    <3>1. Newest(k, queues[k]) /\ pc[queues[k]] \in InQueue
      BY <2>3 DEF MutationsInv, TailInv
    <3>2. PICK i \in 1..n :
            /\ order[i] = queues[k] /\ key[queues[k]] = k
            /\ \A j \in (i + 1)..n : key[order[j]] # k
      BY <3>1 DEF Newest, n
    <3>3. \A j \in (i + 1)..(n + 1) : key[order'[j]] # k
      <4>1. \A j \in (i + 1)..(n + 1) : j \in (i + 1)..n \/ j = n + 1
        BY <1>1
      <4>2. \A j \in (i + 1)..n : order'[j] = order[j]
        BY <1>1
      <4>. QED
        BY <1>1, <2>3, <3>2, <4>1, <4>2
    <3>4. Newest(k, queues[k])'
      BY <1>1, <1>2, <2>3, <3>2, <3>3 DEF Newest
    <3>. QED
      BY <1>1, <1>2, <1>5, <2>3, <3>1, <3>2, <3>4
  <2>. QED
    BY <2>1, <2>2, <2>3
<1>8. BeforeInv'
  <2>1. ASSUME NEW j \in 1..n, pc'[order'[j]] = "registered"
        PROVE  /\ order'[j] = order[j] /\ pc[order[j]] = "registered"
               /\ before'[order'[j]] = before[order[j]]
               /\ \A i \in 1..j : /\ order'[i] = order[i]
                                  /\ pc'[order'[i]] = pc[order[i]]
    <3>1. \A i \in 1..j : i \in 1..n
      BY <1>1
    <3>. QED
      BY <1>1, <1>2, <1>3, <1>5, <2>1, <3>1
  <2>2. ASSUME NEW j \in 1..n, pc'[order'[j]] = "registered"
        PROVE  IF before'[order'[j]] = NoOp
                 THEN \A i \in 1..(j - 1) : key[order'[i]] = key[order'[j]]
                        => pc'[order'[i]] = "done"
                 ELSE \E i \in 1..(j - 1) :
                        /\ order'[i] = before'[order'[j]]
                        /\ key[order'[i]] = key[order'[j]]
                        /\ \A m \in (i + 1)..(j - 1) :
                             key[order'[m]] # key[order'[j]]
    <3>1. \A i \in 1..(j - 1) :
            i \in 1..j /\ \A m \in (i + 1)..(j - 1) : m \in 1..j
      BY <1>1
    <3>2. /\ order'[j] = order[j] /\ pc[order[j]] = "registered"
          /\ before'[order'[j]] = before[order[j]]
          /\ \A i \in 1..j : /\ order'[i] = order[i]
                             /\ pc'[order'[i]] = pc[order[i]]
      BY <2>1, <2>2
    <3>3. CASE before[order[j]] = NoOp
      <4>1. \A i \in 1..(j - 1) :
              key[order[i]] = key[order[j]] => pc[order[i]] = "done"
        BY <3>2, <3>3 DEF MutationsInv, BeforeInv, n
      <4>. QED
        BY <3>1, <3>2, <3>3, <4>1
    <3>4. CASE before[order[j]] # NoOp
      <4>1. PICK i \in 1..(j - 1) :
              /\ order[i] = before[order[j]]
              /\ key[order[i]] = key[order[j]]
              /\ \A m \in (i + 1)..(j - 1) : key[order[m]] # key[order[j]]
        BY <3>2, <3>4 DEF MutationsInv, BeforeInv, n
      <4>2. /\ order'[i] = before'[order'[j]]
            /\ key[order'[i]] = key[order'[j]]
        BY <3>1, <3>2, <4>1
      <4>3. \A m \in (i + 1)..(j - 1) : key[order'[m]] # key[order'[j]]
        BY <3>1, <3>2, <4>1
      <4>. QED
        BY <3>2, <3>4, <4>2, <4>3
    <3>. QED
      BY <3>3, <3>4
  <2>3. IF queues[key[o]] = NoOp
          THEN \A i \in 1..n : key[order[i]] = key[o] => pc[order[i]] = "done"
          ELSE \E i \in 1..n :
                 /\ order[i] = queues[key[o]]
                 /\ key[order[i]] = key[o]
                 /\ \A m \in (i + 1)..n : key[order[m]] # key[o]
    <3>1. key[o] \in Paths
      BY DEF MutationsInv, MutationsTypeOK
    <3>. QED
      BY <3>1 DEF MutationsInv, TailInv, Newest, n
  <2>4. IF before'[o] = NoOp
          THEN \A i \in 1..n : key[order'[i]] = key[o]
                                 => pc'[order'[i]] = "done"
          ELSE \E i \in 1..n :
                 /\ order'[i] = before'[o]
                 /\ key[order'[i]] = key[o]
                 /\ \A m \in (i + 1)..n : key[order'[m]] # key[o]
    <3>1. \A i \in 1..n : \A m \in (i + 1)..n : m \in 1..n
      BY <1>1
    <3>. QED
      BY <1>1, <1>2, <1>5, <2>3, <3>1
  <2>5. n + 1 - 1 = n
    BY <1>1
  <2>. QED
    BY <1>1, <1>2, <1>4, <2>2, <2>4, <2>5 DEF BeforeInv
<1>9. FirstComeFirstServed'
  <2>1. ASSUME NEW i \in 1..(n + 1), NEW j \in 1..(n + 1), i < j,
               key[order'[i]] = key[order'[j]],
               pc'[order'[j]] \in {"running", "done"}
        PROVE  pc'[order'[i]] = "done"
    <3>1. j # n + 1
      BY <1>1, <1>2, <2>1
    <3>2. i \in 1..n /\ j \in 1..n
      BY <1>1, <2>1, <3>1
    <3>. QED
      BY <1>1, <1>5, <2>1, <3>2 DEF MutationsInv, FirstComeFirstServed, n
  <2>. QED
    BY <1>1, <1>2, <2>1 DEF FirstComeFirstServed
<1>. QED
  BY <1>6, <1>7, <1>8, <1>9

\* A step that leaves `order` alone and takes no call to, or from, the queues.
LEMMA OutsideStep ==
  ASSUME MutationsInv, UNCHANGED <<order, before, queues>>,
         \A o \in Ops : /\ pc'[o] \in Queueing <=> pc[o] \in Queueing
                        /\ pc[o] \in Queueing =>
                             pc'[o] = pc[o] /\ key'[o] = key[o]
  PROVE  (OrderInv /\ TailInv /\ BeforeInv /\ FirstComeFirstServed)'
<1>1. \A i \in 1..Len(order) :
        /\ order[i] \in Ops /\ pc[order[i]] \in Queueing
        /\ pc'[order[i]] = pc[order[i]] /\ key'[order[i]] = key[order[i]]
  BY DEF MutationsInv, OrderInv, MutationsTypeOK
<1>2. OrderInv'
  BY DEF MutationsInv, OrderInv
<1>3. TailInv'
  <2> SUFFICES ASSUME NEW k \in Paths
               PROVE  IF queues[k] = NoOp
                        THEN \A i \in 1..Len(order) :
                               key'[order[i]] = k => pc'[order[i]] = "done"
                        ELSE /\ Newest(k, queues[k])'
                             /\ pc'[queues[k]] \in InQueue
    BY DEF TailInv
  <2>1. CASE queues[k] = NoOp
    BY <1>1, <2>1 DEF MutationsInv, TailInv
  <2>2. CASE queues[k] # NoOp
    <3>1. Newest(k, queues[k]) /\ pc[queues[k]] \in InQueue
      BY <2>2 DEF MutationsInv, TailInv
    <3>2. PICK i \in 1..Len(order) :
            /\ order[i] = queues[k] /\ key[queues[k]] = k
            /\ \A j \in (i + 1)..Len(order) : key[order[j]] # k
      BY <3>1 DEF Newest
    <3>3. \A j \in (i + 1)..Len(order) : j \in 1..Len(order)
      BY DEF MutationsInv, MutationsTypeOK
    <3>. QED
      BY <1>1, <2>2, <3>1, <3>2, <3>3 DEF Newest
  <2>. QED
    BY <2>1, <2>2
<1>4. BeforeInv'
  <2>1. \A j \in 1..Len(order) : \A i \in 1..(j - 1) :
          /\ i \in 1..Len(order)
          /\ \A m \in (i + 1)..(j - 1) : m \in 1..Len(order)
    BY DEF MutationsInv, MutationsTypeOK
  <2>2. BeforeInv /\ order' = order /\ before' = before
    BY DEF MutationsInv
  <2>3. ASSUME NEW j \in 1..Len(order), pc'[order[j]] = "registered"
        PROVE  IF before[order[j]] = NoOp
                 THEN \A i \in 1..(j - 1) :
                        key'[order[i]] = key'[order[j]] => pc'[order[i]] = "done"
                 ELSE \E i \in 1..(j - 1) :
                        /\ order[i] = before[order[j]]
                        /\ key'[order[i]] = key'[order[j]]
                        /\ \A m \in (i + 1)..(j - 1) : key'[order[m]] # key'[order[j]]
    <3>1. pc[order[j]] = "registered" /\ key'[order[j]] = key[order[j]]
      BY <1>1, <2>3
    <3>2. CASE before[order[j]] = NoOp
      BY <1>1, <2>1, <2>2, <3>1, <3>2 DEF BeforeInv
    <3>3. CASE before[order[j]] # NoOp
      <4>1. PICK i \in 1..(j - 1) :
              /\ order[i] = before[order[j]] /\ key[order[i]] = key[order[j]]
              /\ \A m \in (i + 1)..(j - 1) : key[order[m]] # key[order[j]]
        BY <2>2, <3>1, <3>3 DEF BeforeInv
      <4> QED BY <1>1, <2>1, <3>1, <3>3, <4>1
    <3> QED BY <3>2, <3>3
  <2>. QED
    BY <2>2, <2>3 DEF BeforeInv
<1>5. FirstComeFirstServed'
  BY <1>1 DEF MutationsInv, FirstComeFirstServed
<1>. QED
  BY <1>2, <1>3, <1>4, <1>5

\* Whoever may start finds all earlier calls of its key done.
LEMMA EarlierDone ==
  ASSUME MutationsInv, NEW j \in 1..Len(order), pc[order[j]] = "registered",
         Ready(order[j]),
         NEW i \in 1..Len(order), i < j, key[order[i]] = key[order[j]]
  PROVE  pc[order[i]] = "done"
<1>1. i \in 1..(j - 1) /\ j \in Nat
  BY DEF MutationsInv, MutationsTypeOK
<1>2. CASE before[order[j]] = NoOp
  BY <1>1, <1>2 DEF MutationsInv, BeforeInv
<1>3. CASE before[order[j]] # NoOp
  <2>1. PICK h \in 1..(j - 1) :
          /\ order[h] = before[order[j]]
          /\ key[order[h]] = key[order[j]]
          /\ \A m \in (h + 1)..(j - 1) : key[order[m]] # key[order[j]]
    BY <1>3 DEF MutationsInv, BeforeInv
  <2>2. pc[order[h]] = "done"
    BY <1>3, <2>1 DEF Ready
  <2>3. ~(i > h)
    BY <1>1, <2>1
  <2>4. i = h \/ i < h
    BY <1>1, <2>1, <2>3
  <2>5. h \in 1..Len(order)
    BY <2>1 DEF MutationsInv, MutationsTypeOK
  <2>. QED
    BY <2>1, <2>2, <2>4, <2>5 DEF MutationsInv, FirstComeFirstServed
<1>. QED
  BY <1>2, <1>3

LEMMA StartStep ==
  ASSUME MutationsInv, NEW o \in Ops, Start(o)
  PROVE  (OrderInv /\ TailInv /\ BeforeInv /\ FirstComeFirstServed)'
<1>1. /\ UNCHANGED <<order, before, queues, key>>
      /\ pc[o] = "registered" /\ pc'[o] = "running" /\ Ready(o)
      /\ \A p \in Ops : p # o => pc'[p] = pc[p]
  BY DEF Start, Moved, MutationsInv, MutationsTypeOK
<1>2. \A i \in 1..Len(order) : /\ order[i] \in Ops
                               /\ pc[order[i]] = "done" => order[i] # o
  BY <1>1 DEF MutationsInv, MutationsTypeOK
<1>3. OrderInv'
  BY <1>1 DEF MutationsInv, OrderInv, Queueing
<1>4. TailInv'
  BY <1>1, <1>2 DEF MutationsInv, TailInv, Newest, InQueue, MutationsTypeOK
<1>5. BeforeInv'
  <2>1. \A j \in 1..Len(order) : \A i \in 1..(j - 1) : i \in 1..Len(order)
    BY DEF MutationsInv, MutationsTypeOK
  <2>2. \A j \in 1..Len(order) :
          pc'[order[j]] = "registered" => pc[order[j]] = "registered"
    BY <1>1, <1>2
  <2>3. \A i \in 1..Len(order) :
          pc[order[i]] = "done" => pc'[order[i]] = "done"
    BY <1>1, <1>2
  <2>. QED
    BY <1>1, <2>1, <2>2, <2>3 DEF MutationsInv, BeforeInv
<1>6. FirstComeFirstServed'
  <2>1. ASSUME NEW i \in 1..Len(order), NEW j \in 1..Len(order), i < j,
               key[order[i]] = key[order[j]],
               pc'[order[j]] \in {"running", "done"}
        PROVE  pc'[order[i]] = "done"
    <3>1. CASE order[j] = o
      BY <1>1, <1>2, <2>1, <3>1, EarlierDone
    <3>2. CASE order[j] # o
      BY <1>1, <1>2, <2>1, <3>2 DEF MutationsInv, FirstComeFirstServed
    <3>. QED
      BY <3>1, <3>2
  <2>. QED
    BY <1>1, <2>1 DEF FirstComeFirstServed
<1>. QED
  BY <1>3, <1>4, <1>5, <1>6

LEMMA FinishStep ==
  ASSUME MutationsInv, NEW o \in Ops, Finish(o)
  PROVE  (OrderInv /\ TailInv /\ BeforeInv /\ FirstComeFirstServed)'
<1>1. /\ UNCHANGED <<order, before, key>>
      /\ pc[o] = "running" /\ pc'[o] = "done"
      /\ \A p \in Ops : p # o => pc'[p] = pc[p]
  BY DEF Finish, Moved, MutationsInv, MutationsTypeOK
<1>2. \A i \in 1..Len(order) :
        /\ order[i] \in Ops
        /\ pc'[order[i]] = pc[order[i]] \/ pc'[order[i]] = "done"
  BY <1>1 DEF MutationsInv, MutationsTypeOK
<1>3. OrderInv'
  BY <1>1 DEF MutationsInv, OrderInv, Queueing
<1>4. TailInv'
  <2>1. \A k \in Paths :
          \/ queues[k] # o /\ queues'[k] = queues[k]
          \/ k = key[o] /\ queues[k] = o /\ queues'[k] = NoOp
    <3>1. \A k \in Paths : queues[k] = o => k = key[o]
      BY OpsAssumption DEF MutationsInv, TailInv, Newest
    <3>. QED
      BY <3>1 DEF Finish, MutationsInv, MutationsTypeOK
  <2>2. ASSUME NEW k \in Paths, queues[k] # o, queues'[k] = queues[k]
        PROVE  IF queues'[k] = NoOp
                 THEN \A i \in 1..Len(order) :
                        key[order[i]] = k => pc'[order[i]] = "done"
                 ELSE Newest(k, queues[k])' /\ pc'[queues[k]] \in InQueue
    BY <1>1, <1>2, <2>2 DEF MutationsInv, TailInv, Newest, MutationsTypeOK
  <2>3. ASSUME NEW k \in Paths, k = key[o], queues[k] = o
        PROVE  \A i \in 1..Len(order) :
                 key[order[i]] = k => pc'[order[i]] = "done"
    <3>1. PICK h \in 1..Len(order) :
            /\ order[h] = o
            /\ \A j \in (h + 1)..Len(order) : key[order[j]] # k
      BY <2>3, OpsAssumption DEF MutationsInv, TailInv, Newest
    <3>2. ASSUME NEW i \in 1..Len(order), key[order[i]] = k
          PROVE  pc'[order[i]] = "done"
      <4>1. i < h \/ i = h
        BY <3>1, <3>2 DEF MutationsInv, MutationsTypeOK
      <4>2. i < h => pc[order[i]] = "done"
        BY <1>1, <2>3, <3>1, <3>2 DEF MutationsInv, FirstComeFirstServed
      <4>. QED
        BY <1>1, <1>2, <3>1, <4>1, <4>2
    <3>. QED
      BY <3>2
  <2>. QED
    BY <1>1, <2>1, <2>2, <2>3 DEF TailInv
<1>5. BeforeInv'
  <2>1. \A j \in 1..Len(order) : \A i \in 1..(j - 1) : i \in 1..Len(order)
    BY DEF MutationsInv, MutationsTypeOK
  <2>2. \A j \in 1..Len(order) :
          pc'[order[j]] = "registered" => pc[order[j]] = "registered"
    BY <1>1, <1>2
  <2>3. \A i \in 1..Len(order) :
          pc[order[i]] = "done" => pc'[order[i]] = "done"
    BY <1>1, <1>2
  <2>. QED
    BY <1>1, <2>1, <2>2, <2>3 DEF MutationsInv, BeforeInv
<1>6. FirstComeFirstServed'
  <2>1. \A j \in 1..Len(order) :
          pc'[order[j]] \in {"running", "done"} =>
            pc[order[j]] \in {"running", "done"}
    BY <1>1, <1>2
  <2>. QED
    BY <1>1, <1>2, <2>1 DEF MutationsInv, FirstComeFirstServed
<1>. QED
  BY <1>3, <1>4, <1>5, <1>6

LEMMA Inductive == MutationsInv /\ [MutationsNext]_mutationsVars => MutationsInv'
<1> SUFFICES ASSUME MutationsInv, [MutationsNext]_mutationsVars PROVE MutationsInv'
  OBVIOUS
<1>1. MutationsTypeOK' /\ ChainInv'
  BY MutationsTypeStep, ChainStep DEF MutationsInv
<1>2. ASSUME NEW o \in Ops,
             Call(o) \/ CallsRealpath(o) \/ RealpathAnswers(o)
               \/ RealpathThrows(o)
      PROVE  (OrderInv /\ TailInv /\ BeforeInv /\ FirstComeFirstServed)'
  <2>1. UNCHANGED <<order, before, queues>>
    BY <1>2 DEF Call, CallsRealpath, RealpathAnswers, RealpathThrows
  <2>2. /\ pc[o] \notin Queueing /\ pc'[o] \notin Queueing
        /\ \A p \in Ops : p # o => pc'[p] = pc[p] /\ key'[p] = key[p]
    BY <1>2 DEF Call, CallsRealpath, RealpathAnswers, RealpathThrows, Moved,
         Queueing, MutationsInv, MutationsTypeOK
  <2>. QED
    BY <2>1, <2>2, OutsideStep
<1>3. CASE (\E o \in Ops : Create(o)) \/ FileChanges \/ UNCHANGED mutationsVars
  <2>1. UNCHANGED <<order, before, queues, pc, key>>
    BY <1>3 DEF Create, FileChanges, mutationsVars
  <2>. QED
    BY <1>1, <2>1, OutsideStep DEF MutationsInv
<1>. QED
  BY <1>1, <1>2, <1>3, RegisterStep, StartStep, FinishStep
     DEF MutationsInv, MutationsNext, Step

LEMMA MutationsBegin == MutationsInit => MutationsInv
<1> SUFFICES ASSUME MutationsInit PROVE MutationsInv
  OBVIOUS
<1>1. MutationsTypeOK
  BY PathsAssumption DEF MutationsInit, MutationsTypeOK, States, Files
<1>2. /\ order = <<>> /\ chain = <<>>
      /\ \A o \in Ops : pc[o] = "new"
      /\ \A k \in Paths : queues[k] = NoOp
  BY DEF MutationsInit
<1>. QED
  BY <1>1, <1>2 DEF MutationsInv, ChainInv, OrderInv, Queueing, TailInv, BeforeInv,
     FirstComeFirstServed

LEMMA MutationsInvariance == MutationsSpec => []MutationsInv
<1>1. MutationsInit => MutationsInv
  BY MutationsBegin
<1>2. MutationsInv /\ [MutationsNext]_mutationsVars => MutationsInv'
  BY Inductive
<1>. QED
  BY <1>1, <1>2, PTL DEF MutationsSpec

\* Mutations registered under one key start in the order of registration, each
\* after the end of the one before.
THEOREM ServedInOrder == MutationsSpec => []FirstComeFirstServed
<1>1. MutationsInv => FirstComeFirstServed
  BY DEF MutationsInv
<1>. QED
  BY <1>1, MutationsInvariance, PTL

\* Two mutations registered under one key never overlap.
THEOREM NeverOverlap == MutationsSpec => []KeyExclusion
<1>1. MutationsInv => KeyExclusion
  <2> SUFFICES ASSUME MutationsInv, NEW o \in Ops, NEW p \in Ops,
                      pc[o] = "running", pc[p] = "running", key[o] = key[p]
               PROVE  o = p
    BY DEF KeyExclusion
  <2>1. PICK i \in 1..Len(order), j \in 1..Len(order) :
          order[i] = o /\ order[j] = p
    BY DEF MutationsInv, OrderInv, Queueing
  <2>2. i < j \/ i = j \/ j < i
    BY DEF MutationsInv, MutationsTypeOK
  <2>. QED
    BY <2>1, <2>2 DEF MutationsInv, FirstComeFirstServed
<1>. QED
  BY <1>1, MutationsInvariance, PTL

\* The map holds the newest unfinished call of each key, and nothing else.
THEOREM MapHoldsTheTail == MutationsSpec => []TailIsNewest
<1>1. MutationsInv => TailIsNewest
  <2> SUFFICES ASSUME MutationsInv, NEW k \in Paths
               PROVE  LET queued == {i \in 1..Len(order) :
                                       /\ key[order[i]] = k
                                       /\ pc[order[i]] \in InQueue}
                      IN  IF queued = {} THEN queues[k] = NoOp
                          ELSE \E i \in queued :
                                 /\ queues[k] = order[i]
                                 /\ \A j \in queued : j <= i
    BY DEF TailIsNewest
  <2>. DEFINE queued == {i \in 1..Len(order) :
                           key[order[i]] = k /\ pc[order[i]] \in InQueue}
  <2>1. CASE queues[k] = NoOp
    BY <2>1 DEF MutationsInv, TailInv, InQueue
  <2>2. CASE queues[k] # NoOp
    <3>1. PICK i \in 1..Len(order) :
            /\ order[i] = queues[k] /\ key[queues[k]] = k
            /\ \A j \in (i + 1)..Len(order) : key[order[j]] # k
      BY <2>2 DEF MutationsInv, TailInv, Newest
    <3>2. i \in queued
      BY <2>2, <3>1 DEF MutationsInv, TailInv
    <3>3. \A j \in queued : j <= i
      BY <3>1 DEF MutationsInv, MutationsTypeOK
    <3>. QED
      BY <3>1, <3>2, <3>3
  <2>. QED
    BY <2>1, <2>2
<1>. QED
  BY <1>1, MutationsInvariance, PTL

-----------------------------------------------------------------------------
(* SessionManager *)

Kinds == {"user", "assistant", "setting", "compaction", "branch_summary", "label"}

\* Entries under an id, and those of a file of version 1, which have none.  A
\* compaction keeps from an entry before it.
Items ==
  {e \in [id : Nat \ {0}, type : Kinds, parentId : Nat, ref : Nat, set : BOOLEAN] :
     e.type = "compaction" => e.ref < e.id}
OldItems ==
  [id : {0}, type : Kinds, parentId : {0}, ref : Nat, set : BOOLEAN]

Lines == Items \union OldItems \union {Torn, Header, OldHeader}

Records == [there : BOOLEAN, lines : Seq(Lines), whole : BOOLEAN]

\* Ids grow, and the parent of an entry has a smaller one.
Grown(s, n) ==
  /\ \A i, j \in 1..Len(s) : i < j => s[i].id < s[j].id
  /\ \A i \in 1..Len(s) : s[i].parentId < s[i].id /\ s[i].id <= n

\* The entries of a session, with ids up to n.
Tree(s, n) == s \in Seq(Items) /\ Grown(s, n)

\* Lines of a file: but for those that are spoiled, the header, which is first,
\* and a tree.
Clean(l, n) ==
  /\ l \in Seq(Items \union {Torn, Header})
  /\ \A i \in 1..Len(l) : l[i] = Header => i = 1
  /\ \A i, j \in 1..Len(l) :
       i < j /\ l[i] # Torn /\ l[j] # Torn => l[i].id < l[j].id
  /\ \A i \in 1..Len(l) : l[i] \in Items => l[i].parentId < l[i].id /\ l[i].id <= n

\* A file of version 1 that no session has opened yet.
Old(g) ==
  /\ g.whole /\ g.there
  /\ g.lines \in Seq(OldItems \union {OldHeader})
  /\ g.lines # <<>> /\ g.lines[1] = OldHeader
  /\ \A i \in 2..Len(g.lines) : g.lines[i] \in OldItems
  /\ \E k \in OldLengths : k # 0 /\ g = OldFile(k)

Headed(l) == l # <<>> /\ l[1] = Header

\* The header is there to stay.
Held(g) == Headed(g.lines) /\ (g.whole \/ Len(g.lines) > 1)

\* A line is spoiled.
Torso(l) == \E i \in 1..Len(l) : l[i] = Torn

\* What was acknowledged and is not read.
Lost(g, A) == {e \in A : \A i \in DOMAIN Loaded(g) : Loaded(g)[i] # e}

\* Of a file, what was acknowledged of it, its tears, whether it lost its
\* header, and the ids drawn.
FileOK(g, A, t, h, n) ==
  /\ g \in Records
  /\ Old(g) \/ Clean(g.lines, n)
  /\ t \in Nat /\ A \subseteq Items /\ IsFiniteSet(A) /\ \A e \in A : e.id <= n
  /\ ~g.there => g = Absent /\ A = {}
  /\ ~g.whole => g.lines # <<>>
  /\ g.lines = <<Header>> /\ ~g.whole => h
  /\ h \/ ~g.whole \/ Torso(g.lines) => t > 0
  /\ ~h => /\ Cardinality(Lost(g, A)) + (IF g.whole THEN 0 ELSE 1) <= t
           /\ ~g.whole => g.lines[Len(g.lines)] \notin A

\* A tear costs one acknowledged entry at most: a last line without its newline
\* is not acknowledged and counts as lost, so that spoiling it costs nothing more.
FilesOK ==
  \A f \in 1..MaxFiles : FileOK(disk[f], acked[f], tears[f], f \in beheaded, drawn)

Tables ==
  /\ disk \in [1..MaxFiles -> Records]
  /\ acked \in [1..MaxFiles -> SUBSET Items]
  /\ tears \in [1..MaxFiles -> Nat]
  /\ faults \in Nat /\ drawn \in Nat

\* No file has a name that was not drawn yet.
Names ==
  /\ named \in 1..MaxFiles
  /\ \A f \in 1..MaxFiles : f > named => ~disk[f].there

\* A session that was written has its header in the file for good, or lost it.
Memory ==
  /\ Tree(fileEntries, drawn) /\ leafId \in 0..drawn
  /\ open \in BOOLEAN /\ flushed \in BOOLEAN
  /\ open => sessionFile \in 1..named /\ ~Old(disk[sessionFile])
  /\ open /\ flushed /\ sessionFile \notin beheaded => Held(disk[sessionFile])

\* As long as memory and file have not parted, the labels are the entries'.
LabelsAgree == open /\ ~diverged => labels = LabelsOf(fileEntries)

Mind == Memory /\ FreshFile /\ ReopenAgrees /\ LabelsAgree

Disk == Tables /\ FilesOK /\ Names

SessionsInv == Disk /\ Mind

\* The place of a position among those picked.
Rank(P, i) == Cardinality({j \in P : j <= i})

LEMMA SomeOf ==
  ASSUME NEW n \in Nat, NEW P \in SUBSET (1..n)
  PROVE  IsFiniteSet(P) /\ Cardinality(P) \in Nat
<1>1. IsFiniteSet(1..n)
  BY FS_Interval
<1> QED
  BY <1>1, FS_Subset, FS_CardinalityType

LEMMA RankIs ==
  ASSUME NEW n \in Nat, NEW P \in SUBSET (1..n), NEW i \in P
  PROVE  Rank(P, i) \in 1..Cardinality(P)
<1> DEFINE low == {j \in P : j <= i}
<1>1. IsFiniteSet(P) /\ Cardinality(P) \in Nat
  BY SomeOf
<1>2. low \in SUBSET P /\ i \in low
  OBVIOUS
<1> HIDE DEF low
<1>3. IsFiniteSet(low) /\ Cardinality(low) <= Cardinality(P)
  BY <1>1, <1>2, FS_Subset
<1>4. Cardinality(low) \in Nat /\ Cardinality(low) # 0
  BY <1>2, <1>3, FS_CardinalityType, FS_EmptySet
<1>5. Cardinality(low) \in 1..Cardinality(P)
  BY <1>1, <1>3, <1>4
<1> QED
  BY <1>5 DEF Rank, low

LEMMA RankGrows ==
  ASSUME NEW n \in Nat, NEW P \in SUBSET (1..n), NEW i \in P, NEW j \in P, i < j
  PROVE  Rank(P, i) < Rank(P, j)
<1> DEFINE low == {k \in P : k <= i}
           high == {k \in P : k <= j}
<1>1. IsFiniteSet(P)
  BY SomeOf
<1>2. low \in SUBSET high /\ high \in SUBSET P /\ j \in high /\ j \notin low
  <2>1. i \in Int /\ j \in Int /\ \A k \in P : k \in Int
    OBVIOUS
  <2>2. \A k \in P : k <= i => k <= j
    BY <2>1
  <2>3. j <= j /\ ~(j <= i)
    BY <2>1
  <2> QED BY <2>2, <2>3
<1> HIDE DEF low, high
<1>3. IsFiniteSet(high) /\ IsFiniteSet(low)
  BY <1>1, <1>2, FS_Subset
<1>4. Cardinality(low) <= Cardinality(high) /\ Cardinality(low) # Cardinality(high)
  BY <1>2, <1>3, FS_Subset
<1>5. Cardinality(low) \in Nat /\ Cardinality(high) \in Nat
  BY <1>3, FS_CardinalityType
<1>6. Cardinality(low) < Cardinality(high)
  BY <1>4, <1>5
<1> QED
  BY <1>6 DEF Rank, low, high

LEMMA RankOnto ==
  ASSUME NEW n \in Nat, NEW P \in SUBSET (1..n), NEW k \in 1..Cardinality(P)
  PROVE  \E i \in P : Rank(P, i) = k
<1> DEFINE N == Cardinality(P)
           f == [i \in P |-> Rank(P, i)]
<1>1. IsFiniteSet(P) /\ N \in Nat
  BY SomeOf
<1>2. f \in [P -> 1..N]
  BY RankIs
<1>3. \A i, j \in P : f[i] = f[j] => i = j
  <2> SUFFICES ASSUME NEW i \in P, NEW j \in P, f[i] = f[j], i # j PROVE FALSE
    OBVIOUS
  <2>1. Rank(P, i) = Rank(P, j)
    OBVIOUS
  <2>2. Rank(P, i) \in 1..N /\ Rank(P, j) \in 1..N
    BY RankIs
  <2> HIDE DEF N, f
  <2>3. CASE i < j
    <3>1. Rank(P, i) < Rank(P, j)
      BY <2>3, RankGrows
    <3> QED BY <1>1, <2>1, <2>2, <3>1
  <2>4. CASE j < i
    <3>1. Rank(P, j) < Rank(P, i)
      BY <2>4, RankGrows
    <3> QED BY <1>1, <2>1, <2>2, <3>1
  <2> QED BY <2>3, <2>4
<1> HIDE DEF N, f
<1>4. f \in Injection(P, 1..N)
  BY <1>2, <1>3 DEF Injection, IsInjective
<1>5. IsFiniteSet(1..N) /\ Cardinality(1..N) = N
  BY <1>1, FS_Interval
<1>6. Cardinality(P) = Cardinality(1..N)
  BY <1>5 DEF N
<1>7. f \in Surjection(P, 1..N)
  BY <1>4, <1>5, <1>6, FS_Injection
<1>8. k \in 1..N
  BY DEF N
<1>9. PICK i \in P : f[i] = k
  BY <1>7, <1>8 DEF Surjection
<1> QED
  BY <1>9 DEF f

LEMMA PickedIs ==
  ASSUME NEW n \in Nat, NEW P \in SUBSET (1..n), NEW S, NEW s,
         \A i \in P : s[i] \in S
  PROVE  Picked(s, P) \in Seq(S) /\ Len(Picked(s, P)) = Cardinality(P)
<1> DEFINE N == Cardinality(P)
           pos(k) == CHOOSE i \in P : Rank(P, i) = k
<1>1. N \in Nat
  BY SomeOf
<1>2. \A k \in 1..N : pos(k) \in P
  BY RankOnto
<1>3. Picked(s, P) = [k \in 1..N |-> s[pos(k)]]
  BY DEF Picked, Rank
<1> HIDE DEF N, pos
<1>4. [k \in 1..N |-> s[pos(k)]] \in [1..N -> S]
  BY <1>2
<1>5. \A f \in [1..N -> S] : f \in Seq(S) /\ Len(f) = N
  BY <1>1
<1> QED
  BY <1>3, <1>4, <1>5 DEF N

LEMMA PickedAt ==
  ASSUME NEW n \in Nat, NEW P \in SUBSET (1..n), NEW s, NEW i \in P
  PROVE  Picked(s, P)[Rank(P, i)] = s[i]
<1> DEFINE N == Cardinality(P)
           pos(k) == CHOOSE j \in P : Rank(P, j) = k
           r == Rank(P, i)
<1>1. r \in 1..N /\ N \in Nat
  BY RankIs, SomeOf
<1>2. pos(r) \in P /\ Rank(P, pos(r)) = r
  OBVIOUS
<1>3. Picked(s, P) = [k \in 1..N |-> s[pos(k)]]
  BY DEF Picked, Rank
<1>4. Picked(s, P)[r] = s[pos(r)]
  <2> HIDE DEF N, r, pos
  <2> QED BY <1>1, <1>3
<1>5. PICK j \in P : j = pos(r)
  BY <1>2
<1>6. Rank(P, j) = Rank(P, i)
  BY <1>2, <1>5
<1>7. j = i
  <2> HIDE DEF N, r, pos
  <2>1. Rank(P, i) \in Nat
    BY <1>1 DEF r
  <2>2. ~(j < i)
    <3> SUFFICES ASSUME j < i PROVE FALSE
      OBVIOUS
    <3>1. Rank(P, j) < Rank(P, i)
      BY RankGrows
    <3> QED BY <1>6, <2>1, <3>1
  <2>3. ~(i < j)
    <3> SUFFICES ASSUME i < j PROVE FALSE
      OBVIOUS
    <3>1. Rank(P, i) < Rank(P, j)
      BY RankGrows
    <3> QED BY <1>6, <2>1, <3>1
  <2> QED BY <2>2, <2>3
<1> QED
  BY <1>4, <1>5, <1>7 DEF r

\* P are positions in a sequence of n elements.
Within(P, n) == n \in Nat /\ P \in SUBSET (1..n)

LEMMA PickedFrom ==
  ASSUME NEW n, NEW P, Within(P, n), NEW s, NEW k \in 1..Cardinality(P)
  PROVE  \E i \in P : Rank(P, i) = k /\ Picked(s, P)[k] = s[i]
<1>1. n \in Nat /\ P \in SUBSET (1..n)
  BY DEF Within
<1>2. PICK i \in P : Rank(P, i) = k
  BY <1>1, RankOnto
<1>3. Picked(s, P)[Rank(P, i)] = s[i]
  BY <1>1, PickedAt
<1> QED
  BY <1>2, <1>3

\* What is picked keeps its order.
LEMMA PickedOrder ==
  ASSUME NEW n, NEW P, Within(P, n), NEW s,
         NEW k \in 1..Cardinality(P), NEW m \in 1..Cardinality(P), k < m
  PROVE  \E i, j \in P : i < j /\ Picked(s, P)[k] = s[i] /\ Picked(s, P)[m] = s[j]
<1>1. PICK i \in P : Rank(P, i) = k /\ Picked(s, P)[k] = s[i]
  BY PickedFrom
<1>2. PICK j \in P : Rank(P, j) = m /\ Picked(s, P)[m] = s[j]
  BY PickedFrom
<1>3. n \in Nat /\ P \in SUBSET (1..n)
  BY DEF Within
<1>4. k \in Int /\ m \in Int /\ i \in Int /\ j \in Int
  BY <1>3, SomeOf
<1>5. ~(j < i)
  <2> SUFFICES ASSUME j < i PROVE FALSE
    OBVIOUS
  <2>1. Rank(P, j) < Rank(P, i)
    BY <1>3, RankGrows
  <2> QED BY <1>1, <1>2, <1>4, <2>1
<1>6. i # j
  BY <1>1, <1>2, <1>4
<1>7. i < j
  BY <1>4, <1>5, <1>6
<1> QED
  BY <1>1, <1>2, <1>7

LEMMA PickedHas ==
  ASSUME NEW n, NEW P, Within(P, n), NEW s, NEW i \in P
  PROVE  \E k \in 1..Cardinality(P) : Picked(s, P)[k] = s[i]
BY RankIs, PickedAt DEF Within

LEMMA RankOfAll ==
  ASSUME NEW n \in Nat, NEW P, P = 1..n, NEW i \in 1..n
  PROVE  Rank(P, i) = i
<1>1. {j \in P : j <= i} = 1..i
  OBVIOUS
<1>2. i \in Nat
  OBVIOUS
<1>3. Cardinality(1..i) = i
  BY <1>2, FS_Interval
<1> QED
  BY <1>1, <1>3 DEF Rank

LEMMA PickedAll ==
  ASSUME NEW S, NEW s \in Seq(S), NEW P, P = 1..Len(s)
  PROVE  Picked(s, P) = s
<1>1. PICK n : n = Len(s)
  OBVIOUS
<1>2. n \in Nat /\ P = 1..n /\ P \in SUBSET (1..n) /\ (\A i \in P : s[i] \in S)
  BY <1>1
<1>3. Picked(s, P) \in Seq(S) /\ Len(Picked(s, P)) = Cardinality(P)
  BY <1>2, PickedIs
<1>4. Cardinality(P) = n
  BY <1>2, FS_Interval
<1>5. \A i \in 1..n : Picked(s, P)[i] = s[i]
  <2> SUFFICES ASSUME NEW i \in 1..n PROVE Picked(s, P)[i] = s[i]
    OBVIOUS
  <2>1. Rank(P, i) = i
    BY <1>2, RankOfAll
  <2>2. i \in P
    BY <1>2
  <2>3. Picked(s, P)[Rank(P, i)] = s[i]
    BY <1>2, <2>2, PickedAt
  <2> QED BY <2>1, <2>3
<1> QED
  BY <1>1, <1>3, <1>4, <1>5

LEMMA PickedFirst ==
  ASSUME NEW n \in Nat, NEW P \in SUBSET (1..n), NEW s, 1 \in P
  PROVE  Cardinality(P) \in Nat \ {0} /\ Picked(s, P)[1] = s[1]
<1>1. {j \in P : j <= 1} = {1}
  <2>1. \A j \in P : j <= 1 => j = 1
    OBVIOUS
  <2>2. 1 <= 1
    OBVIOUS
  <2> QED BY <2>1, <2>2
<1>2. Rank(P, 1) = 1
  BY <1>1, FS_Singleton DEF Rank
<1>3. Picked(s, P)[Rank(P, 1)] = s[1]
  BY PickedAt
<1>4. Rank(P, 1) \in 1..Cardinality(P) /\ Cardinality(P) \in Nat
  BY RankIs, SomeOf
<1> QED
  BY <1>2, <1>3, <1>4

-----------------------------------------------------------------------------
(* What loading a file gives *)

\* The lines that are read.
Live(l) == {i \in DOMAIN l : l[i] # Torn}

LEMMA Markers ==
  /\ Header.type = "session" /\ Header.id = 0
  /\ OldHeader.type = "session_v1" /\ OldHeader.id = 0
  /\ Header # Torn /\ OldHeader # Torn /\ Header # OldHeader
  /\ Torn.type = "torn" /\ Torn.id = 0
BY DEF Header, OldHeader, Torn, Entry, Null

LEMMA ItemsAre ==
  /\ \A e \in Items : /\ e.id \in Nat \ {0} /\ e.type \in Kinds
                      /\ e.parentId \in Nat /\ e.ref \in Nat
                      /\ e # Torn /\ e # Header /\ e # OldHeader
                      /\ e.type \notin {"session", "session_v1"}
                      /\ e.type = "compaction" => e.ref < e.id
  /\ \A e \in OldItems : /\ e.id = 0 /\ e.type \in Kinds /\ e.ref \in Nat
                         /\ e # Torn /\ e # Header /\ e # OldHeader /\ e \notin Items
                         /\ e.type \notin {"session", "session_v1"}
<1>1. \A e \in Items : e.id \in Nat \ {0} /\ e.type \in Kinds /\ e.parentId \in Nat
                       /\ e.ref \in Nat /\ (e.type = "compaction" => e.ref < e.id)
  BY DEF Items
<1>2. \A e \in OldItems : e.id = 0 /\ e.type \in Kinds /\ e.ref \in Nat
  BY DEF OldItems
<1>3. \A t \in Kinds : t \notin {"session", "session_v1", "torn"}
  BY DEF Kinds
<1> QED
  BY <1>1, <1>2, <1>3, Markers

LEMMA LoadedOfHeaded ==
  ASSUME NEW g, NEW n \in Nat, Clean(g.lines, n), Headed(g.lines)
  PROVE  /\ Loaded(g) = Picked(g.lines, Live(g.lines))
         /\ Cardinality(Live(g.lines)) \in Nat \ {0}
         /\ Loaded(g)[1] = Header
         /\ Loaded(g) \in Seq(Items \union {Header})
         /\ Len(Loaded(g)) = Cardinality(Live(g.lines))
<1> DEFINE l == g.lines
           P == Live(l)
           r == Picked(l, P)
<1>1. l \in Seq(Items \union {Torn, Header}) /\ l # <<>> /\ l[1] = Header
  BY DEF Clean, Headed
<1>2. PICK m : m = Len(l)
  OBVIOUS
<1>3. m \in Nat /\ DOMAIN l = 1..m /\ 1 \in 1..m
  BY <1>1, <1>2
<1>4. P \in SUBSET (1..m) /\ 1 \in P
  BY <1>1, <1>3, Markers DEF Live
<1>5. \A i \in P : l[i] \in Items \union {Header}
  BY <1>1, <1>3 DEF Live
<1> HIDE DEF l, P
<1>6. Cardinality(P) \in Nat \ {0} /\ r[1] = l[1]
  BY <1>3, <1>4, PickedFirst
<1>7. r \in Seq(Items \union {Header}) /\ Len(r) = Cardinality(P)
  BY <1>3, <1>4, <1>5, PickedIs
<1>8. r # <<>> /\ r[1].type = "session"
  BY <1>1, <1>6, <1>7, Markers
<1>9. Loaded(g) = r
  BY <1>8 DEF Loaded, l, P, Live
<1> QED
  BY <1>1, <1>6, <1>7, <1>9 DEF l, P

LEMMA LoadedOfHeadless ==
  ASSUME NEW g, NEW n \in Nat, Clean(g.lines, n), ~Headed(g.lines)
  PROVE  Loaded(g) = <<>>
<1> DEFINE l == g.lines
           P == Live(l)
           r == Picked(l, P)
<1>1. l \in Seq(Items \union {Torn, Header}) /\ ~(l # <<>> /\ l[1] = Header)
      /\ \A i \in 1..Len(l) : l[i] = Header => i = 1
  BY DEF Clean, Headed
<1>2. PICK m : m = Len(l)
  OBVIOUS
<1>3. m \in Nat /\ DOMAIN l = 1..m
  BY <1>1, <1>2
<1>4. P \in SUBSET (1..m)
  BY <1>3 DEF Live
<1>5. \A i \in P : l[i] \in Items
  BY <1>1, <1>2, <1>3 DEF Live
<1> HIDE DEF l, P
<1>6. r \in Seq(Items)
  BY <1>3, <1>4, <1>5, PickedIs
<1>7. r # <<>> => r[1].type \notin {"session", "session_v1"}
  BY <1>6, ItemsAre
<1> QED
  BY <1>7 DEF Loaded, l, P, Live

\* Loading gives the lines that are whole, in their order.
LEMMA LoadedHas ==
  ASSUME NEW g, NEW n \in Nat, Clean(g.lines, n), Headed(g.lines)
  PROVE  /\ \A i \in 1..Len(g.lines) : g.lines[i] # Torn =>
              \E k \in 1..Len(Loaded(g)) : Loaded(g)[k] = g.lines[i]
         /\ \A k \in 1..Len(Loaded(g)) :
              \E i \in 1..Len(g.lines) : g.lines[i] # Torn /\ Loaded(g)[k] = g.lines[i]
         /\ \A j, k \in 1..Len(Loaded(g)) : j < k =>
              \E i, m \in 1..Len(g.lines) :
                /\ i < m /\ g.lines[i] # Torn /\ g.lines[m] # Torn
                /\ Loaded(g)[j] = g.lines[i] /\ Loaded(g)[k] = g.lines[m]
<1> DEFINE l == g.lines
           P == Live(l)
           r == Loaded(g)
           m == Len(l)
<1>1. l \in Seq(Items \union {Torn, Header})
  BY DEF Clean
<1>2. m \in Nat /\ DOMAIN l = 1..m
  BY <1>1
<1>3. P \in SUBSET (1..m) /\ \A i \in 1..m : i \in P <=> l[i] # Torn
  BY <1>2 DEF Live
<1>4. r = Picked(l, P) /\ Len(r) = Cardinality(P)
  BY LoadedOfHeaded
<1> HIDE DEF l, P, r, m
<1>5. Within(P, m)
  BY <1>2, <1>3 DEF Within
<1>6. ASSUME NEW i \in P PROVE \E k \in 1..Cardinality(P) : Picked(l, P)[k] = l[i]
  BY <1>5, PickedHas
<1>7. ASSUME NEW k \in 1..Cardinality(P) PROVE \E i \in P : Picked(l, P)[k] = l[i]
  BY <1>5, PickedFrom
<1>8. ASSUME NEW j \in 1..Cardinality(P), NEW k \in 1..Cardinality(P), j < k
      PROVE  \E i, q \in P : i < q /\ Picked(l, P)[j] = l[i] /\ Picked(l, P)[k] = l[q]
  BY <1>8, <1>5, PickedOrder
<1>9. \A i \in 1..m : l[i] # Torn => \E k \in 1..Len(r) : r[k] = l[i]
  BY <1>3, <1>4, <1>6
<1>10. \A k \in 1..Len(r) : \E i \in 1..m : l[i] # Torn /\ r[k] = l[i]
  BY <1>3, <1>4, <1>7
<1>11. \A j, k \in 1..Len(r) : j < k =>
         \E i, q \in 1..m : /\ i < q /\ l[i] # Torn /\ l[q] # Torn
                            /\ r[j] = l[i] /\ r[k] = l[q]
  BY <1>3, <1>4, <1>8
<1> QED
  BY <1>9, <1>10, <1>11 DEF l, m, r

LEMMA LoadedGrows ==
  ASSUME NEW g, NEW n \in Nat, Clean(g.lines, n), Headed(g.lines)
  PROVE  /\ \A j, k \in 1..Len(Loaded(g)) : j < k => Loaded(g)[j].id < Loaded(g)[k].id
         /\ \A k \in 2..Len(Loaded(g)) :
              /\ Loaded(g)[k] \in Items
              /\ Loaded(g)[k].parentId < Loaded(g)[k].id /\ Loaded(g)[k].id <= n
<1> DEFINE l == g.lines
           r == Loaded(g)
<1>1. /\ \A i, j \in 1..Len(l) :
           i < j /\ l[i] # Torn /\ l[j] # Torn => l[i].id < l[j].id
      /\ \A i \in 1..Len(l) : l[i] \in Items => l[i].parentId < l[i].id /\ l[i].id <= n
  BY DEF Clean
<1>2. /\ \A k \in 1..Len(r) : \E i \in 1..Len(l) : l[i] # Torn /\ r[k] = l[i]
      /\ \A j, k \in 1..Len(r) : j < k =>
           \E i, m \in 1..Len(l) : /\ i < m /\ l[i] # Torn /\ l[m] # Torn
                                   /\ r[j] = l[i] /\ r[k] = l[m]
  BY LoadedHas
<1>3. r[1] = Header /\ r \in Seq(Items \union {Header}) /\ Len(r) \in Nat \ {0}
  BY LoadedOfHeaded
<1> HIDE DEF l, r
<1>4. \A j, k \in 1..Len(r) : j < k => r[j].id < r[k].id
  BY <1>1, <1>2
<1>5. ASSUME NEW k \in 2..Len(r)
      PROVE  r[k] \in Items /\ r[k].parentId < r[k].id /\ r[k].id <= n
  <2>1. r[1].id < r[k].id
    BY <1>3, <1>4
  <2>2. r[k].id # 0
    <3>1. r[1].id = 0
      BY <1>3, Markers
    <3> QED BY <2>1, <3>1
  <2>3. r[k] # Header /\ r[k] \in Items
    BY <1>3, <2>2, Markers
  <2>4. PICK i \in 1..Len(l) : r[k] = l[i]
    <3>1. k \in 1..Len(r)
      BY <1>3
    <3> QED BY <1>2, <3>1
  <2> QED BY <1>1, <2>3, <2>4
<1> QED
  BY <1>4, <1>5 DEF r

\* The entries below the header are a tree.
LEMMA LoadedIsTree ==
  ASSUME NEW g, NEW n \in Nat, Clean(g.lines, n), Headed(g.lines)
  PROVE  /\ Tree(Tail(Loaded(g)), n) /\ Loaded(g) # <<>>
         /\ Loaded(g) = <<Header>> \o Tail(Loaded(g))
<1>1. PICK r : r = Loaded(g)
  OBVIOUS
<1>2. /\ r \in Seq(Items \union {Header}) /\ Len(r) \in Nat \ {0} /\ r[1] = Header
      /\ \A j, k \in 1..Len(r) : j < k => r[j].id < r[k].id
      /\ \A k \in 2..Len(r) :
           r[k] \in Items /\ r[k].parentId < r[k].id /\ r[k].id <= n
  BY <1>1, LoadedOfHeaded, LoadedGrows
<1>3. PICK s : s = Tail(r)
  OBVIOUS
<1>4. /\ s \in Seq(Items \union {Header}) /\ Len(s) = Len(r) - 1
      /\ \A i \in 1..Len(s) : s[i] = r[i + 1] /\ i + 1 \in 2..Len(r)
  BY <1>2, <1>3
<1>5. s \in Seq(Items)
  <2>1. \A i \in 1..Len(s) : s[i] \in Items
    BY <1>2, <1>4
  <2>2. DOMAIN s = 1..Len(s) /\ Len(s) \in Nat /\ s = [i \in 1..Len(s) |-> s[i]]
    BY <1>4
  <2>3. s \in [1..Len(s) -> Items]
    BY <2>1, <2>2
  <2> QED BY <2>2, <2>3
<1>6. Grown(s, n)
  <2>1. ASSUME NEW i \in 1..Len(s), NEW j \in 1..Len(s), i < j PROVE s[i].id < s[j].id
    <3>1. i + 1 \in 1..Len(r) /\ j + 1 \in 1..Len(r) /\ i + 1 < j + 1
      BY <1>4, <2>1
    <3>2. r[i + 1].id < r[j + 1].id
      BY <1>2, <3>1
    <3> QED BY <1>4, <3>2
  <2>2. \A i \in 1..Len(s) : s[i].parentId < s[i].id /\ s[i].id <= n
    BY <1>2, <1>4
  <2> QED BY <2>1, <2>2 DEF Grown
<1>7. r = <<Header>> \o s
  BY <1>2, <1>3
<1> QED
  BY <1>1, <1>2, <1>3, <1>5, <1>6, <1>7 DEF Tree

LEMMA LoadedOfOld ==
  ASSUME NEW g, Old(g)
  PROVE  /\ Loaded(g) = g.lines /\ g.lines # <<>> /\ g.lines[1] = OldHeader
         /\ \A i \in 2..Len(g.lines) : g.lines[i] \in OldItems
         /\ g.lines \in Seq(OldItems \union {OldHeader})
<1>1. /\ g.lines \in Seq(OldItems \union {OldHeader}) /\ g.lines # <<>>
      /\ g.lines[1] = OldHeader /\ \A i \in 2..Len(g.lines) : g.lines[i] \in OldItems
  BY DEF Old
<1>2. {i \in DOMAIN g.lines : g.lines[i] # Torn} = 1..Len(g.lines)
  <2>1. DOMAIN g.lines = 1..Len(g.lines)
    BY <1>1
  <2>2. \A i \in 1..Len(g.lines) : g.lines[i] # Torn
    BY <1>1, ItemsAre, Markers
  <2> QED BY <2>1, <2>2
<1>3. Picked(g.lines, {i \in DOMAIN g.lines : g.lines[i] # Torn}) = g.lines
  BY <1>1, <1>2, PickedAll
<1>4. Loaded(g) = g.lines
  BY <1>1, <1>3, Markers DEF Loaded
<1> QED
  BY <1>1, <1>4

LEMMA TailIs ==
  ASSUME NEW S, NEW l \in Seq(S), l # <<>>
  PROVE  /\ Tail(l) \in Seq(S) /\ Len(Tail(l)) = Len(l) - 1 /\ Len(l) - 1 \in Nat
         /\ DOMAIN Tail(l) = 1..(Len(l) - 1)
         /\ \A i \in 1..(Len(l) - 1) : Tail(l)[i] = l[i + 1]
OBVIOUS

\* What is read of a file of version 1, and what that is migrated to.
OldRead(g, old, s) == Old(g) /\ old = Tail(Loaded(g)) /\ s = Migrated(old)

\* A file of version 1 has at most one compaction, which is its last entry.
LEMMA OldEntriesAre ==
  ASSUME NEW g, NEW old, NEW m, OldRead(g, old, m)
  PROVE  /\ old \in Seq(OldItems) /\ Len(old) \in Nat \ {0}
         /\ \A i \in 1..Len(old) : old[i].type = "compaction" =>
              i = Len(old) /\ Len(old) > 2 /\ old[i].ref = 2
<1>1. PICK k \in OldLengths : k # 0 /\ g = OldFile(k)
  BY DEF Old, OldRead
<1>2. k \in Nat \ {0}
  BY <1>1, SessionManagerBounds
<1>3. PICK s : s = [i \in 1..k |-> OldEntry(i, k)]
  OBVIOUS
<1>4. PICK l : l = <<OldHeader>> \o s
  OBVIOUS
<1>5. Loaded(g) = l
  <2>1. OldFile(k) = [there |-> TRUE, whole |-> TRUE, lines |-> l]
    BY <1>1, <1>3, <1>4 DEF OldFile
  <2>2. g.lines = l
    BY <1>1, <2>1
  <2> QED BY <2>2, LoadedOfOld DEF OldRead
<1>6. /\ l \in Seq(OldItems \union {OldHeader}) /\ Len(l) \in Nat
      /\ \A i \in 2..Len(l) : l[i] \in OldItems
  BY <1>5, LoadedOfOld DEF OldRead
<1>7. Len(l) = k + 1 /\ \A i \in 1..k : l[i + 1] = s[i]
  <2>1. PICK S : S = {OldHeader} \union {s[i] : i \in 1..k}
    OBVIOUS
  <2>2. s \in Seq(S) /\ Len(s) = k /\ <<OldHeader>> \in Seq(S)
    BY <1>2, <1>3, <2>1
  <2> QED BY <1>2, <1>4, <2>2
<1>8. Len(old) = k /\ DOMAIN old = 1..k /\ \A i \in 1..k : old[i] = s[i]
  <2>1. old = Tail(l) /\ l # <<>>
    BY <1>2, <1>5, <1>6, <1>7 DEF OldRead
  <2>2. /\ Len(Tail(l)) = Len(l) - 1 /\ DOMAIN Tail(l) = 1..(Len(l) - 1)
        /\ \A i \in 1..(Len(l) - 1) : Tail(l)[i] = l[i + 1]
    BY <1>6, <2>1, TailIs
  <2>3. Len(l) - 1 = k
    BY <1>2, <1>7
  <2> QED BY <1>7, <2>1, <2>2, <2>3
<1>9. old \in Seq(OldItems)
  <2>1. ASSUME NEW i \in 1..k PROVE old[i] \in OldItems
    <3>1. i + 1 \in 2..Len(l)
      BY <1>2, <1>7
    <3> QED BY <1>6, <1>7, <1>8, <3>1
  <2>2. old \in Seq(OldItems \union {OldHeader})
    <3>1. l \in Seq(OldItems \union {OldHeader}) /\ l # <<>> /\ old = Tail(l)
      BY <1>2, <1>5, <1>6, <1>7 DEF OldRead
    <3> QED BY <3>1, TailIs
  <2>3. PICK o : o = old
    OBVIOUS
  <2>4. /\ o \in Seq(OldItems \union {OldHeader}) /\ Len(o) = k
        /\ \A i \in 1..k : o[i] \in OldItems
    BY <1>8, <2>1, <2>2, <2>3
  <2>5. DOMAIN o = 1..k /\ o = [i \in DOMAIN o |-> o[i]]
    BY <2>4
  <2>6. o \in [1..k -> OldItems] /\ k \in Nat
    BY <1>2, <2>4, <2>5
  <2>7. o \in Seq(OldItems)
    BY <2>6
  <2> QED BY <2>3, <2>7
<1>10. ASSUME NEW i \in 1..k, old[i].type = "compaction"
       PROVE  i = k /\ k > 2 /\ old[i].ref = 2
  <2>1. PICK type : type = CASE i = k /\ k > 2 -> "compaction" [] i % 2 = 1 -> "user"
                             [] OTHER -> "assistant"
    OBVIOUS
  <2>2. PICK ref : ref = IF i = k /\ k > 2 THEN 2 ELSE Null
    OBVIOUS
  <2>3. old[i] = Entry(Null, type, Null, ref, FALSE)
    BY <1>3, <1>8, <2>1, <2>2 DEF OldEntry
  <2>4. type = "compaction" /\ old[i].ref = ref
    <3>1. PICK o : o = old[i]
      OBVIOUS
    <3>2. o.type = "compaction" /\ o = Entry(Null, type, Null, ref, FALSE)
      BY <1>10, <2>3, <3>1
    <3>3. o.type = type /\ o.ref = ref
      BY <3>2 DEF Entry
    <3> QED BY <3>1, <3>2, <3>3
  <2>5. i = k /\ k > 2
    <3>1. CASE ~(i = k /\ k > 2) /\ i % 2 = 1
      BY <2>1, <2>4, <3>1
    <3>2. CASE ~(i = k /\ k > 2) /\ i % 2 # 1
      BY <2>1, <2>4, <3>2
    <3> QED BY <3>1, <3>2
  <2> QED BY <2>2, <2>4, <2>5
<1> QED
  BY <1>2, <1>8, <1>9, <1>10

\* A file without torn lines is loaded as it is.
LEMMA LoadedWhole ==
  ASSUME NEW g, NEW n \in Nat, Clean(g.lines, n), Headed(g.lines), ~Torso(g.lines)
  PROVE  Loaded(g) = g.lines
<1>1. g.lines \in Seq(Items \union {Torn, Header})
  BY DEF Clean
<1>2. Live(g.lines) = 1..Len(g.lines)
  <2>1. DOMAIN g.lines = 1..Len(g.lines)
    BY <1>1
  <2> QED BY <2>1 DEF Live, Torso
<1>3. Picked(g.lines, Live(g.lines)) = g.lines
  BY <1>1, <1>2, PickedAll
<1> QED
  BY <1>3, LoadedOfHeaded

-----------------------------------------------------------------------------
(* What a write makes of a file *)

LEMMA LostIs ==
  ASSUME NEW g, NEW n \in Nat, Clean(g.lines, n), NEW A \in SUBSET Items
  PROVE  Lost(g, A) = IF Headed(g.lines)
                      THEN {e \in A : \A i \in 1..Len(g.lines) : g.lines[i] # e}
                      ELSE A
<1>1. CASE Headed(g.lines)
  <2>1. DOMAIN Loaded(g) = 1..Len(Loaded(g))
    BY <1>1, LoadedOfHeaded
  <2>2. \A e \in A : e # Torn
    BY ItemsAre
  <2>3. \A e \in A : (\E k \in 1..Len(Loaded(g)) : Loaded(g)[k] = e)
                       <=> (\E i \in 1..Len(g.lines) : g.lines[i] = e)
    <3> SUFFICES ASSUME NEW e \in A
                 PROVE  (\E k \in 1..Len(Loaded(g)) : Loaded(g)[k] = e)
                          <=> (\E i \in 1..Len(g.lines) : g.lines[i] = e)
      OBVIOUS
    <3>1. \A i \in 1..Len(g.lines) : g.lines[i] # Torn =>
            \E k \in 1..Len(Loaded(g)) : Loaded(g)[k] = g.lines[i]
      BY <1>1, LoadedHas
    <3>2. \A k \in 1..Len(Loaded(g)) :
            \E i \in 1..Len(g.lines) : g.lines[i] # Torn /\ Loaded(g)[k] = g.lines[i]
      BY <1>1, LoadedHas
    <3> QED BY <2>2, <3>1, <3>2
  <2> QED BY <1>1, <2>1, <2>3 DEF Lost
<1>2. CASE ~Headed(g.lines)
  <2>1. Loaded(g) = <<>>
    BY <1>2, LoadedOfHeadless
  <2> QED BY <1>2, <2>1 DEF Lost
<1> QED
  BY <1>1, <1>2

LEMMA LostOfOld ==
  ASSUME NEW g, Old(g), NEW A \in SUBSET Items
  PROVE  Lost(g, A) = A
<1>1. Loaded(g) \in Seq(OldItems \union {OldHeader})
  BY LoadedOfOld
<1>2. \A i \in DOMAIN Loaded(g) : Loaded(g)[i] \notin Items
  BY <1>1, ItemsAre
<1> QED
  BY <1>2 DEF Lost

LEMMA MoreIds ==
  ASSUME NEW g, NEW A, NEW t, NEW h, NEW n \in Nat, NEW m \in Nat, n <= m,
         FileOK(g, A, t, h, n)
  PROVE  FileOK(g, A, t, h, m)
<1>1. \A x \in Nat : x <= n => x <= m
  OBVIOUS
<1>2. A \subseteq Items /\ \A e \in A : e.id <= n
  BY DEF FileOK
<1>3. \A e \in A : e.id <= m
  BY <1>1, <1>2, ItemsAre
<1>4. Clean(g.lines, n) => Clean(g.lines, m)
  BY <1>1, ItemsAre DEF Clean
<1> QED
  BY <1>3, <1>4 DEF FileOK

LEMMA CleanWithMore ==
  ASSUME NEW n \in Nat, NEW l, Clean(l, n),
         NEW x, \/ x = Torn
                \/ x \in Items /\ x.id = n + 1 /\ x.parentId <= n
  PROVE  /\ Clean(Append(l, x), n + 1)
         /\ Len(Append(l, x)) = Len(l) + 1 /\ Append(l, x)[Len(l) + 1] = x
         /\ \A i \in 1..Len(l) : Append(l, x)[i] = l[i]
         /\ Append(l, x) \in Seq(Items \union {Torn, Header})
         /\ Headed(l) => Headed(Append(l, x))
         /\ Append(l, x) # <<Header>>
         /\ Torso(Append(l, x)) => Torso(l) \/ x = Torn
<1>1. /\ l \in Seq(Items \union {Torn, Header}) /\ Len(l) \in Nat
      /\ \A i \in 1..Len(l) : l[i] = Header => i = 1
      /\ \A i, j \in 1..Len(l) :
           i < j /\ l[i] # Torn /\ l[j] # Torn => l[i].id < l[j].id
      /\ \A i \in 1..Len(l) : l[i] \in Items => l[i].parentId < l[i].id /\ l[i].id <= n
  BY DEF Clean
<1>2. PICK d : d = Append(l, x)
  OBVIOUS
<1>3. x \in Items \union {Torn, Header} /\ x # Header
  BY Markers, ItemsAre
<1>4. /\ d \in Seq(Items \union {Torn, Header}) /\ Len(d) = Len(l) + 1
      /\ d[Len(l) + 1] = x /\ \A i \in 1..Len(l) : d[i] = l[i]
  BY <1>1, <1>2, <1>3
<1>5. PICK m : m = Len(l)
  OBVIOUS
<1>6. \A i \in 1..Len(d) : i \in 1..m \/ i = m + 1
  BY <1>1, <1>4, <1>5
<1>7. \A i \in 1..m : l[i] \in Items \/ l[i] = Torn \/ l[i] = Header
  BY <1>1, <1>5
<1>8. \A i \in 1..m : l[i] # Torn => l[i].id \in Nat /\ l[i].id <= n
  BY <1>1, <1>5, <1>7, Markers, ItemsAre
<1>9. \A i \in 1..Len(d) : d[i] = Header => i = 1
  BY <1>1, <1>3, <1>4, <1>5, <1>6
<1>10. ASSUME NEW i \in 1..Len(d), NEW j \in 1..Len(d), i < j,
              d[i] # Torn, d[j] # Torn
       PROVE  d[i].id < d[j].id
  <2>1. i \in 1..m
    BY <1>1, <1>4, <1>5, <1>10
  <2>2. CASE j \in 1..m
    BY <1>1, <1>4, <1>5, <1>10, <2>1, <2>2
  <2>3. CASE j = m + 1
    <3>1. d[j] = x /\ d[i] = l[i] /\ x # Torn
      BY <1>4, <1>5, <1>10, <2>1, <2>3
    <3>2. x.id = n + 1
      BY <3>1
    <3>3. l[i].id \in Nat /\ l[i].id <= n
      BY <1>8, <1>10, <2>1, <3>1
    <3> QED BY <3>1, <3>2, <3>3
  <2> QED BY <1>6, <2>2, <2>3
<1>11. ASSUME NEW i \in 1..Len(d), d[i] \in Items
       PROVE  d[i].parentId < d[i].id /\ d[i].id <= n + 1
  <2>1. CASE i \in 1..m
    <3>1. d[i] = l[i]
      BY <1>4, <1>5, <2>1
    <3>2. l[i].parentId < l[i].id /\ l[i].id <= n
      BY <1>1, <1>5, <1>11, <2>1, <3>1
    <3>3. l[i].id \in Nat
      BY <1>11, <3>1, ItemsAre
    <3> QED BY <3>1, <3>2, <3>3
  <2>2. CASE i = m + 1
    <3>1. d[i] = x /\ x # Torn
      BY <1>4, <1>5, <1>11, <2>2, ItemsAre
    <3>2. x.id = n + 1 /\ x.parentId <= n /\ x.parentId \in Nat
      BY <3>1, ItemsAre
    <3> QED BY <3>1, <3>2
  <2> QED BY <1>6, <2>1, <2>2
<1>12. Clean(d, n + 1)
  BY <1>4, <1>9, <1>10, <1>11 DEF Clean
<1>13. Headed(l) => Headed(d)
  BY <1>1, <1>4 DEF Headed
<1>14. d # <<Header>>
  <2> SUFFICES ASSUME d = <<Header>> PROVE FALSE
    OBVIOUS
  <2>1. Len(d) = 1 /\ d[1] = Header
    OBVIOUS
  <2> QED BY <1>1, <1>3, <1>4, <2>1
<1>15. Torso(d) => Torso(l) \/ x = Torn
  BY <1>4, <1>5, <1>6 DEF Torso
<1> QED
  BY <1>2, <1>4, <1>12, <1>13, <1>14, <1>15

\* A last line without its newline is spoiled by what is appended.
Spoiled(l) == SubSeq(l, 1, Len(l) - 1) \o <<Torn>>

LEMMA CleanSpoiled ==
  ASSUME NEW n \in Nat, NEW l, Clean(l, n), l # <<>>
  PROVE  /\ Clean(Spoiled(l), n + 1) /\ Spoiled(l) \in Seq(Items \union {Torn, Header})
         /\ Len(Spoiled(l)) = Len(l) /\ Spoiled(l)[Len(l)] = Torn
         /\ \A i \in 1..(Len(l) - 1) : Spoiled(l)[i] = l[i]
         /\ Headed(l) /\ Len(l) > 1 => Headed(Spoiled(l))
         /\ Headed(Spoiled(l)) => Headed(l) /\ Len(l) > 1
         /\ Spoiled(l) # <<Header>>
<1>1. /\ l \in Seq(Items \union {Torn, Header}) /\ Len(l) \in Nat \ {0}
      /\ \A i \in 1..Len(l) : l[i] = Header => i = 1
      /\ \A i, j \in 1..Len(l) :
           i < j /\ l[i] # Torn /\ l[j] # Torn => l[i].id < l[j].id
      /\ \A i \in 1..Len(l) : l[i] \in Items => l[i].parentId < l[i].id /\ l[i].id <= n
  BY DEF Clean
<1>2. PICK d : d = Spoiled(l)
  OBVIOUS
<1>3. PICK b : b = SubSeq(l, 1, Len(l) - 1)
  OBVIOUS
<1>4. /\ b \in Seq(Items \union {Torn, Header}) /\ Len(b) = Len(l) - 1
      /\ \A i \in 1..(Len(l) - 1) : b[i] = l[i]
  <2>1. PICK m : m = Len(l) - 1
    OBVIOUS
  <2>2. m \in Nat /\ m <= Len(l)
    BY <1>1, <2>1
  <2>3. b = SubSeq(l, 1, m)
    BY <1>3, <2>1
  <2>4. /\ b \in Seq(Items \union {Torn, Header}) /\ Len(b) = m
        /\ \A i \in 1..m : b[i] = l[i]
    BY <1>1, <2>2, <2>3
  <2> QED BY <2>1, <2>4
<1>5. d = b \o <<Torn>>
  BY <1>2, <1>3 DEF Spoiled
<1>6. /\ d \in Seq(Items \union {Torn, Header}) /\ Len(d) = Len(l)
      /\ d[Len(l)] = Torn /\ \A i \in 1..(Len(l) - 1) : d[i] = l[i]
  BY <1>1, <1>4, <1>5
<1>7. \A i \in 1..Len(d) : d[i] # Torn => i \in 1..(Len(l) - 1) /\ d[i] = l[i]
  BY <1>1, <1>6
<1>8. Clean(d, n + 1)
  <2>1. \A i \in 1..Len(d) : d[i] = Header => i = 1
    BY <1>1, <1>6, <1>7, Markers
  <2>2. \A i, j \in 1..Len(d) :
          i < j /\ d[i] # Torn /\ d[j] # Torn => d[i].id < d[j].id
    BY <1>1, <1>6, <1>7
  <2>3. \A i \in 1..Len(d) :
          d[i] \in Items => d[i].parentId < d[i].id /\ d[i].id <= n + 1
    <3> SUFFICES ASSUME NEW i \in 1..Len(d), d[i] \in Items
                 PROVE  d[i].parentId < d[i].id /\ d[i].id <= n + 1
      OBVIOUS
    <3>1. d[i] # Torn /\ d[i].id \in Nat
      BY ItemsAre
    <3>2. d[i] = l[i] /\ i \in 1..Len(l)
      BY <1>6, <1>7, <3>1
    <3>3. l[i].parentId < l[i].id /\ l[i].id <= n
      BY <1>1, <3>2
    <3> QED BY <3>1, <3>2, <3>3
  <2> QED BY <1>6, <2>1, <2>2, <2>3 DEF Clean
<1>9. d[1] = Header <=> l[1] = Header /\ Len(l) > 1
  <2>1. CASE Len(l) = 1
    BY <1>6, <2>1, Markers
  <2>2. CASE Len(l) > 1
    BY <1>1, <1>6, <2>2
  <2>3. Len(l) = 1 \/ Len(l) > 1
    <3>1. PICK q : q = Len(l)
      OBVIOUS
    <3>2. q \in Nat /\ q # 0
      BY <1>1, <3>1
    <3>3. q = 1 \/ q > 1
      BY <3>2
    <3> QED BY <3>1, <3>3
  <2> QED BY <2>1, <2>2, <2>3
<1>10. d # <<Header>>
  <2> SUFFICES ASSUME d = <<Header>> PROVE FALSE
    OBVIOUS
  <2>1. Len(d) = 1 /\ d[1] = Header
    OBVIOUS
  <2> QED BY <1>6, <1>9, <2>1
<1>11. d # <<>> /\ l # <<>>
  BY <1>1, <1>6
<1> QED
  BY <1>2, <1>6, <1>8, <1>9, <1>10, <1>11 DEF Headed

LEMMA RecordIs ==
  ASSUME NEW t \in BOOLEAN, NEW l \in Seq(Lines), NEW x \in BOOLEAN
  PROVE  /\ [there |-> t, lines |-> l, whole |-> x] \in Records
         /\ [there |-> t, whole |-> x, lines |-> l] \in Records
<1>1. \A S : l \in S =>
        /\ [there |-> t, lines |-> l, whole |-> x] \in
             [there : BOOLEAN, lines : S, whole : BOOLEAN]
        /\ [there |-> t, whole |-> x, lines |-> l] \in
             [there : BOOLEAN, lines : S, whole : BOOLEAN]
  OBVIOUS
<1> QED
  BY <1>1 DEF Records

\* An entry is appended to a file that has its header.
More(w, g, A, t, h, n, e) ==
  /\ h \in BOOLEAN /\ n \in Nat /\ FileOK(g, A, t, h, n) /\ ~Old(g) /\ (h \/ Held(g))
  /\ e \in Items /\ e.id = n + 1 /\ e.parentId <= n
  /\ w = Extended(g, <<e>>)

LEMMA AppendIsOK ==
  ASSUME NEW w, NEW g, NEW A, NEW t, NEW h, NEW n, NEW e, More(w, g, A, t, h, n, e)
  PROVE  /\ FileOK(w, A \union {e}, t, h, n + 1) /\ ~Old(w) /\ w.there
         /\ h = FALSE => Held(w)
         /\ g.whole => w.lines = Append(g.lines, e) /\ w.whole
<1> USE DEF More
<1>1. /\ g \in Records /\ Clean(g.lines, n) /\ t \in Nat /\ A \subseteq Items
      /\ IsFiniteSet(A) /\ (\A x \in A : x.id <= n)
      /\ (~g.whole => g.lines # <<>>) /\ (g.lines = <<Header>> /\ ~g.whole => h)
      /\ (h \/ ~g.whole \/ Torso(g.lines) => t > 0)
  BY DEF FileOK
<1>2. PICK l : l = g.lines
  OBVIOUS
<1>3. PICK d : d = IF g.whole THEN Append(l, e) ELSE Spoiled(l)
  OBVIOUS
<1>4. Clean(l, n) /\ l \in Seq(Items \union {Torn, Header}) /\ g.whole \in BOOLEAN
  BY <1>1, <1>2 DEF Clean, Records
<1>5. w = [there |-> TRUE, lines |-> d, whole |-> TRUE]
  <2>1. <<e>> # <<>> /\ Tail(<<e>>) = <<>>
    OBVIOUS
  <2>2. w = [there |-> TRUE, whole |-> TRUE,
             lines |-> IF g.whole THEN l \o <<e>>
                       ELSE SubSeq(l, 1, Len(l) - 1) \o <<Torn>> \o <<>>]
    BY <1>2, <2>1 DEF Extended
  <2>3. l \o <<e>> = Append(l, e)
    BY <1>4
  <2>4. ~g.whole => Spoiled(l) \in Seq(Items \union {Torn, Header})
    BY <1>1, <1>2, <1>4, CleanSpoiled
  <2>5. ~g.whole => Spoiled(l) \o <<>> = Spoiled(l)
    BY <2>4
  <2>6. SubSeq(l, 1, Len(l) - 1) \o <<Torn>> \o <<>> = Spoiled(l) \o <<>>
    BY DEF Spoiled
  <2> QED BY <1>3, <2>2, <2>3, <2>5, <2>6
<1>6. w.lines = d /\ w.whole = TRUE /\ w.there = TRUE
  BY <1>5
<1>7. /\ Clean(d, n + 1) /\ d \in Seq(Items \union {Torn, Header})
      /\ d # <<Header>> /\ Len(d) >= 1
      /\ Torso(d) => Torso(l) \/ ~g.whole
      /\ h \/ (Headed(l) /\ Headed(d))
  <2>1. CASE g.whole
    <3>1. d = Append(l, e)
      BY <1>3, <2>1
    <3>2. Len(l) \in Nat
      BY <1>4
    <3>3. h \/ Headed(l)
      BY <1>2 DEF Held
    <3>4. e # Torn
      BY ItemsAre
    <3>5. /\ Clean(d, n + 1) /\ Len(d) = Len(l) + 1
          /\ d \in Seq(Items \union {Torn, Header})
          /\ Headed(l) => Headed(d)
          /\ d # <<Header>>
          /\ Torso(d) => Torso(l) \/ e = Torn
      BY <1>4, <3>1, CleanWithMore
    <3>6. Len(d) >= 1
      BY <3>2, <3>5
    <3>7. Torso(d) => Torso(l)
      BY <3>4, <3>5
    <3>8. h \/ (Headed(l) /\ Headed(d))
      BY <3>3, <3>5
    <3> QED BY <3>5, <3>6, <3>7, <3>8
  <2>2. CASE ~g.whole
    <3>1. d = Spoiled(l) /\ l # <<>>
      BY <1>1, <1>2, <1>3, <2>2
    <3>2. Len(l) \in Nat /\ Len(l) >= 1
      BY <1>4, <3>1
    <3>3. h \/ (Headed(l) /\ Len(l) > 1)
      BY <1>2, <2>2 DEF Held
    <3>4. /\ Clean(d, n + 1) /\ Len(d) = Len(l)
          /\ d \in Seq(Items \union {Torn, Header})
          /\ Headed(l) /\ Len(l) > 1 => Headed(d)
          /\ d # <<Header>>
      BY <1>4, <3>1, CleanSpoiled
    <3> QED BY <2>2, <3>2, <3>3, <3>4
  <2> QED BY <2>1, <2>2
<1>8. w \in Records /\ ~Old(w)
  <2>1. Items \union {Torn, Header} \subseteq Lines
    BY DEF Lines
  <2>2. d \in Seq(Lines)
    BY <1>7, <2>1
  <2>3. w \in Records
    BY <1>5, <2>2, RecordIs
  <2>4. d[1] # OldHeader
    <3>1. d[1] \in Items \union {Torn, Header}
      BY <1>7
    <3> QED BY <3>1, ItemsAre, Markers
  <2> QED BY <1>6, <2>3, <2>4 DEF Old
<1>9. ~h => Cardinality(Lost(w, A \union {e})) <= t
  <2> SUFFICES ASSUME ~h PROVE Cardinality(Lost(w, A \union {e})) <= t
    OBVIOUS
  <2>1. Cardinality(Lost(g, A)) + (IF g.whole THEN 0 ELSE 1) <= t
        /\ (~g.whole => l[Len(l)] \notin A)
    BY <1>2 DEF FileOK
  <2>2. A \in SUBSET Items /\ A \union {e} \in SUBSET Items
    BY <1>1
  <2>3. Lost(g, A) = {x \in A : \A i \in 1..Len(l) : l[i] # x}
    <3>1. Lost(g, A) = IF Headed(g.lines)
                       THEN {x \in A : \A i \in 1..Len(g.lines) : g.lines[i] # x}
                       ELSE A
      BY <1>1, <2>2, LostIs
    <3> QED BY <1>2, <1>7, <3>1
  <2>4. n + 1 \in Nat
    OBVIOUS
  <2>5. Lost(w, A \union {e}) = {x \in A \union {e} : \A i \in 1..Len(d) : d[i] # x}
    <3>1. Clean(w.lines, n + 1)
      BY <1>6, <1>7
    <3>2. Lost(w, A \union {e}) =
            IF Headed(w.lines)
            THEN {x \in A \union {e} : \A i \in 1..Len(w.lines) : w.lines[i] # x}
            ELSE A \union {e}
      BY <2>2, <2>4, <3>1, LostIs
    <3> QED BY <1>6, <1>7, <3>2
  <2>6. IsFiniteSet(Lost(g, A))
    BY <1>1, <2>3, FS_Subset
  <2>7. Cardinality(Lost(g, A)) \in Nat
    BY <2>6, FS_CardinalityType
  <2>8. CASE g.whole
    <3>1. d = Append(l, e)
      BY <1>3, <2>8
    <3>2. /\ Len(d) = Len(l) + 1 /\ d[Len(l) + 1] = e
          /\ \A i \in 1..Len(l) : d[i] = l[i]
      BY <1>4, <3>1, CleanWithMore
    <3>3. Len(l) \in Nat /\ (Len(l) + 1) \in 1..Len(d) /\ 1..Len(l) \subseteq 1..Len(d)
      BY <1>4, <3>2
    <3>4. Lost(w, A \union {e}) \subseteq Lost(g, A)
      BY <2>3, <2>5, <3>2, <3>3
    <3>5. Cardinality(Lost(w, A \union {e})) <= Cardinality(Lost(g, A))
      BY <2>6, <3>4, FS_Subset
    <3>6. IsFiniteSet(Lost(w, A \union {e}))
      BY <2>6, <3>4, FS_Subset
    <3>7. Cardinality(Lost(w, A \union {e})) \in Nat
      BY <3>6, FS_CardinalityType
    <3> QED BY <1>1, <2>1, <2>7, <2>8, <3>5, <3>7
  <2>9. CASE ~g.whole
    <3>1. d = Spoiled(l) /\ l # <<>>
      BY <1>1, <1>2, <1>3, <2>9
    <3>2. /\ Len(d) = Len(l) /\ \A i \in 1..(Len(l) - 1) : d[i] = l[i]
      BY <1>4, <3>1, CleanSpoiled
    <3>3. Len(l) \in Nat
      BY <1>4
    <3>4. \A x \in A : (\A i \in 1..Len(d) : d[i] # x) => \A i \in 1..Len(l) : l[i] # x
      <4> SUFFICES ASSUME NEW x \in A, \A i \in 1..Len(d) : d[i] # x,
                          NEW i \in 1..Len(l), l[i] = x
                   PROVE  FALSE
        OBVIOUS
      <4>1. i # Len(l)
        BY <2>1, <2>9
      <4>2. i \in 1..(Len(l) - 1) /\ i \in 1..Len(d)
        BY <3>2, <3>3, <4>1
      <4> QED BY <3>2, <4>2
    <3>5. Lost(w, A \union {e}) \subseteq Lost(g, A) \union {e}
      BY <2>3, <2>5, <3>4
    <3>6. IsFiniteSet(Lost(g, A) \union {e})
          /\ Cardinality(Lost(g, A) \union {e}) <= Cardinality(Lost(g, A)) + 1
          /\ Cardinality(Lost(g, A) \union {e}) \in Nat
      <4>1. IsFiniteSet(Lost(g, A) \union {e})
            /\ \/ Cardinality(Lost(g, A) \union {e}) = Cardinality(Lost(g, A))
               \/ Cardinality(Lost(g, A) \union {e}) = Cardinality(Lost(g, A)) + 1
        BY <2>6, FS_AddElement
      <4> QED BY <2>7, <4>1
    <3>7. Cardinality(Lost(w, A \union {e})) <= Cardinality(Lost(g, A) \union {e})
          /\ IsFiniteSet(Lost(w, A \union {e}))
      BY <3>5, <3>6, FS_Subset
    <3>8. Cardinality(Lost(w, A \union {e})) \in Nat
      BY <3>7, FS_CardinalityType
    <3> QED BY <1>1, <2>1, <2>7, <2>9, <3>6, <3>7, <3>8
  <2> QED BY <2>8, <2>9
<1>10. ~h => Cardinality(Lost(w, A \union {e})) \in Nat
  <2>1. IsFiniteSet(A \union {e}) /\ Lost(w, A \union {e}) \subseteq A \union {e}
    BY <1>1, FS_AddElement DEF Lost
  <2>2. IsFiniteSet(Lost(w, A \union {e}))
    BY <2>1, FS_Subset
  <2> QED BY <2>2, FS_CardinalityType
<1>11. /\ A \union {e} \subseteq Items /\ IsFiniteSet(A \union {e})
       /\ \A x \in A \union {e} : x.id <= n + 1
  <2>1. IsFiniteSet(A \union {e})
    BY <1>1, FS_AddElement
  <2>2. \A x \in A : x.id \in Nat
    BY <1>1, ItemsAre
  <2> QED BY <1>1, <2>1, <2>2
<1>12. FileOK(w, A \union {e}, t, h, n + 1)
  <2>1. h \/ Torso(d) => t > 0
    BY <1>1, <1>2, <1>7
  <2>2. ~h => Cardinality(Lost(w, A \union {e})) + 0 <= t
    BY <1>9, <1>10
  <2> QED BY <1>1, <1>6, <1>7, <1>8, <1>11, <2>1, <2>2 DEF FileOK
<1>13. h \/ Held(w)
  BY <1>6, <1>7 DEF Held
<1>14. g.whole => w.lines = Append(g.lines, e) /\ w.whole
  BY <1>2, <1>3, <1>6
<1> QED
  BY <1>6, <1>8, <1>12, <1>13, <1>14

LEMMA SpoiledIs ==
  ASSUME NEW S, NEW l \in Seq(S), l # <<>>, Torn \in S
  PROVE  Spoiled(l) \in Seq(S) /\ Len(Spoiled(l)) = Len(l)
<1>1. PICK m : m = Len(l) - 1
  OBVIOUS
<1>2. m \in Nat /\ m <= Len(l) /\ Len(l) = m + 1
  BY <1>1
<1>3. PICK b : b = SubSeq(l, 1, m)
  OBVIOUS
<1>4. b \in Seq(S) /\ Len(b) = m
  BY <1>2, <1>3
<1>5. Spoiled(l) = b \o <<Torn>>
  BY <1>1, <1>3 DEF Spoiled
<1> QED
  BY <1>2, <1>4, <1>5

\* What is left of an append that ends early: the lines as they were, or with
\* one more, or with the last one spoiled.
LEMMA PartsOfOne ==
  ASSUME NEW g \in Records, ~g.whole => g.lines # <<>>, NEW e \in Lines,
         NEW p \in Partial(g, <<e>>)
  PROVE  /\ p \in Records /\ p.there = TRUE
         /\ \/ p.lines = g.lines /\ p.whole = g.whole
            \/ \E part \in {Torn, e} :
                 /\ p.whole = FALSE
                 /\ p.lines = IF g.whole THEN g.lines \o <<part>> ELSE Spoiled(g.lines)
<1>1. PICK G : G = [g EXCEPT !.there = TRUE]
  OBVIOUS
<1>2. G.there = TRUE /\ G.lines = g.lines /\ G.whole = g.whole /\ G \in Records
  BY <1>1 DEF Records
<1>3. \A part : <<part>> # <<>> /\ Tail(<<part>>) = <<>>
  OBVIOUS
<1>4. g.lines \in Seq(Lines) /\ g.whole \in BOOLEAN /\ Torn \in Lines
  BY DEF Records, Lines
<1>5. ~g.whole => Spoiled(g.lines) \in Seq(Lines)
  BY <1>4, SpoiledIs
<1>6. ~g.whole => Spoiled(g.lines) \o <<>> = Spoiled(g.lines)
  BY <1>5
<1>7. ASSUME NEW part \in {Torn, e}, NEW m,
             m = IF g.whole THEN g.lines \o <<part>> ELSE Spoiled(g.lines)
      PROVE  /\ Extended(G, <<part>>) = [there |-> TRUE, whole |-> TRUE, lines |-> m]
             /\ m \in Seq(Lines)
  <2>1. Extended(G, <<part>>) =
          [there |-> TRUE, whole |-> TRUE,
           lines |-> IF g.whole THEN g.lines \o <<part>>
                     ELSE Spoiled(g.lines) \o <<>>]
    BY <1>2, <1>3 DEF Extended, Spoiled
  <2>2. part \in Lines
    BY <1>4
  <2>3. g.lines \o <<part>> \in Seq(Lines)
    BY <1>4, <2>2
  <2> QED BY <1>5, <1>6, <1>7, <2>1, <2>3
<1>8. Extended(g, <<>>) = G
  BY <1>1 DEF Extended
<1>9. Len(<<e>>) = 1 /\ <<e>>[1] = e /\ SubSeq(<<e>>, 1, 0) = <<>>
  OBVIOUS
<1>10. PICK k \in 0..0 :
        p \in {Extended(g, SubSeq(<<e>>, 1, k))} \union
              {[Extended(Extended(g, SubSeq(<<e>>, 1, k)), <<part>>)
                 EXCEPT !.whole = FALSE] : part \in {Torn, <<e>>[k + 1]}}
  <2>1. Len(<<e>>) - 1 = 0
    BY <1>9
  <2> QED BY <2>1 DEF Partial
<1>11. k = 0 /\ k + 1 = 1
  OBVIOUS
<1>12. \/ p = G
       \/ \E part \in {Torn, e} : p = [Extended(G, <<part>>) EXCEPT !.whole = FALSE]
  <2>1. SubSeq(<<e>>, 1, k) = <<>> /\ <<e>>[k + 1] = e
    BY <1>9, <1>11
  <2>2. p \in {G} \union {[Extended(G, <<part>>) EXCEPT !.whole = FALSE] : part \in {Torn, e}}
    BY <1>8, <1>10, <2>1
  <2> QED BY <2>2
<1>13. ASSUME NEW part \in {Torn, e}, p = [Extended(G, <<part>>) EXCEPT !.whole = FALSE]
       PROVE  /\ p \in Records /\ p.there = TRUE /\ p.whole = FALSE
              /\ p.lines = IF g.whole THEN g.lines \o <<part>> ELSE Spoiled(g.lines)
  <2>1. PICK m : m = IF g.whole THEN g.lines \o <<part>> ELSE Spoiled(g.lines)
    OBVIOUS
  <2>2. Extended(G, <<part>>) = [there |-> TRUE, whole |-> TRUE, lines |-> m]
        /\ m \in Seq(Lines)
    BY <1>7, <2>1
  <2>3. PICK X : X = Extended(G, <<part>>)
    OBVIOUS
  <2>4. X \in Records /\ X.there = TRUE /\ X.lines = m
    <3>1. X = [there |-> TRUE, whole |-> TRUE, lines |-> m]
      BY <2>2, <2>3
    <3>2. [there |-> TRUE, whole |-> TRUE, lines |-> m] \in Records
      BY <2>2, RecordIs
    <3> QED BY <3>1, <3>2
  <2>5. p = [X EXCEPT !.whole = FALSE]
    BY <1>13, <2>3
  <2>6. p \in Records /\ p.there = TRUE /\ p.whole = FALSE /\ p.lines = m
    BY <2>4, <2>5 DEF Records
  <2> QED BY <2>1, <2>6
<1> QED
  BY <1>2, <1>12, <1>13

\* An append to g ended early and left p.
Less(p, g, A, t, h, n, e, u, k) ==
  /\ h \in BOOLEAN /\ k \in BOOLEAN /\ n \in Nat /\ FileOK(g, A, t, h, n) /\ ~Old(g)
  /\ e \in Items /\ e.id = n + 1 /\ e.parentId <= n
  /\ p \in Partial(g, <<e>>)
  /\ u = (IF p.whole THEN t ELSE t + 1)
  /\ k = (h \/ (p.lines = <<Header>> /\ ~p.whole))

LEMMA BrokenAppendIsOK ==
  ASSUME NEW p, NEW g, NEW A, NEW t, NEW h, NEW n, NEW e, NEW u, NEW k,
         Less(p, g, A, t, h, n, e, u, k)
  PROVE  /\ FileOK(p, A, u, k, n + 1) /\ ~Old(p) /\ p.there
         /\ (h = FALSE => Held(g)) => (k = FALSE => Held(p))
<1> USE DEF Less
<1>1. /\ g \in Records /\ Clean(g.lines, n) /\ t \in Nat /\ A \in SUBSET Items
      /\ IsFiniteSet(A) /\ (\A x \in A : x.id <= n)
      /\ (~g.whole => g.lines # <<>>) /\ (g.lines = <<Header>> /\ ~g.whole => h)
      /\ (h \/ ~g.whole \/ Torso(g.lines) => t > 0)
  BY DEF FileOK
<1>2. PICK l : l = g.lines
  OBVIOUS
<1>3. PICK d : d = p.lines
  OBVIOUS
<1>4. /\ Clean(l, n) /\ l \in Seq(Items \union {Torn, Header}) /\ g.whole \in BOOLEAN
      /\ Len(l) \in Nat
  BY <1>1, <1>2 DEF Clean, Records
<1>5. /\ p \in Records /\ p.there = TRUE
      /\ \/ d = l /\ p.whole = g.whole
         \/ \E part \in {Torn, e} :
              p.whole = FALSE /\ d = IF g.whole THEN l \o <<part>> ELSE Spoiled(l)
  <2>1. e \in Lines
    BY DEF Lines
  <2> QED BY <1>1, <1>2, <1>3, <2>1, PartsOfOne
<1>6. ~h => Cardinality(Lost(g, A)) + (IF g.whole THEN 0 ELSE 1) <= t
            /\ (~g.whole => l[Len(l)] \notin A)
  BY <1>2 DEF FileOK
<1>7. Lost(g, A) = IF Headed(l) THEN {x \in A : \A i \in 1..Len(l) : l[i] # x} ELSE A
  <2>1. Lost(g, A) = IF Headed(g.lines)
                     THEN {x \in A : \A i \in 1..Len(g.lines) : g.lines[i] # x}
                     ELSE A
    BY <1>1, LostIs
  <2> QED BY <1>2, <2>1
<1>8. IsFiniteSet(Lost(g, A)) /\ Cardinality(Lost(g, A)) \in Nat
  <2>1. Lost(g, A) \subseteq A
    BY <1>7
  <2> QED BY <1>1, <2>1, FS_Subset, FS_CardinalityType
<1>9. \A x \in A : x.id \in Nat /\ x.id <= n /\ x # e /\ x # Torn
  <2>1. \A x \in A : x.id \in Nat /\ x.id <= n /\ x # Torn
    BY <1>1, ItemsAre
  <2> QED BY <2>1
  \* Three cases, of which each gives these facts.
<1>10. ASSUME Clean(d, n + 1),
              ~p.whole => d # <<>>,
              ~h => Cardinality(Lost(p, A)) <= Cardinality(Lost(g, A))
                    /\ Cardinality(Lost(p, A)) \in Nat
                    /\ (~p.whole => d[Len(d)] \notin A),
              p.whole => g.whole /\ (Torso(d) => t > 0)
       PROVE  FileOK(p, A, u, k, n + 1) /\ ~Old(p)
  <2>1. u \in Nat /\ t <= u /\ (~p.whole => u = t + 1) /\ (p.whole => u = t)
    BY <1>1
  <2>2. k \/ ~p.whole \/ Torso(d) => u > 0
    <3>1. CASE p.whole
      BY <1>1, <1>10, <2>1, <3>1
    <3>2. CASE ~p.whole
      BY <1>1, <2>1, <3>2
    <3> QED BY <3>1, <3>2
  <2>3. \A x \in A : x.id <= n + 1
    BY <1>9
  <2>4. ~k => Cardinality(Lost(p, A)) + (IF p.whole THEN 0 ELSE 1) <= u
    <3>1. CASE p.whole
      BY <1>1, <1>6, <1>8, <1>10, <2>1, <3>1
    <3>2. CASE ~p.whole
      BY <1>1, <1>4, <1>6, <1>8, <1>10, <2>1, <3>2
    <3> QED BY <3>1, <3>2
  <2>5. ~Old(p)
    <3> SUFFICES ASSUME Old(p) PROVE FALSE
      OBVIOUS
    <3>1. d # <<>> /\ d[1] = OldHeader
      BY <1>3 DEF Old
    <3>2. d \in Seq(Items \union {Torn, Header})
      BY <1>10 DEF Clean
    <3>3. d[1] \in Items \union {Torn, Header}
      BY <3>1, <3>2
    <3> QED BY <3>1, <3>3, ItemsAre, Markers
  <2> QED
    BY <1>1, <1>3, <1>5, <1>10, <2>1, <2>2, <2>3, <2>4, <2>5 DEF FileOK
<1>11. ASSUME Clean(d, n + 1), Headed(l) => Headed(d) \/ h,
              ~h => \A x \in A : (\E i \in 1..Len(l) : l[i] = x) =>
                                    \E i \in 1..Len(d) : d[i] = x
       PROVE  ~h => /\ Cardinality(Lost(p, A)) <= Cardinality(Lost(g, A))
                    /\ Cardinality(Lost(p, A)) \in Nat
  <2> SUFFICES ASSUME ~h
               PROVE  /\ Cardinality(Lost(p, A)) <= Cardinality(Lost(g, A))
                      /\ Cardinality(Lost(p, A)) \in Nat
    OBVIOUS
  <2>1. n + 1 \in Nat /\ Clean(p.lines, n + 1)
    BY <1>3, <1>11
  <2>2. Lost(p, A) = IF Headed(d) THEN {x \in A : \A i \in 1..Len(d) : d[i] # x} ELSE A
    <3> HIDE DEF Less
    <3>1. Lost(p, A) = IF Headed(p.lines)
                       THEN {x \in A : \A i \in 1..Len(p.lines) : p.lines[i] # x}
                       ELSE A
      BY <1>1, <2>1, LostIs
    <3> QED BY <1>3, <3>1
  <2>3. Lost(p, A) \subseteq Lost(g, A)
    BY <1>7, <1>11, <2>2
  <2>4. IsFiniteSet(Lost(p, A)) /\ Cardinality(Lost(p, A)) <= Cardinality(Lost(g, A))
    BY <1>8, <2>3, FS_Subset
  <2> QED BY <2>4, FS_CardinalityType
<1>12. CASE d = l /\ p.whole = g.whole
  <2>1. Clean(d, n + 1)
    <3>1. n + 1 \in Nat /\ n <= n + 1
      OBVIOUS
    <3>2. \A x \in Nat : x <= n => x <= n + 1
      OBVIOUS
    <3> QED BY <1>4, <1>12, <3>2, ItemsAre DEF Clean
  <2>2. ~h => /\ Cardinality(Lost(p, A)) <= Cardinality(Lost(g, A))
              /\ Cardinality(Lost(p, A)) \in Nat
    BY <1>11, <1>12, <2>1
  <2>3. FileOK(p, A, u, k, n + 1) /\ ~Old(p)
    BY <1>1, <1>2, <1>6, <1>10, <1>12, <2>1, <2>2
  <2>4. Held(g) => Held(p)
    BY <1>2, <1>3, <1>12 DEF Held
  <2> QED BY <1>5, <2>3, <2>4
<1>13. ASSUME g.whole, NEW part \in {Torn, e}, p.whole = FALSE, d = l \o <<part>>
       PROVE  /\ FileOK(p, A, u, k, n + 1) /\ ~Old(p)
              /\ h \/ Held(g) => k \/ Held(p)
  <2>1. d = Append(l, part)
    BY <1>4, <1>13
  <2>2. /\ Clean(d, n + 1) /\ Len(d) = Len(l) + 1 /\ d[Len(l) + 1] = part
        /\ \A i \in 1..Len(l) : d[i] = l[i]
        /\ Headed(l) => Headed(d)
    BY <1>4, <2>1, CleanWithMore
  <2>3. 1..Len(l) \subseteq 1..Len(d) /\ Len(d) # 0
    BY <1>4, <2>2
  <2>4. \A x \in A : (\E i \in 1..Len(l) : l[i] = x) => \E i \in 1..Len(d) : d[i] = x
    BY <2>2, <2>3
  <2>5. ~h => /\ Cardinality(Lost(p, A)) <= Cardinality(Lost(g, A))
              /\ Cardinality(Lost(p, A)) \in Nat
    BY <1>11, <2>2, <2>4
  <2>6. d[Len(d)] \notin A /\ d # <<>>
    BY <1>9, <1>13, <2>2, <2>3
  <2>7. FileOK(p, A, u, k, n + 1) /\ ~Old(p)
    BY <1>10, <1>13, <2>2, <2>5, <2>6
  <2>8. Held(g) => Held(p)
    <3>1. Headed(l) => Len(l) > 0 /\ Headed(d)
      BY <1>4, <2>2 DEF Headed
    <3>2. Headed(l) => Len(d) > 1
      BY <1>4, <2>2, <3>1
    <3> QED BY <1>2, <1>3, <3>1, <3>2 DEF Held
  <2> QED BY <2>7, <2>8
<1>14. ASSUME ~g.whole, p.whole = FALSE, d = Spoiled(l)
       PROVE  /\ FileOK(p, A, u, k, n + 1) /\ ~Old(p)
              /\ h \/ Held(g) => k \/ Held(p)
  <2>1. l # <<>>
    BY <1>1, <1>2, <1>14
  <2>2. /\ Clean(d, n + 1) /\ Len(d) = Len(l) /\ d[Len(l)] = Torn
        /\ \A i \in 1..(Len(l) - 1) : d[i] = l[i]
        /\ Headed(l) /\ Len(l) > 1 => Headed(d)
    BY <1>4, <1>14, <2>1, CleanSpoiled
  <2>3. Headed(l) => Headed(d) \/ h
    <3>1. Headed(l) /\ Len(l) = 1 => l = <<Header>>
      BY <1>4 DEF Headed
    <3>2. Len(l) = 1 \/ Len(l) > 1
      <4>1. PICK q : q = Len(l)
        OBVIOUS
      <4>2. q \in Nat /\ q # 0
        BY <1>4, <2>1, <4>1
      <4> QED BY <4>1, <4>2
    <3> QED BY <1>1, <1>2, <1>14, <2>2, <3>1, <3>2
  <2>4. ~h => \A x \in A : (\E i \in 1..Len(l) : l[i] = x) =>
                              \E i \in 1..Len(d) : d[i] = x
    <3> SUFFICES ASSUME ~h, NEW x \in A, NEW i \in 1..Len(l), l[i] = x
                 PROVE  \E j \in 1..Len(d) : d[j] = x
      OBVIOUS
    <3>1. i # Len(l)
      BY <1>6, <1>14
    <3>2. i \in 1..(Len(l) - 1) /\ i \in 1..Len(d)
      BY <1>4, <2>2, <3>1
    <3> QED BY <2>2, <3>2
  <2>5. ~h => /\ Cardinality(Lost(p, A)) <= Cardinality(Lost(g, A))
              /\ Cardinality(Lost(p, A)) \in Nat
    BY <1>11, <2>2, <2>3, <2>4
  <2>6. d[Len(d)] \notin A /\ d # <<>>
    <3>1. d[Len(d)] = Torn
      BY <2>2
    <3>2. Len(d) # 0
      BY <1>4, <2>1, <2>2
    <3> QED BY <1>9, <3>1, <3>2
  <2>7. FileOK(p, A, u, k, n + 1) /\ ~Old(p)
    BY <1>10, <1>14, <2>2, <2>5, <2>6
  <2>8. Held(g) => Held(p)
    BY <1>2, <1>3, <1>14, <2>2 DEF Held
  <2> QED BY <2>7, <2>8
<1> QED
  BY <1>5, <1>12, <1>13, <1>14

\* A file is written anew.
Anew(w, g, A, t, h, n, m, N, B, C) ==
  /\ h \in BOOLEAN /\ n \in Nat /\ m \in Nat /\ n <= m
  /\ FileOK(g, A, t, h, n)
  /\ N \in Seq(Items \union {Header}) /\ Clean(N, m) /\ Headed(N) /\ ~Torso(N)
  /\ B \in {Absent, Empty}
  /\ \/ C = A /\ Lost(g, A) = A
     \/ /\ C \subseteq Items /\ IsFiniteSet(C)
        /\ \A e \in C : e.id <= m /\ \E i \in 1..Len(N) : N[i] = e
  /\ w = Extended(B, N)

LEMMA RewriteIsOK ==
  ASSUME NEW w, NEW g, NEW A, NEW t, NEW h, NEW n, NEW m, NEW N, NEW B, NEW C,
         Anew(w, g, A, t, h, n, m, N, B, C)
  PROVE  /\ FileOK(w, C, t, h, m) /\ ~Old(w) /\ Held(w)
         /\ w.there = TRUE /\ w.whole = TRUE /\ w.lines = N
<1> USE DEF Anew
<1>1. N # <<>> /\ N[1] = Header /\ <<>> \o N = N
  BY DEF Headed
<1>2. w = [there |-> TRUE, whole |-> TRUE, lines |-> N]
  <2>1. B.whole = TRUE /\ B.lines = <<>>
    BY DEF Absent, Empty
  <2> QED BY <1>1, <2>1 DEF Extended
<1>3. w.there = TRUE /\ w.whole = TRUE /\ w.lines = N
  BY <1>2
<1>4. w \in Records
  <2>1. N \in Seq(Lines)
    <3>1. Items \union {Header} \subseteq Lines
      BY DEF Lines
    <3> QED BY <3>1
  <2>2. [there |-> TRUE, whole |-> TRUE, lines |-> N] \in Records
    BY <2>1, RecordIs
  <2> QED BY <1>2, <2>2
<1>5. /\ t \in Nat /\ A \subseteq Items /\ IsFiniteSet(A) /\ (h => t > 0)
      /\ (\A e \in A : e.id <= n)
      /\ ~h => Cardinality(Lost(g, A)) + (IF g.whole THEN 0 ELSE 1) <= t
  BY DEF FileOK
<1>6. C \in SUBSET Items /\ IsFiniteSet(C) /\ \A e \in C : e.id <= m
  <2>1. \A e \in A : e.id <= m
    BY <1>5, ItemsAre
  <2> QED BY <1>5, <2>1
<1>7. Lost(w, C) = {x \in C : \A i \in 1..Len(N) : N[i] # x}
  <2>1. Clean(w.lines, m) /\ Headed(w.lines) /\ ~Torso(w.lines)
    BY <1>3
  <2>2. Loaded(w) = w.lines
    BY <2>1, LoadedWhole
  <2>3. DOMAIN N = 1..Len(N)
    OBVIOUS
  <2> QED BY <1>3, <2>2, <2>3 DEF Lost
<1>8. ~h => Cardinality(Lost(w, C)) + 0 <= t
  <2> SUFFICES ASSUME ~h PROVE Cardinality(Lost(w, C)) + 0 <= t
    OBVIOUS
  <2>1. CASE C = A /\ Lost(g, A) = A
    <3>1. Lost(w, C) \subseteq A /\ IsFiniteSet(Lost(w, C))
      BY <1>5, <1>7, <2>1, FS_Subset
    <3>2. Cardinality(Lost(w, C)) <= Cardinality(A)
      BY <1>5, <3>1, FS_Subset
    <3>3. Cardinality(Lost(w, C)) \in Nat /\ Cardinality(A) \in Nat
      BY <1>5, <3>1, FS_CardinalityType
    <3>4. Cardinality(A) + (IF g.whole THEN 0 ELSE 1) <= t
      BY <1>5, <2>1
    <3> QED BY <1>5, <3>2, <3>3, <3>4
  <2>2. CASE \A e \in C : \E i \in 1..Len(N) : N[i] = e
    <3>1. Lost(w, C) = {}
      BY <1>7, <2>2
    <3> QED BY <1>5, <3>1, FS_EmptySet
  <2> QED BY <2>1, <2>2
<1>9. ~Old(w)
  BY <1>1, <1>3, Markers DEF Old
<1>10. FileOK(w, C, t, h, m)
  BY <1>3, <1>4, <1>5, <1>6, <1>8 DEF FileOK
<1>11. Held(w)
  BY <1>3 DEF Held
<1> QED
  BY <1>3, <1>9, <1>10, <1>11

LEMMA CleanPrefix ==
  ASSUME NEW m \in Nat, NEW N, Clean(N, m), NEW k \in 0..Len(N), NEW d, d = SubSeq(N, 1, k)
  PROVE  /\ Clean(d, m) /\ d \in Seq(Items \union {Torn, Header}) /\ Len(d) = k
         /\ \A i \in 1..k : d[i] = N[i] /\ i \in 1..Len(N)
<1>1. N \in Seq(Items \union {Torn, Header}) /\ Len(N) \in Nat
  BY DEF Clean
<1>2. /\ d \in Seq(Items \union {Torn, Header}) /\ Len(d) = k
      /\ \A i \in 1..k : d[i] = N[i]
  BY <1>1
<1>3. \A i \in 1..k : i \in 1..Len(N)
  BY <1>1
<1> QED
  BY <1>2, <1>3 DEF Clean

LEMMA CleanTorn ==
  ASSUME NEW m \in Nat, NEW N, Clean(N, m), NEW d, d = N \o <<Torn>>
  PROVE  /\ Clean(d, m) /\ Len(d) = Len(N) + 1 /\ d[Len(N) + 1] = Torn
         /\ \A i \in 1..Len(N) : d[i] = N[i]
<1>1. N \in Seq(Items \union {Torn, Header}) /\ Len(N) \in Nat
  BY DEF Clean
<1>2. /\ d \in Seq(Items \union {Torn, Header}) /\ Len(d) = Len(N) + 1
      /\ d[Len(N) + 1] = Torn /\ \A i \in 1..Len(N) : d[i] = N[i]
  BY <1>1
<1>3. \A i \in 1..Len(d) : d[i] # Torn => i \in 1..Len(N) /\ d[i] = N[i]
  BY <1>1, <1>2
<1>4. \A i \in 1..Len(d) : d[i] = Header => i = 1
  BY <1>3, Markers DEF Clean
<1>5. \A i, j \in 1..Len(d) : i < j /\ d[i] # Torn /\ d[j] # Torn => d[i].id < d[j].id
  BY <1>3 DEF Clean
<1>6. \A i \in 1..Len(d) : d[i] \in Items => d[i].parentId < d[i].id /\ d[i].id <= m
  BY <1>3, ItemsAre DEF Clean
<1> QED
  BY <1>2, <1>4, <1>5, <1>6 DEF Clean

\* What is left when a file was to be written anew: the first lines, and perhaps
\* a part of the next.
LEMMA PartsOfMany ==
  ASSUME NEW B \in {Absent, Empty}, NEW m \in Nat, NEW N, Clean(N, m), ~Torso(N),
         NEW p \in Partial(B, N)
  PROVE  /\ p \in Records /\ p.there = TRUE /\ Clean(p.lines, m)
         /\ \/ p.whole = TRUE /\ ~Torso(p.lines)
            \/ /\ p.whole = FALSE /\ p.lines # <<>>
               /\ \/ p.lines[Len(p.lines)] = Torn
                  \/ \E i \in 1..Len(N) : p.lines[Len(p.lines)] = N[i]
<1>1. N \in Seq(Items \union {Torn, Header}) /\ Len(N) \in Nat
  BY DEF Clean
<1>2. PICK k \in 0..(Len(N) - 1) :
        p \in {Extended(B, SubSeq(N, 1, k))} \union
              {[Extended(Extended(B, SubSeq(N, 1, k)), <<part>>)
                 EXCEPT !.whole = FALSE] : part \in {Torn, N[k + 1]}}
  BY DEF Partial
<1>3. PICK b : b = SubSeq(N, 1, k)
  OBVIOUS
<1>4. k \in Nat /\ k \in 0..Len(N) /\ k + 1 \in 0..Len(N) /\ k + 1 \in 1..Len(N)
  BY <1>1
<1>5. /\ Clean(b, m) /\ b \in Seq(Items \union {Torn, Header}) /\ Len(b) = k
      /\ \A i \in 1..k : b[i] = N[i] /\ i \in 1..Len(N)
  BY <1>3, <1>4, CleanPrefix
<1>6. \A l \in Seq(Items \union {Torn, Header}) : l \in Seq(Lines)
  <2>1. Items \union {Torn, Header} \subseteq Lines
    BY DEF Lines
  <2> QED BY <2>1
<1>7. PICK G : G = Extended(B, b)
  OBVIOUS
<1>8. G \in Records /\ G.there = TRUE /\ G.whole = TRUE /\ G.lines = b
  <2>1. B.whole = TRUE /\ B.lines = <<>> /\ B \in Records
    <3>1. <<>> \in Seq(Lines) /\ TRUE \in BOOLEAN /\ FALSE \in BOOLEAN
      OBVIOUS
    <3>2. /\ [there |-> FALSE, lines |-> <<>>, whole |-> TRUE] \in Records
          /\ [there |-> TRUE, lines |-> <<>>, whole |-> TRUE] \in Records
      BY <3>1, RecordIs
    <3>3. Absent \in Records /\ Empty \in Records
      BY <3>2 DEF Absent, Empty
    <3>4. /\ Absent.whole = TRUE /\ Absent.lines = <<>>
          /\ Empty.whole = TRUE /\ Empty.lines = <<>>
      BY DEF Absent, Empty
    <3> QED BY <3>3, <3>4
  <2>2. CASE b = <<>>
    <3>1. G = [B EXCEPT !.there = TRUE]
      BY <1>7, <2>2 DEF Extended
    <3> QED BY <2>1, <2>2, <3>1 DEF Records
  <2>3. CASE b # <<>>
    <3>1. <<>> \o b = b
      BY <1>5
    <3>2. G = [there |-> TRUE, whole |-> TRUE, lines |-> b]
      BY <1>7, <2>1, <2>3, <3>1 DEF Extended
    <3>3. b \in Seq(Lines)
      BY <1>5, <1>6
    <3>4. [there |-> TRUE, whole |-> TRUE, lines |-> b] \in Records
      BY <3>3, RecordIs
    <3> QED BY <3>2, <3>4
  <2> QED BY <2>2, <2>3
<1>9. \/ p = G
      \/ \E part \in {Torn, N[k + 1]} : p = [Extended(G, <<part>>) EXCEPT !.whole = FALSE]
  BY <1>2, <1>3, <1>7
<1>10. ASSUME NEW part \in {Torn, N[k + 1]},
              p = [Extended(G, <<part>>) EXCEPT !.whole = FALSE]
       PROVE  /\ p \in Records /\ p.there = TRUE /\ p.whole = FALSE
              /\ p.lines = b \o <<part>> /\ Clean(b \o <<part>>, m)
              /\ Len(b \o <<part>>) = k + 1 /\ (b \o <<part>>)[k + 1] = part
  <2>1. PICK d : d = b \o <<part>>
    OBVIOUS
  <2>2. Clean(d, m) /\ Len(d) = k + 1 /\ d[k + 1] = part
    <3>1. CASE part = Torn
      BY <1>5, <2>1, <3>1, CleanTorn
    <3>2. CASE part = N[k + 1]
      <4>1. d = SubSeq(N, 1, k + 1)
        <5>1. PICK z : z = SubSeq(N, 1, k + 1)
          OBVIOUS
        <5>2. Len(z) = k + 1 /\ z \in Seq(Items \union {Torn, Header})
              /\ \A i \in 1..(k + 1) : z[i] = N[i]
          BY <1>1, <1>4, <5>1
        <5>3. part \in Items \union {Torn, Header}
          BY <1>1, <1>4, <3>2
        <5>4. Len(d) = k + 1 /\ d \in Seq(Items \union {Torn, Header})
              /\ d[k + 1] = part /\ \A i \in 1..k : d[i] = b[i]
          BY <1>4, <1>5, <2>1, <5>3
        <5>5. \A i \in 1..(k + 1) : i \in 1..k \/ i = k + 1
          BY <1>4
        <5>6. \A i \in 1..(k + 1) : d[i] = z[i]
          BY <1>5, <3>2, <5>2, <5>4, <5>5
        <5> QED BY <5>1, <5>2, <5>4, <5>6
      <4>2. PICK q : q = k + 1
        OBVIOUS
      <4>3. q \in 0..Len(N) /\ q \in 1..q /\ d = SubSeq(N, 1, q)
        BY <1>4, <4>1, <4>2
      <4>4. Clean(d, m) /\ Len(d) = q /\ \A i \in 1..q : d[i] = N[i]
        BY <4>3, CleanPrefix
      <4> QED BY <3>2, <4>2, <4>3, <4>4
    <3> QED BY <3>1, <3>2
  <2>3. PICK X : X = Extended(G, <<part>>)
    OBVIOUS
  <2>4. X \in Records /\ X.there = TRUE /\ X.lines = d
    <3>1. <<part>> # <<>>
      OBVIOUS
    <3>2. X = [there |-> TRUE, whole |-> TRUE, lines |-> d]
      BY <1>8, <2>1, <2>3, <3>1 DEF Extended
    <3>3. d \in Seq(Lines)
      BY <1>6, <2>2 DEF Clean
    <3>4. [there |-> TRUE, whole |-> TRUE, lines |-> d] \in Records
      BY <3>3, RecordIs
    <3> QED BY <3>2, <3>4
  <2>5. p = [X EXCEPT !.whole = FALSE]
    BY <1>10, <2>3
  <2>6. p \in Records /\ p.there = TRUE /\ p.whole = FALSE /\ p.lines = d
    BY <2>4, <2>5 DEF Records
  <2> QED BY <2>1, <2>2, <2>6
<1>11. CASE p = G
  <2>1. ~Torso(b)
    BY <1>5 DEF Torso
  <2> QED BY <1>5, <1>8, <1>11, <2>1
<1>12. CASE \E part \in {Torn, N[k + 1]} :
              p = [Extended(G, <<part>>) EXCEPT !.whole = FALSE]
  <2>1. PICK part \in {Torn, N[k + 1]} :
          p = [Extended(G, <<part>>) EXCEPT !.whole = FALSE]
    BY <1>12
  <2>2. /\ p \in Records /\ p.there = TRUE /\ p.whole = FALSE
        /\ p.lines = b \o <<part>> /\ Clean(b \o <<part>>, m)
        /\ Len(b \o <<part>>) = k + 1 /\ (b \o <<part>>)[k + 1] = part
    BY <1>10, <2>1
  <2>3. p.lines[Len(p.lines)] = part /\ p.lines # <<>>
    BY <1>4, <2>2
  <2> QED BY <1>4, <2>2, <2>3
<1> QED
  BY <1>9, <1>11, <1>12

\* The file g was to be written anew and p is left.
Half(p, g, A, t, h, n, m, N, B, u, k) ==
  /\ h \in BOOLEAN /\ k \in BOOLEAN /\ n \in Nat /\ m \in Nat /\ n <= m
  /\ FileOK(g, A, t, h, n) /\ Lost(g, A) = A
  /\ Clean(N, m) /\ ~Torso(N) /\ \A i \in 1..Len(N) : N[i] \notin A
  /\ B \in {Absent, Empty} /\ p \in Partial(B, N)
  /\ u = (IF p.whole THEN t ELSE t + 1)
  /\ k = (h \/ (p.lines = <<Header>> /\ ~p.whole))

LEMMA BrokenRewriteIsOK ==
  ASSUME NEW p, NEW g, NEW A, NEW t, NEW h, NEW n, NEW m, NEW N, NEW B, NEW u, NEW k,
         Half(p, g, A, t, h, n, m, N, B, u, k)
  PROVE  FileOK(p, A, u, k, m) /\ ~Old(p) /\ p.there = TRUE
<1> USE DEF Half
<1>1. PICK d : d = p.lines
  OBVIOUS
<1>2. /\ p \in Records /\ p.there = TRUE /\ Clean(d, m)
      /\ \/ p.whole = TRUE /\ ~Torso(d)
         \/ /\ p.whole = FALSE /\ d # <<>>
            /\ d[Len(d)] = Torn \/ \E i \in 1..Len(N) : d[Len(d)] = N[i]
  <2>1. /\ p \in Records /\ p.there = TRUE /\ Clean(p.lines, m)
        /\ \/ p.whole = TRUE /\ ~Torso(p.lines)
           \/ /\ p.whole = FALSE /\ p.lines # <<>>
              /\ \/ p.lines[Len(p.lines)] = Torn
                 \/ \E i \in 1..Len(N) : p.lines[Len(p.lines)] = N[i]
    BY PartsOfMany
  <2> QED BY <1>1, <2>1
<1>3. /\ t \in Nat /\ A \subseteq Items /\ IsFiniteSet(A) /\ (h => t > 0)
      /\ (\A e \in A : e.id <= n)
      /\ ~h => Cardinality(Lost(g, A)) + (IF g.whole THEN 0 ELSE 1) <= t
  BY DEF FileOK
<1>4. \A e \in A : e.id <= m /\ e # Torn
  <2>1. \A e \in A : e.id \in Nat /\ e # Torn
    BY <1>3, ItemsAre
  <2> QED BY <1>3, <2>1
<1>5. ~Old(p)
  <2> SUFFICES ASSUME Old(p) PROVE FALSE
    OBVIOUS
  <2>1. d # <<>> /\ d[1] = OldHeader
    BY <1>1 DEF Old
  <2>2. d \in Seq(Items \union {Torn, Header})
    BY <1>2 DEF Clean
  <2>3. d[1] \in Items \union {Torn, Header}
    BY <2>1, <2>2
  <2> QED BY <2>1, <2>3, ItemsAre, Markers
<1>6. ~h => /\ Cardinality(Lost(p, A)) \in Nat /\ Cardinality(Lost(p, A)) <= t
  <2> SUFFICES ASSUME ~h
               PROVE  Cardinality(Lost(p, A)) \in Nat /\ Cardinality(Lost(p, A)) <= t
    OBVIOUS
  <2>1. Lost(p, A) \subseteq A
    BY DEF Lost
  <2>2. IsFiniteSet(Lost(p, A)) /\ Cardinality(Lost(p, A)) <= Cardinality(A)
    BY <1>3, <2>1, FS_Subset
  <2>3. Cardinality(A) \in Nat /\ Cardinality(Lost(p, A)) \in Nat
    BY <1>3, <2>2, FS_CardinalityType
  <2>4. Cardinality(A) + (IF g.whole THEN 0 ELSE 1) <= t
    BY <1>3
  <2> QED BY <1>3, <2>2, <2>3, <2>4
<1>7. CASE p.whole = TRUE /\ ~Torso(d)
  <2>1. u = t /\ k = h
    BY <1>7
  <2>2. ~h => Cardinality(Lost(p, A)) + 0 <= t
    BY <1>6
  <2> QED BY <1>1, <1>2, <1>3, <1>4, <1>5, <1>7, <2>1, <2>2 DEF FileOK
<1>8. CASE /\ p.whole = FALSE /\ d # <<>>
           /\ d[Len(d)] = Torn \/ \E i \in 1..Len(N) : d[Len(d)] = N[i]
  <2>1. u = t + 1 /\ u \in Nat /\ u > 0
    BY <1>3, <1>8
  <2>2. d[Len(d)] \notin A
    BY <1>4, <1>8
  <2>3. ~k => Cardinality(Lost(p, A)) + 1 <= u
    BY <1>3, <1>6, <2>1
  <2> QED BY <1>1, <1>2, <1>3, <1>4, <1>5, <1>8, <2>1, <2>2, <2>3 DEF FileOK
<1> QED
  BY <1>2, <1>7, <1>8

-----------------------------------------------------------------------------
(* Labels and paths, which are defined by recursion *)

LEMMA CountUp ==
  ASSUME NEW S \in SUBSET Nat, 0 \in S, \A n \in S : n + 1 \in S
  PROVE  \A n \in Nat : n \in S
<1> SUFFICES ASSUME NEW m \in Nat, m \notin S PROVE FALSE
  OBVIOUS
<1> DEFINE T == {n \in Nat : n \notin S}
<1>1. T \subseteq Nat /\ T # {}
  OBVIOUS
<1>2. PICK n \in T : \A y \in T : ~(<<y, n>> \in OpToRel(<, Nat))
  <2> HIDE DEF T
  <2> QED BY <1>1, WFMin, NatLessThanWellFounded
<1>3. n \in Nat /\ n \notin S /\ n # 0
  BY <1>2
<1>4. n - 1 \in Nat /\ <<n - 1, n>> \in OpToRel(<, Nat)
  BY <1>3 DEF OpToRel
<1>5. n - 1 \in S
  BY <1>2, <1>4
<1>6. (n - 1) + 1 \in S
  BY <1>5
<1> QED
  BY <1>3, <1>6

\* f gives the labels after the first entries.
LabelledBy(f, s, n) ==
  f = [i \in 0..n |-> IF i = 0 THEN <<>> ELSE LabelsAfter(f[i - 1], s[i])]

LEMMA LabelledAt ==
  ASSUME NEW f, NEW s, NEW n \in Nat, LabelledBy(f, s, n)
  PROVE  /\ f[0] = <<>>
         /\ \A i \in 1..n : f[i] = LabelsAfter(f[i - 1], s[i])
<1>1. \A i \in 0..n : f[i] = IF i = 0 THEN <<>> ELSE LabelsAfter(f[i - 1], s[i])
  BY DEF LabelledBy
<1>2. 0 \in 0..n /\ \A i \in 1..n : i \in 0..n /\ i # 0
  OBVIOUS
<1> QED
  BY <1>1, <1>2

LEMMA LabelledExists ==
  ASSUME NEW s
  PROVE  \A n \in Nat : \E f : LabelledBy(f, s, n)
<1> DEFINE S == {n \in Nat : \E f : LabelledBy(f, s, n)}
<1>1. 0 \in S
  <2> DEFINE f == [i \in 0..0 |-> <<>>]
  <2>1. \A i \in 0..0 : i = 0
    OBVIOUS
  <2>2. f = [i \in 0..0 |-> IF i = 0 THEN <<>> ELSE LabelsAfter(f[i - 1], s[i])]
    BY <2>1
  <2> HIDE DEF f
  <2>3. LabelledBy(f, s, 0)
    BY <2>2 DEF LabelledBy
  <2> QED BY <2>3
<1>2. ASSUME NEW n \in S PROVE n + 1 \in S
  <2>1. n \in Nat
    OBVIOUS
  <2>2. PICK f : LabelledBy(f, s, n)
    OBVIOUS
  <2> DEFINE final == LabelsAfter(f[n], s[n + 1])
             g == [i \in 0..(n + 1) |-> IF i = n + 1 THEN final ELSE f[i]]
  <2>3. f[0] = <<>> /\ \A i \in 1..n : f[i] = LabelsAfter(f[i - 1], s[i])
    BY <2>1, <2>2, LabelledAt
  <2> HIDE DEF S
  <2>4. g[n + 1] = final /\ \A i \in 0..n : g[i] = f[i]
    <3> HIDE DEF final
    <3> QED BY <2>1
  <2>5. g = [i \in 0..(n + 1) |-> g[i]]
    OBVIOUS
  <2> HIDE DEF g
  <2>6. ASSUME NEW i \in 0..(n + 1)
        PROVE  g[i] = IF i = 0 THEN <<>> ELSE LabelsAfter(g[i - 1], s[i])
    <3>1. CASE i = n + 1
      <4>1. i # 0 /\ i - 1 = n /\ n \in 0..n
        BY <2>1, <3>1
      <4> QED BY <2>4, <3>1, <4>1
    <3>2. CASE i = 0
      <4>1. 0 \in 0..n
        BY <2>1
      <4> QED BY <2>3, <2>4, <3>2, <4>1
    <3>3. CASE i # 0 /\ i # n + 1
      <4>1. i \in 1..n /\ i \in 0..n /\ i - 1 \in 0..n
        BY <2>1, <3>3
      <4> QED BY <2>3, <2>4, <3>3, <4>1
    <3> QED BY <3>1, <3>2, <3>3
  <2>7. LabelledBy(g, s, n + 1)
    BY <2>5, <2>6 DEF LabelledBy
  <2> QED BY <2>1, <2>7 DEF S
<1> HIDE DEF S
<1>3. S \in SUBSET Nat
  BY DEF S
<1>4. \A n \in Nat : n \in S
  BY <1>1, <1>2, <1>3, CountUp
<1> QED
  BY <1>4 DEF S

\* The labels after some entries depend on nothing else.
LEMMA LabelledSame ==
  ASSUME NEW f, NEW s, NEW n \in Nat, LabelledBy(f, s, n),
         NEW g, NEW r, NEW m \in Nat, LabelledBy(g, r, m),
         n <= m, \A i \in 1..n : s[i] = r[i]
  PROVE  f[n] = g[n]
<1> DEFINE S == {k \in Nat : k <= n => f[k] = g[k]}
<1>1. f[0] = <<>> /\ \A i \in 1..n : f[i] = LabelsAfter(f[i - 1], s[i])
  BY LabelledAt
<1>2. g[0] = <<>> /\ \A i \in 1..m : g[i] = LabelsAfter(g[i - 1], r[i])
  BY LabelledAt
<1>3. 0 \in S
  BY <1>1, <1>2
<1>4. ASSUME NEW k \in S PROVE k + 1 \in S
  <2>1. k \in Nat /\ (k <= n => f[k] = g[k])
    OBVIOUS
  <2>2. ASSUME k + 1 <= n PROVE f[k + 1] = g[k + 1]
    <3>1. k + 1 \in 1..n /\ k + 1 \in 1..m /\ (k + 1) - 1 = k /\ k <= n
      BY <2>1, <2>2
    <3>2. f[k + 1] = LabelsAfter(f[k], s[k + 1])
      BY <1>1, <3>1
    <3>3. g[k + 1] = LabelsAfter(g[k], r[k + 1])
      BY <1>2, <3>1
    <3>4. s[k + 1] = r[k + 1]
      BY <3>1
    <3> QED BY <2>1, <3>1, <3>2, <3>3, <3>4
  <2> QED BY <2>1, <2>2
<1>5. S \in SUBSET Nat
  OBVIOUS
<1>6. n \in S
  <2> HIDE DEF S
  <2> QED BY <1>3, <1>4, <1>5, CountUp
<1> QED
  BY <1>6

LEMMA LabelsOfIs ==
  ASSUME NEW S, NEW s \in Seq(S)
  PROVE  \E f : LabelledBy(f, s, Len(s)) /\ LabelsOf(s) = f[Len(s)]
<1> DEFINE by == CHOOSE f : LabelledBy(f, s, Len(s))
<1>1. LabelsOf(s) = by[Len(s)]
  BY DEF LabelsOf, LabelledBy
<1>2. LabelledBy(by, s, Len(s))
  <2>1. Len(s) \in Nat
    OBVIOUS
  <2> QED BY <2>1, LabelledExists
<1> HIDE DEF by
<1> QED
  BY <1>1, <1>2

LEMMA LabelsOfMore ==
  ASSUME NEW S, NEW s \in Seq(S), NEW e \in S
  PROVE  LabelsOf(Append(s, e)) = LabelsAfter(LabelsOf(s), e)
<1>1. PICK n : n = Len(s)
  OBVIOUS
<1>2. PICK r : r = Append(s, e)
  OBVIOUS
<1>3. /\ n \in Nat /\ r \in Seq(S) /\ Len(r) = n + 1 /\ r[n + 1] = e
      /\ \A i \in 1..n : s[i] = r[i]
  BY <1>1, <1>2
<1>4. PICK f : LabelledBy(f, s, n) /\ LabelsOf(s) = f[n]
  BY <1>1, LabelsOfIs
<1>5. PICK g : LabelledBy(g, r, n + 1) /\ LabelsOf(r) = g[n + 1]
  BY <1>3, LabelsOfIs
<1>6. n + 1 \in Nat /\ n <= n + 1 /\ n + 1 \in 1..(n + 1) /\ (n + 1) - 1 = n
  BY <1>3
<1>7. f[n] = g[n]
  BY <1>3, <1>4, <1>5, <1>6, LabelledSame
<1>8. \A i \in 1..(n + 1) : g[i] = LabelsAfter(g[i - 1], r[i])
  BY <1>5, <1>6, LabelledAt
<1>9. g[n + 1] = LabelsAfter(g[n], r[n + 1])
  BY <1>6, <1>8
<1> QED
  BY <1>2, <1>3, <1>4, <1>5, <1>7, <1>9

LEMMA LabelsAfterAreIds ==
  ASSUME NEW L \in Seq(Nat), NEW e \in Items
  PROVE  LabelsAfter(L, e) \in Seq(Nat)
<1>1. e.ref \in Nat
  BY ItemsAre
<1>2. Without(L, e.ref) \in Seq(Nat)
  <2>1. PICK n : n = Len(L)
    OBVIOUS
  <2>2. PICK P : P = {i \in DOMAIN L : L[i] # e.ref}
    OBVIOUS
  <2>3. n \in Nat /\ P \in SUBSET (1..n) /\ \A i \in P : L[i] \in Nat
    BY <2>1, <2>2
  <2>4. Picked(L, P) \in Seq(Nat)
    BY <2>3, PickedIs
  <2> QED BY <2>2, <2>4 DEF Without
<1>3. Append(L, e.ref) \in Seq(Nat)
  BY <1>1
<1> QED
  BY <1>2, <1>3 DEF LabelsAfter

LEMMA LabelsAreIds ==
  ASSUME NEW s \in Seq(Items)
  PROVE  LabelsOf(s) \in Seq(Nat)
<1>1. PICK n : n = Len(s)
  OBVIOUS
<1>2. n \in Nat /\ \A i \in 1..n : s[i] \in Items
  BY <1>1
<1>3. PICK f : LabelledBy(f, s, n) /\ LabelsOf(s) = f[n]
  BY <1>1, LabelsOfIs
<1>4. f[0] = <<>> /\ \A i \in 1..n : f[i] = LabelsAfter(f[i - 1], s[i])
  BY <1>2, <1>3, LabelledAt
<1> DEFINE S == {k \in Nat : k <= n => f[k] \in Seq(Nat)}
<1>5. 0 \in S
  <2>1. f[0] \in Seq(Nat)
    BY <1>4
  <2> QED BY <2>1
<1>6. ASSUME NEW k \in S PROVE k + 1 \in S
  <2>1. k \in Nat /\ (k <= n => f[k] \in Seq(Nat))
    OBVIOUS
  <2>2. ASSUME k + 1 <= n PROVE f[k + 1] \in Seq(Nat)
    <3>1. k + 1 \in 1..n /\ (k + 1) - 1 = k /\ k <= n
      BY <1>2, <2>1, <2>2
    <3>2. f[k + 1] = LabelsAfter(f[k], s[k + 1])
      BY <1>4, <3>1
    <3>3. f[k] \in Seq(Nat) /\ s[k + 1] \in Items
      BY <1>2, <2>1, <3>1
    <3> QED BY <3>2, <3>3, LabelsAfterAreIds
  <2> QED BY <2>1, <2>2
<1>7. S \in SUBSET Nat
  OBVIOUS
<1>8. n \in S
  <2> HIDE DEF S
  <2> QED BY <1>2, <1>5, <1>6, <1>7, CountUp
<1> QED
  BY <1>2, <1>3, <1>8

\* f gives the path to each of the first entries.
PathBy(f, s, n) ==
  f = [i \in 0..n |->
         IF i = 0 THEN <<>> ELSE Append(f[Position(s, s[i].parentId)], s[i])]

\* A parent is above.
LEMMA PositionIs ==
  ASSUME NEW n, NEW s, Tree(s, n), NEW id
  PROVE  /\ Position(s, id) \in 0..Len(s) /\ Len(s) \in Nat
         /\ Position(s, id) # 0 => s[Position(s, id)].id = id
<1>1. s \in Seq(Items) /\ DOMAIN s = 1..Len(s) /\ Len(s) \in Nat
  BY DEF Tree
<1>2. CASE id \in IdsOf(s)
  <2>1. \E i \in DOMAIN s : s[i].id = id
    BY <1>2 DEF IdsOf
  <2>2. Position(s, id) \in DOMAIN s /\ s[Position(s, id)].id = id
    BY <1>2, <2>1 DEF Position
  <2> QED BY <1>1, <2>2
<1>3. CASE id \notin IdsOf(s)
  BY <1>1, <1>3 DEF Position
<1> QED
  BY <1>2, <1>3

LEMMA ParentIsAbove ==
  ASSUME NEW n, NEW s, Tree(s, n), NEW i \in 1..Len(s)
  PROVE  Position(s, s[i].parentId) \in 0..(i - 1)
<1>1. s \in Seq(Items) /\ Grown(s, n)
  BY DEF Tree
<1>2. PICK p : p = Position(s, s[i].parentId)
  OBVIOUS
<1>3. p \in 0..Len(s) /\ Len(s) \in Nat /\ (p # 0 => s[p].id = s[i].parentId)
  BY <1>2, PositionIs
<1>4. s[i] \in Items /\ s[i].id \in Nat /\ s[i].parentId \in Nat
      /\ s[i].parentId < s[i].id
  <2>1. s[i] \in Items
    BY <1>1
  <2> QED BY <1>1, <2>1, ItemsAre DEF Grown
<1>5. ~(p > i)
  <2> SUFFICES ASSUME p > i PROVE FALSE
    OBVIOUS
  <2>1. p \in 1..Len(s) /\ i < p
    BY <1>3
  <2>2. s[i].id < s[p].id
    BY <1>1, <2>1 DEF Grown
  <2>3. s[p].id = s[i].parentId
    BY <1>3, <2>1
  <2> QED BY <1>4, <2>2, <2>3
<1>6. p # i
  <2> SUFFICES ASSUME p = i PROVE FALSE
    OBVIOUS
  <2>1. p # 0
    OBVIOUS
  <2>2. s[i].id = s[i].parentId
    BY <1>3, <2>1
  <2> QED BY <1>4, <2>2
<1>7. p \in 0..(i - 1)
  BY <1>3, <1>5, <1>6
<1> QED
  BY <1>2, <1>7

LEMMA PathExists ==
  ASSUME NEW m, NEW s, Tree(s, m)
  PROVE  \E f : PathBy(f, s, Len(s))
<1>1. PICK l : l = Len(s)
  OBVIOUS
<1>2. l \in Nat
  BY <1>1 DEF Tree
<1> DEFINE S == {n \in Nat : n <= l => \E f : PathBy(f, s, n)}
<1>3. 0 \in S
  <2> DEFINE f == [i \in 0..0 |-> <<>>]
  <2>1. \A i \in 0..0 : i = 0
    OBVIOUS
  <2>2. f = [i \in 0..0 |->
               IF i = 0 THEN <<>>
               ELSE Append(f[Position(s, s[i].parentId)], s[i])]
    BY <2>1
  <2> HIDE DEF f
  <2>3. PathBy(f, s, 0)
    BY <2>2 DEF PathBy
  <2> QED BY <2>3
<1>4. ASSUME NEW n \in S PROVE n + 1 \in S
  <2> SUFFICES ASSUME n + 1 <= l PROVE \E f : PathBy(f, s, n + 1)
    OBVIOUS
  <2>1. n \in Nat /\ n <= l
    BY <1>2
  <2>2. PICK f : PathBy(f, s, n)
    BY <2>1
  <2> HIDE DEF S
  <2>3. \A i \in 0..n : f[i] = IF i = 0 THEN <<>>
                               ELSE Append(f[Position(s, s[i].parentId)], s[i])
    BY <2>2 DEF PathBy
  <2> DEFINE above == Position(s, s[n + 1].parentId)
             final == Append(f[above], s[n + 1])
             g == [i \in 0..(n + 1) |-> IF i = n + 1 THEN final ELSE f[i]]
  <2>4. g[n + 1] = final /\ \A i \in 0..n : g[i] = f[i]
    <3> HIDE DEF final
    <3> QED BY <2>1
  <2>5. g = [i \in 0..(n + 1) |-> g[i]]
    OBVIOUS
  <2> HIDE DEF g
  <2>6. ASSUME NEW i \in 0..(n + 1)
        PROVE  g[i] = IF i = 0 THEN <<>>
                      ELSE Append(g[Position(s, s[i].parentId)], s[i])
    <3>1. CASE i = 0
      <4>1. 0 \in 0..n
        BY <2>1
      <4>2. f[0] = <<>>
        BY <2>3, <4>1
      <4> QED BY <2>4, <3>1, <4>1, <4>2
    <3>2. CASE i # 0
      <4>1. i \in 1..l
        BY <1>2, <2>1, <3>2
      <4>2. PICK p : p = Position(s, s[i].parentId)
        OBVIOUS
      <4>3. p \in 0..(i - 1)
        BY <1>1, <4>1, <4>2, ParentIsAbove
      <4>4. p \in 0..n
        BY <2>1, <4>3
      <4>5. g[p] = f[p]
        BY <2>4, <4>4
      <4>6. CASE i = n + 1
        BY <2>4, <3>2, <4>2, <4>5, <4>6
      <4>7. CASE i # n + 1
        <5>1. i \in 0..n
          BY <2>1, <4>7
        <5>2. f[i] = Append(f[p], s[i])
          BY <2>3, <3>2, <4>2, <5>1
        <5> QED BY <2>4, <3>2, <4>2, <4>5, <5>1, <5>2
      <4> QED BY <4>6, <4>7
    <3> QED BY <3>1, <3>2
  <2>7. PathBy(g, s, n + 1)
    BY <2>5, <2>6 DEF PathBy
  <2> QED BY <2>7
<1>5. S \in SUBSET Nat
  OBVIOUS
<1>6. l \in S
  <2> HIDE DEF S
  <2> QED BY <1>2, <1>3, <1>4, <1>5, CountUp
<1> QED
  BY <1>1, <1>2, <1>6

LEMMA TreeMore ==
  ASSUME NEW n \in Nat, NEW t, Tree(t, n),
         NEW e \in Items, n < e.id, e.parentId < e.id
  PROVE  /\ Tree(Append(t, e), e.id) /\ Len(Append(t, e)) = Len(t) + 1
         /\ Append(t, e)[Len(t) + 1] = e
         /\ \A i \in 1..Len(t) : Append(t, e)[i] = t[i]
<1>1. PICK l : l = Len(t)
  OBVIOUS
<1>2. PICK r : r = Append(t, e)
  OBVIOUS
<1>3. t \in Seq(Items) /\ Grown(t, n)
  BY DEF Tree
<1>4. /\ l \in Nat /\ r \in Seq(Items) /\ Len(r) = l + 1 /\ r[l + 1] = e
      /\ \A i \in 1..l : r[i] = t[i]
  BY <1>1, <1>2, <1>3
<1>5. \A i \in 1..l : t[i].id \in Nat /\ t[i].parentId \in Nat
  <2>1. \A i \in 1..l : t[i] \in Items
    BY <1>1, <1>3
  <2> QED BY <2>1, ItemsAre
<1>6. e.id \in Nat /\ e.parentId \in Nat
  BY ItemsAre
<1>7. /\ \A i, j \in 1..l : i < j => t[i].id < t[j].id
      /\ \A i \in 1..l : t[i].parentId < t[i].id /\ t[i].id <= n
  BY <1>1, <1>3 DEF Grown
<1>8. ASSUME NEW i \in 1..(l + 1), NEW j \in 1..(l + 1), i < j
      PROVE  r[i].id < r[j].id
  <2>1. i \in 1..l /\ (j \in 1..l \/ j = l + 1)
    BY <1>4, <1>8
  <2>2. t[i].id < e.id
    BY <1>5, <1>6, <1>7, <2>1
  <2> QED BY <1>4, <1>7, <1>8, <2>1, <2>2
<1>9. ASSUME NEW i \in 1..(l + 1)
      PROVE  r[i].parentId < r[i].id /\ r[i].id <= e.id
  <2>1. CASE i \in 1..l
    BY <1>4, <1>5, <1>6, <1>7, <2>1
  <2>2. CASE i = l + 1
    BY <1>4, <1>6, <2>2
  <2> QED BY <1>4, <2>1, <2>2
<1>10. Grown(r, e.id)
  BY <1>4, <1>8, <1>9 DEF Grown
<1> QED
  BY <1>1, <1>2, <1>4, <1>10 DEF Tree

LEMMA TreeWithin ==
  ASSUME NEW n \in Nat, NEW m \in Nat, n <= m, NEW s, Tree(s, n)
  PROVE  Tree(s, m)
<1>1. s \in Seq(Items) /\ Grown(s, n)
  BY DEF Tree
<1>2. \A i \in 1..Len(s) : s[i].id \in Nat
  <2>1. \A i \in 1..Len(s) : s[i] \in Items
    BY <1>1
  <2> QED BY <2>1, ItemsAre
<1>3. Grown(s, m)
  BY <1>1, <1>2 DEF Grown
<1> QED
  BY <1>1, <1>3 DEF Tree

\* A path is a tree of entries of the session.
LEMMA PathIsTree ==
  ASSUME NEW n \in Nat, NEW s, Tree(s, n), NEW id
  PROVE  /\ Tree(PathTo(s, id), n)
         /\ \A k \in 1..Len(PathTo(s, id)) : \E j \in 1..Len(s) : PathTo(s, id)[k] = s[j]
<1>1. PICK l : l = Len(s)
  OBVIOUS
<1> DEFINE by == CHOOSE f : PathBy(f, s, Len(s))
<1>2. PathTo(s, id) = by[Position(s, id)]
  BY DEF PathTo, PathBy
<1>3. PathBy(by, s, l)
  BY <1>1, PathExists
<1> HIDE DEF by
<1>4. l \in Nat /\ s \in Seq(Items) /\ Grown(s, n)
  BY <1>1 DEF Tree
<1>5. \A i \in 0..l : by[i] = IF i = 0 THEN <<>>
                              ELSE Append(by[Position(s, s[i].parentId)], s[i])
  BY <1>3 DEF PathBy
<1>6. /\ \A i \in 1..l : /\ s[i] \in Items /\ s[i].id \in Nat /\ s[i].parentId \in Nat
                         /\ s[i].parentId < s[i].id /\ s[i].id <= n
      /\ \A i, j \in 1..l : i < j => s[i].id < s[j].id
  <2>1. \A i \in 1..l : s[i] \in Items
    BY <1>1, <1>4
  <2> QED BY <1>1, <1>4, <2>1, ItemsAre DEF Grown
<1> DEFINE Bound(i) == IF i = 0 THEN 0 ELSE s[i].id
           Good(i) == /\ Tree(by[i], Bound(i))
                      /\ \A k \in 1..Len(by[i]) : \E j \in 1..l : by[i][k] = s[j]
           S == {k \in Nat : \A i \in 0..k : i <= l => Good(i)}
<1>7. Good(0)
  <2>1. PICK t : t = by[0]
    OBVIOUS
  <2>2. t = <<>>
    BY <1>4, <1>5, <2>1
  <2>3. t \in Seq(Items) /\ Len(t) = 0
    BY <2>2
  <2>4. Tree(t, 0)
    BY <2>3 DEF Tree, Grown
  <2> QED BY <2>1, <2>3, <2>4
<1>8. ASSUME NEW i \in 1..l, NEW p \in 0..(i - 1), p = Position(s, s[i].parentId), Good(p)
      PROVE  Good(i)
  <2>1. PICK t : t = by[p]
    OBVIOUS
  <2>2. PICK b : b = Bound(p)
    OBVIOUS
  <2>3. by[i] = Append(t, s[i])
    <3>1. i \in 0..l /\ i # 0
      BY <1>4
    <3> QED BY <1>5, <1>8, <2>1, <3>1
  <2>4. b \in Nat /\ b < s[i].id
    <3>1. CASE p = 0
      BY <1>6, <2>2, <3>1
    <3>2. CASE p # 0
      <4>1. p \in 1..l /\ p < i
        BY <1>4, <3>2
      <4> QED BY <1>6, <2>2, <3>2, <4>1
    <3> QED BY <3>1, <3>2
  <2>5. Tree(t, b) /\ \A k \in 1..Len(t) : \E j \in 1..l : t[k] = s[j]
    BY <1>8, <2>1, <2>2
  <2>6. s[i] \in Items /\ s[i].parentId < s[i].id
    BY <1>6
  <2>7. PICK e : e = s[i]
    OBVIOUS
  <2>8. PICK r : r = Append(t, e)
    OBVIOUS
  <2>9. /\ Tree(Append(t, e), e.id) /\ Len(Append(t, e)) = Len(t) + 1
        /\ Append(t, e)[Len(t) + 1] = e
        /\ \A k \in 1..Len(t) : Append(t, e)[k] = t[k]
    BY <2>4, <2>5, <2>6, <2>7, TreeMore
  <2>10. Len(t) \in Nat
    BY <2>5 DEF Tree
  <2>11. ASSUME NEW k \in 1..Len(r) PROVE \E j \in 1..l : r[k] = s[j]
    <3>1. CASE k = Len(t) + 1
      BY <2>7, <2>8, <2>9, <3>1
    <3>2. CASE k # Len(t) + 1
      <4>1. k \in 1..Len(t)
        BY <2>8, <2>9, <2>10, <3>2
      <4> QED BY <2>5, <2>8, <2>9, <4>1
    <3> QED BY <3>1, <3>2
  <2>12. by[i] = r /\ Tree(r, e.id) /\ Bound(i) = e.id
    BY <2>3, <2>7, <2>8, <2>9
  <2> QED BY <2>11, <2>12
<1> HIDE DEF Good
<1>9. 0 \in S
  BY <1>7
<1>10. ASSUME NEW k \in S PROVE k + 1 \in S
  <2>1. k \in Nat /\ \A i \in 0..k : i <= l => Good(i)
    OBVIOUS
  <2>2. ASSUME NEW i \in 0..(k + 1), i <= l PROVE Good(i)
    <3>1. CASE i \in 0..k
      BY <2>1, <2>2, <3>1
    <3>2. CASE i \notin 0..k
      <4>1. i = k + 1 /\ i \in 1..l
        BY <1>4, <2>1, <2>2, <3>2
      <4>2. PICK p : p = Position(s, s[i].parentId)
        OBVIOUS
      <4>3. p \in 0..(i - 1)
        BY <1>1, <4>1, <4>2, ParentIsAbove
      <4>4. p \in 0..k /\ p <= l
        BY <1>4, <2>1, <4>1, <4>3
      <4>5. Good(p)
        BY <2>1, <4>4
      <4> QED BY <1>8, <4>1, <4>2, <4>3, <4>5
    <3> QED BY <3>1, <3>2
  <2> QED BY <2>1, <2>2
<1>11. S \in SUBSET Nat
  OBVIOUS
<1>12. \A i \in 0..l : Good(i)
  <2>1. l \in S
    <3> HIDE DEF S
    <3> QED BY <1>4, <1>9, <1>10, <1>11, CountUp
  <2> QED BY <1>4, <2>1
<1>13. PICK p : p = Position(s, id)
  OBVIOUS
<1>14. p \in 0..l
  BY <1>1, <1>13, PositionIs
<1>15. Good(p)
  BY <1>12, <1>14
<1>16. Bound(p) \in Nat /\ Bound(p) <= n
  <2>1. CASE p = 0
    BY <2>1
  <2>2. CASE p # 0
    <3>1. p \in 1..l
      BY <1>4, <1>14, <2>2
    <3> QED BY <1>6, <2>2, <3>1
  <2> QED BY <2>1, <2>2
<1> HIDE DEF Bound
<1>17. Tree(by[p], Bound(p)) /\ \A k \in 1..Len(by[p]) : \E j \in 1..l : by[p][k] = s[j]
  BY <1>15 DEF Good
<1>18. Tree(by[p], n)
  BY <1>16, <1>17, TreeWithin
<1> QED
  BY <1>1, <1>2, <1>13, <1>17, <1>18

-----------------------------------------------------------------------------
(* What a fork or a migration makes of the entries *)

\* Entries under new ids.
LEMMA Lengthened ==
  ASSUME NEW n \in Nat, NEW t, Tree(t, n), NEW r \in Seq(Items),
         \A i \in 1..Len(r) : r[i].id = n + i /\ r[i].parentId < n + i
  PROVE  /\ Tree(t \o r, n + Len(r)) /\ Len(r) \in Nat
         /\ {i \in DOMAIN (t \o r) : (t \o r)[i].id > n} = (Len(t) + 1)..(Len(t) + Len(r))
<1>1. PICK l, m : l = Len(t) /\ m = Len(r)
  OBVIOUS
<1>2. PICK s : s = t \o r
  OBVIOUS
<1>3. t \in Seq(Items) /\ Grown(t, n)
  BY DEF Tree
<1>4. /\ l \in Nat /\ m \in Nat /\ s \in Seq(Items) /\ Len(s) = l + m
      /\ DOMAIN s = 1..(l + m)
      /\ \A i \in 1..l : s[i] = t[i]
      /\ \A i \in 1..(l + m) : i \notin 1..l => s[i] = r[i - l] /\ i - l \in 1..m
  BY <1>1, <1>2, <1>3
<1>5. \A i \in 1..l : t[i].id \in Nat /\ t[i].parentId \in Nat
  <2>1. \A i \in 1..l : t[i] \in Items
    BY <1>1, <1>3
  <2> QED BY <2>1, ItemsAre
<1>6. /\ \A i, j \in 1..l : i < j => t[i].id < t[j].id
      /\ \A i \in 1..l : t[i].parentId < t[i].id /\ t[i].id <= n
  BY <1>1, <1>3 DEF Grown
<1>7. ASSUME NEW i \in 1..(l + m), i \notin 1..l
      PROVE  /\ s[i].id = n + (i - l) /\ s[i].parentId < n + (i - l)
             /\ i - l \in 1..m
  <2>1. s[i] = r[i - l] /\ i - l \in 1..m
    BY <1>4, <1>7
  <2> QED BY <1>1, <2>1
<1>8. ASSUME NEW i \in 1..(l + m), NEW j \in 1..(l + m), i < j
      PROVE  s[i].id < s[j].id
  <2>1. CASE j \in 1..l
    <3>1. i \in 1..l
      BY <1>4, <1>8, <2>1
    <3> QED BY <1>4, <1>6, <1>8, <2>1, <3>1
  <2>2. CASE i \in 1..l /\ j \notin 1..l
    <3>1. s[i].id <= n /\ s[i].id \in Nat
      BY <1>4, <1>5, <1>6, <2>2
    <3>2. s[j].id = n + (j - l) /\ j - l \in 1..m
      BY <1>7, <2>2
    <3> QED BY <3>1, <3>2
  <2>3. CASE i \notin 1..l /\ j \notin 1..l
    <3>1. s[j].id = n + (j - l) /\ s[i].id = n + (i - l)
      BY <1>7, <2>3
    <3> QED BY <1>4, <1>8, <3>1
  <2> QED BY <2>1, <2>2, <2>3
<1>9. ASSUME NEW i \in 1..(l + m)
      PROVE  s[i].parentId < s[i].id /\ s[i].id <= n + m
  <2>1. CASE i \in 1..l
    <3>1. s[i] = t[i] /\ t[i].parentId < t[i].id /\ t[i].id <= n /\ t[i].id \in Nat
      BY <1>4, <1>5, <1>6, <2>1
    <3> QED BY <1>4, <3>1
  <2>2. CASE i \notin 1..l
    BY <1>4, <1>7, <2>2
  <2> QED BY <2>1, <2>2
<1>10. Tree(s, n + m)
  BY <1>4, <1>8, <1>9 DEF Tree, Grown
<1>11. {i \in DOMAIN s : s[i].id > n} = (l + 1)..(l + m)
  <2>1. ASSUME NEW i \in 1..(l + m) PROVE s[i].id > n <=> i \in (l + 1)..(l + m)
    <3>1. CASE i \in 1..l
      <4>1. s[i].id <= n /\ s[i].id \in Nat
        BY <1>4, <1>5, <1>6, <3>1
      <4> QED BY <1>4, <3>1, <4>1
    <3>2. CASE i \notin 1..l
      <4>1. s[i].id = n + (i - l) /\ i - l \in 1..m
        BY <1>7, <3>2
      <4> QED BY <1>4, <3>2, <4>1
    <3> QED BY <3>1, <3>2
  <2>2. \A i \in (l + 1)..(l + m) : i \in 1..(l + m)
    BY <1>4
  <2> QED BY <1>4, <2>1, <2>2
<1> QED
  BY <1>1, <1>2, <1>4, <1>10, <1>11

LEMMA NoneIsTree ==
  ASSUME NEW n \in Nat
  PROVE  Tree(<<>>, n)
<1>1. PICK t : t = <<>>
  OBVIOUS
<1>2. t \in Seq(Items) /\ Len(t) = 0
  BY <1>1
<1>3. Tree(t, n)
  BY <1>2 DEF Tree, Grown
<1> QED
  BY <1>1, <1>3

LEMMA LastIdOfTree ==
  ASSUME NEW n \in Nat, NEW t, Tree(t, n)
  PROVE  LastId(t) \in 0..n
<1>1. t \in Seq(Items) /\ Grown(t, n)
  BY DEF Tree
<1>2. CASE t # <<>>
  <2>1. Len(t) \in 1..Len(t) /\ t[Len(t)] \in Items
    BY <1>1, <1>2
  <2>2. t[Len(t)].id \in Nat /\ t[Len(t)].id <= n
    BY <1>1, <2>1, ItemsAre DEF Grown
  <2> QED BY <1>2, <2>2 DEF LastId
<1>3. CASE t = <<>>
  BY <1>3 DEF LastId, Null
<1> QED
  BY <1>2, <1>3

LEMMA NoLabelsIsTree ==
  ASSUME NEW n \in Nat, NEW t, Tree(t, n)
  PROVE  Tree(NoLabels(t), n)
<1>1. t \in Seq(Items) /\ Grown(t, n)
  BY DEF Tree
<1>2. PICK l : l = Len(t)
  OBVIOUS
<1>3. PICK P : P = {i \in DOMAIN t : t[i].type # "label"}
  OBVIOUS
<1>4. PICK s : s = Picked(t, P)
  OBVIOUS
<1>5. l \in Nat /\ P \in SUBSET (1..l) /\ \A i \in P : t[i] \in Items
  BY <1>1, <1>2, <1>3
<1>6. s \in Seq(Items) /\ Len(s) = Cardinality(P)
  BY <1>4, <1>5, PickedIs
<1>7. Within(P, l)
  BY <1>5 DEF Within
<1>8. /\ \A i, j \in 1..l : i < j => t[i].id < t[j].id
      /\ \A i \in 1..l : t[i].parentId < t[i].id /\ t[i].id <= n
  BY <1>1, <1>2 DEF Grown
<1>9. ASSUME NEW k \in 1..Len(s), NEW m \in 1..Len(s), k < m PROVE s[k].id < s[m].id
  <2>1. k \in 1..Cardinality(P) /\ m \in 1..Cardinality(P)
    BY <1>6
  <2>2. PICK i, j \in P : i < j /\ Picked(t, P)[k] = t[i] /\ Picked(t, P)[m] = t[j]
    BY <1>7, <1>9, <2>1, PickedOrder
  <2> QED BY <1>4, <1>5, <1>8, <2>2
<1>10. ASSUME NEW k \in 1..Len(s) PROVE s[k].parentId < s[k].id /\ s[k].id <= n
  <2>1. k \in 1..Cardinality(P)
    BY <1>6
  <2>2. PICK i \in P : Picked(t, P)[k] = t[i]
    BY <1>7, <2>1, PickedFrom
  <2> QED BY <1>4, <1>5, <1>8, <2>2
<1>11. Tree(s, n)
  BY <1>6, <1>9, <1>10 DEF Tree, Grown
<1> QED
  BY <1>3, <1>4, <1>11 DEF NoLabels

Elements(L) == {L[i] : i \in DOMAIN L}

\* A branch is a path without labels, and below it a chain of labels for those
\* of its entries that have one.
LabelChain(r, L, way, n) ==
  /\ r \in Seq(Items) /\ L \in Seq(Nat) /\ Len(r) = Len(L) /\ Len(L) \in Nat
  /\ \A i \in 1..Len(L) :
       /\ r[i].type = "label" /\ r[i].set = TRUE /\ r[i].ref = L[i]
       /\ r[i].id = n + i /\ r[i].parentId < n + i
       /\ r[i].parentId = IF i = 1 THEN LastId(way) ELSE n + i - 1

LEMMA BranchedIs ==
  ASSUME drawn \in Nat, NEW s, Tree(s, drawn), NEW id,
         NEW way, way = NoLabels(PathTo(s, id))
  PROVE  \E r, L : /\ Branched(s, id) = way \o r /\ LabelChain(r, L, way, drawn)
                   /\ Elements(L) = {x \in Elements(LabelsOf(s)) : x \in IdsOf(way)}
<1> DEFINE tags == LabelsOf(s)
           P == {i \in DOMAIN tags : tags[i] \in IdsOf(way)}
           L == Picked(tags, P)
           E(i) == Entry(drawn + i, "label",
                         IF i = 1 THEN LastId(way) ELSE drawn + i - 1, L[i], TRUE)
           r == [i \in DOMAIN L |-> E(i)]
<1>1. Branched(s, id) = way \o r
  BY DEF Branched
<1>2. Tree(way, drawn)
  <2>1. Tree(PathTo(s, id), drawn)
    BY PathIsTree
  <2> QED BY <2>1, NoLabelsIsTree
<1>3. LastId(way) \in 0..drawn
  BY <1>2, LastIdOfTree
<1>4. tags \in Seq(Nat)
  <2>1. s \in Seq(Items)
    BY DEF Tree
  <2> QED BY <2>1, LabelsAreIds
<1>5. L \in Seq(Nat) /\ Elements(L) = {x \in Elements(tags) : x \in IdsOf(way)}
  <2>1. PICK n, G, Q : n = Len(tags) /\ G = tags /\ Q = P
    OBVIOUS
  <2>2. /\ n \in Nat /\ Q \in SUBSET (1..n) /\ DOMAIN G = 1..n /\ (\A i \in Q : G[i] \in Nat)
        /\ Q = {i \in 1..n : G[i] \in IdsOf(way)}
    BY <1>4, <2>1
  <2> HIDE DEF P, tags
  <2>3. Picked(G, Q) \in Seq(Nat) /\ Len(Picked(G, Q)) = Cardinality(Q)
    BY <2>2, PickedIs
  <2>4. Within(Q, n)
    BY <2>2 DEF Within
  <2>5. PICK p, c : p = Picked(G, Q) /\ c = Cardinality(Q)
    OBVIOUS
  <2>6. p \in Seq(Nat) /\ DOMAIN p = 1..c
    BY <2>3, <2>5
  <2>7. ASSUME NEW k \in 1..c PROVE \E i \in Q : p[k] = G[i]
    BY <2>4, <2>5, <2>7, PickedFrom
  <2>8. ASSUME NEW i \in Q PROVE \E k \in 1..c : p[k] = G[i]
    BY <2>4, <2>5, <2>8, PickedHas
  <2>9. Elements(p) = {x \in Elements(G) : x \in IdsOf(way)}
    <3>1. Elements(p) = {p[k] : k \in 1..c} /\ Elements(G) = {G[i] : i \in 1..n}
      BY <2>2, <2>6 DEF Elements
    <3>2. ASSUME NEW k \in 1..c
          PROVE  p[k] \in {G[i] : i \in 1..n} /\ p[k] \in IdsOf(way)
      <4>1. PICK i \in Q : p[k] = G[i]
        BY <2>7
      <4> QED BY <2>2, <4>1
    <3>3. ASSUME NEW i \in 1..n, G[i] \in IdsOf(way) PROVE G[i] \in {p[k] : k \in 1..c}
      <4>1. i \in Q
        BY <2>2, <3>3
      <4> QED BY <2>8, <4>1
    <3> QED BY <3>1, <3>2, <3>3
  <2> QED BY <2>1, <2>5, <2>6, <2>9
<1>6. PICK m : m = Len(L)
  OBVIOUS
<1>7. m \in Nat /\ DOMAIN L = 1..m /\ \A i \in 1..m : L[i] \in Nat
  <2> HIDE DEF L
  <2> QED BY <1>5, <1>6
<1> HIDE DEF tags, P, L
<1>8. ASSUME NEW i \in 1..m
      PROVE  /\ E(i) \in Items /\ E(i).id = drawn + i /\ E(i).parentId < drawn + i
             /\ E(i).type = "label" /\ E(i).set = TRUE /\ E(i).ref = L[i]
             /\ E(i).parentId = IF i = 1 THEN LastId(way) ELSE drawn + i - 1
  <2> DEFINE above == IF i = 1 THEN LastId(way) ELSE drawn + i - 1
  <2>1. above \in Nat /\ above < drawn + i /\ drawn + i \in Nat \ {0} /\ L[i] \in Nat
    BY <1>3, <1>7
  <2>2. PICK x, y, z, w : /\ x = drawn + i /\ y = above /\ z = L[i]
                          /\ w = Entry(x, "label", y, z, TRUE)
    OBVIOUS
  <2>3. E(i) = w
    BY <2>2
  <2>4. x \in Nat \ {0} /\ y \in Nat /\ z \in Nat /\ y < x
    <3> HIDE DEF above, E
    <3> QED BY <2>1, <2>2
  <2>5. /\ w \in Items /\ w.id = x /\ w.parentId = y /\ w.type = "label" /\ w.ref = z
        /\ w.set = TRUE
    <3> HIDE DEF above, E
    <3> QED BY <2>2, <2>4 DEF Entry, Items, Kinds
  <2> HIDE DEF E
  <2> QED BY <2>2, <2>3, <2>4, <2>5
<1> HIDE DEF E
<1>9. r \in Seq(Items) /\ Len(r) = m /\ \A i \in 1..m : r[i] = E(i)
  <2>1. \A i \in 1..m : E(i) \in Items
    BY <1>8
  <2> QED BY <1>7, <2>1
<1> HIDE DEF r
<1>10. LabelChain(r, L, way, drawn)
  <2>1. ASSUME NEW i \in 1..m
        PROVE  /\ r[i].type = "label" /\ r[i].set = TRUE /\ r[i].ref = L[i]
               /\ r[i].id = drawn + i /\ r[i].parentId < drawn + i
               /\ r[i].parentId = IF i = 1 THEN LastId(way) ELSE drawn + i - 1
    <3>1. r[i] = E(i)
      BY <1>9
    <3>2. /\ E(i).id = drawn + i /\ E(i).parentId < drawn + i
          /\ E(i).type = "label" /\ E(i).set = TRUE /\ E(i).ref = L[i]
      BY <1>8
    <3>3. E(i).parentId = IF i = 1 THEN LastId(way) ELSE drawn + i - 1
      BY <1>8
    <3> QED BY <3>1, <3>2, <3>3
  <2> QED BY <1>5, <1>6, <1>7, <1>9, <2>1 DEF LabelChain
<1> QED
  BY <1>1, <1>5, <1>10 DEF tags

LEMMA BranchedIsTree ==
  ASSUME drawn \in Nat, NEW s, Tree(s, drawn), NEW id,
         NEW b, b = Branched(s, id),
         NEW k, k = Cardinality({i \in DOMAIN b : b[i].id > drawn})
  PROVE  k \in Nat /\ Tree(b, drawn + k)
<1>1. PICK way, n : way = NoLabels(PathTo(s, id)) /\ n = drawn
  OBVIOUS
<1>2. PICK r, L : b = way \o r /\ LabelChain(r, L, way, n)
  BY <1>1, BranchedIs
<1>3. Tree(way, n)
  <2>1. Tree(PathTo(s, id), n)
    BY <1>1, PathIsTree
  <2> QED BY <1>1, <2>1, NoLabelsIsTree
<1>4. PICK m, q : m = Len(r) /\ q = Len(way)
  OBVIOUS
<1>5. /\ m \in Nat /\ r \in Seq(Items) /\ n \in Nat
      /\ \A i \in 1..Len(r) : r[i].id = n + i /\ r[i].parentId < n + i
  BY <1>1, <1>2, <1>4 DEF LabelChain
<1>6. /\ Tree(way \o r, n + m)
      /\ {i \in DOMAIN (way \o r) : (way \o r)[i].id > n} = (q + 1)..(q + m)
  <2>1. /\ Tree(way \o r, n + Len(r))
        /\ {i \in DOMAIN (way \o r) : (way \o r)[i].id > n}
             = (Len(way) + 1)..(Len(way) + Len(r))
    BY <1>3, <1>5, Lengthened
  <2> QED BY <1>4, <2>1
<1>7. k = m
  <2>1. q \in Nat
    BY <1>3, <1>4 DEF Tree
  <2>2. k = Cardinality((q + 1)..(q + m))
    BY <1>1, <1>2, <1>6
  <2>3. Cardinality((q + 1)..(q + m)) = m
    <3>1. q + 1 \in Int /\ q + m \in Int
      BY <1>5, <2>1
    <3>2. Cardinality((q + 1)..(q + m)) = IF q + 1 > q + m THEN 0 ELSE (q + m) - (q + 1) + 1
      BY <3>1, FS_Interval
    <3> QED BY <1>5, <2>1, <3>2
  <2> QED BY <2>2, <2>3
<1> QED
  BY <1>1, <1>2, <1>5, <1>6, <1>7

\* A file of version 1 becomes one path.
LEMMA MigratedIsTree ==
  ASSUME drawn \in Nat, NEW g, NEW old, NEW s, OldRead(g, old, s)
  PROVE  /\ Len(s) \in Nat /\ Tree(s, drawn + Len(s)) /\ Len(s) = Len(old)
         /\ \A i \in 1..Len(s) :
              /\ s[i].id = drawn + i /\ s[i].type = old[i].type
              /\ s[i].parentId = IF i = 1 THEN Null ELSE drawn + i - 1
              /\ s[i].type = "compaction" => s[i].ref = drawn + 2
<1>1. PICK l : l = Loaded(g)
  OBVIOUS
<1>2. old = Tail(l) /\ s = Migrated(old) /\ Old(g)
  BY <1>1 DEF OldRead
<1>3. /\ l \in Seq(OldItems \union {OldHeader}) /\ l # <<>>
      /\ \A i \in 2..Len(l) : l[i] \in OldItems
  BY <1>1, <1>2, LoadedOfOld
<1>4. PICK m : m = Len(old)
  OBVIOUS
<1>5. /\ m \in Nat /\ DOMAIN old = 1..m /\ Len(l) = m + 1
      /\ \A i \in 1..m : old[i] = l[i + 1] /\ i + 1 \in 2..Len(l)
  BY <1>2, <1>3, <1>4
<1>6. \A i \in 1..m : old[i] \in OldItems
  BY <1>3, <1>5
<1> DEFINE E(i) ==
             [old[i] EXCEPT !.id = drawn + i,
                            !.parentId = IF i = 1 THEN Null ELSE drawn + i - 1,
                            !.ref = IF old[i].type = "compaction" /\ @ \in DOMAIN old
                                      THEN drawn + @ ELSE Null]
<1>7. s = [i \in 1..m |-> E(i)]
  BY <1>2, <1>5 DEF Migrated
<1>8. ASSUME NEW i \in 1..m
      PROVE  /\ E(i) \in Items /\ E(i).id = drawn + i /\ E(i).parentId < drawn + i
             /\ E(i).type = old[i].type
             /\ E(i).parentId = IF i = 1 THEN Null ELSE drawn + i - 1
             /\ E(i).type = "compaction" => E(i).ref = drawn + 2
  <2>1. old[i] \in OldItems /\ old[i].ref \in Nat /\ old[i].type \in Kinds
    BY <1>6, ItemsAre
  <2>2. PICK x : x = drawn + i
    OBVIOUS
  <2>3. PICK y : y = IF i = 1 THEN Null ELSE drawn + i - 1
    OBVIOUS
  <2>4. PICK z : z = IF old[i].type = "compaction" /\ old[i].ref \in DOMAIN old
                     THEN drawn + old[i].ref ELSE Null
    OBVIOUS
  <2>5. x \in Nat \ {0} /\ y \in Nat /\ z \in Nat /\ y < x
    BY <2>1, <2>2, <2>3, <2>4 DEF Null
  <2>6. E(i) = [old[i] EXCEPT !.id = x, !.parentId = y, !.ref = z]
    BY <2>2, <2>3, <2>4
  <2>7. PICK o : o = old[i]
    OBVIOUS
  <2>8. PICK v : v = [o EXCEPT !.id = x, !.parentId = y, !.ref = z]
    OBVIOUS
  <2>9. ASSUME old[i].type = "compaction" PROVE z < x /\ z = drawn + 2
    <3>1. i = m /\ m > 2 /\ old[i].ref = 2
      BY <1>4, <2>9, OldEntriesAre
    <3>2. 2 \in DOMAIN old
      BY <1>5, <3>1
    <3>3. z = drawn + 2
      BY <2>4, <2>9, <3>1, <3>2
    <3> QED BY <1>5, <2>2, <3>1, <3>3
  <2>10. /\ v \in [id : Nat \ {0}, type : Kinds, parentId : Nat, ref : Nat, set : BOOLEAN]
         /\ v.id = x /\ v.parentId = y /\ v.ref = z /\ v.type = old[i].type
    BY <2>1, <2>5, <2>7, <2>8 DEF OldItems
  <2>11. v \in Items
    BY <2>9, <2>10 DEF Items
  <2>12. E(i) = v
    BY <2>6, <2>7, <2>8
  <2> HIDE DEF E
  <2> QED BY <2>2, <2>3, <2>5, <2>9, <2>10, <2>11, <2>12
<1> HIDE DEF E
<1>9. s \in Seq(Items) /\ Len(s) = m /\ \A i \in 1..m : s[i] = E(i)
  <2>1. m \in Nat
    BY <1>5
  <2>2. s \in [1..m -> Items]
    BY <1>7, <1>8
  <2>3. s \in Seq(Items) /\ Len(s) = m
    BY <2>1, <2>2
  <2>4. \A i \in 1..m : s[i] = E(i)
    BY <1>7
  <2> QED BY <2>3, <2>4
<1>10. \A i \in 1..Len(s) : s[i].id = drawn + i /\ s[i].parentId < drawn + i
  BY <1>8, <1>9
<1>11. Tree(<<>> \o s, drawn + Len(s))
  <2>1. PICK t : t = <<>>
    OBVIOUS
  <2>2. Tree(t, drawn)
    BY <2>1, NoneIsTree
  <2>3. Tree(t \o s, drawn + Len(s))
    BY <1>9, <1>10, <2>2, Lengthened
  <2> QED BY <2>1, <2>3
<1>12. <<>> \o s = s
  BY <1>9
<1>13. ASSUME NEW i \in 1..Len(s)
       PROVE
         /\ s[i].id = drawn + i /\ s[i].type = old[i].type
         /\ s[i].parentId = IF i = 1 THEN Null ELSE drawn + i - 1
         /\ s[i].type = "compaction" => s[i].ref = drawn + 2
  <2>1. i \in 1..m /\ s[i] = E(i)
    BY <1>9
  <2> QED BY <1>8, <2>1
<1> QED
  BY <1>4, <1>5, <1>9, <1>11, <1>12, <1>13

-----------------------------------------------------------------------------
(* What a step does to the files *)

\* One file changes, or none.
OneChange(f, w, C, u) ==
  /\ f \in 1..MaxFiles
  /\ disk' = [disk EXCEPT ![f] = w] /\ acked' = [acked EXCEPT ![f] = C]
  /\ tears' = [tears EXCEPT ![f] = u]
  /\ \A x \in 1..MaxFiles : x # f => (x \in beheaded' <=> x \in beheaded)
  /\ faults' \in Nat /\ drawn' \in Nat /\ drawn <= drawn'
  /\ FileOK(w, C, u, f \in beheaded', drawn')
  /\ named' \in named..MaxFiles /\ f <= named'

LEMMA DiskChanges ==
  ASSUME Disk, NEW f, NEW w, NEW C, NEW u, OneChange(f, w, C, u)
  PROVE  /\ Disk'
         /\ disk'[f] = w /\ acked'[f] = C /\ tears'[f] = u
         /\ \A x \in 1..MaxFiles : x # f => disk'[x] = disk[x] /\ tears'[x] = tears[x]
<1>1. Tables /\ FilesOK /\ Names
  BY DEF Disk
<1> USE DEF OneChange
<1>2. /\ disk'[f] = w /\ acked'[f] = C /\ tears'[f] = u
      /\ \A x \in 1..MaxFiles : x # f => /\ disk'[x] = disk[x] /\ tears'[x] = tears[x]
                                         /\ acked'[x] = acked[x]
  BY <1>1 DEF Tables
<1>3. w \in Records /\ C \in SUBSET Items /\ u \in Nat
  BY DEF FileOK
<1>4. Tables'
  BY <1>1, <1>3 DEF Tables
<1>5. ASSUME NEW x \in 1..MaxFiles
      PROVE  FileOK(disk'[x], acked'[x], tears'[x], x \in beheaded', drawn')
  <2>1. CASE x = f
    BY <1>2, <2>1
  <2>2. CASE x # f
    <3>1. PICK g, A, t : g = disk[x] /\ A = acked[x] /\ t = tears[x]
      OBVIOUS
    <3>2. PICK h : h = (x \in beheaded)
      OBVIOUS
    <3>3. FileOK(g, A, t, h, drawn) /\ drawn \in Nat
      BY <1>1, <3>1, <3>2 DEF FilesOK, Tables
    <3>4. FileOK(g, A, t, h, drawn')
      <4>1. PICK m : m = drawn'
        OBVIOUS
      <4> QED BY <3>3, <4>1, MoreIds
    <3>5. h = (x \in beheaded')
      BY <2>2, <3>2
    <3> QED BY <1>2, <2>2, <3>1, <3>4, <3>5
  <2> QED BY <2>1, <2>2
<1>6. FilesOK'
  BY <1>5 DEF FilesOK
<1>7. Names'
  <2>1. named' \in 1..MaxFiles
    BY <1>1 DEF Names
  <2>2. ASSUME NEW x \in 1..MaxFiles, x > named' PROVE ~disk'[x].there
    <3>1. x # f /\ x > named
      BY <1>1, <2>2 DEF Names
    <3> QED BY <1>1, <1>2, <3>1 DEF Names
  <2> QED BY <2>1, <2>2 DEF Names
<1> QED
  BY <1>2, <1>4, <1>6, <1>7 DEF Disk

LEMMA DiskStays ==
  ASSUME Disk, UNCHANGED <<disk, acked, tears, beheaded>>,
         faults' \in Nat, drawn' \in Nat, drawn <= drawn',
         named' \in named..MaxFiles
  PROVE  Disk'
<1>1. Tables /\ FilesOK /\ Names
  BY DEF Disk
<1>2. Tables'
  BY <1>1 DEF Tables
<1>3. ASSUME NEW x \in 1..MaxFiles
      PROVE  FileOK(disk'[x], acked'[x], tears'[x], x \in beheaded', drawn')
  <2>1. PICK g, A, t : g = disk[x] /\ A = acked[x] /\ t = tears[x]
    OBVIOUS
  <2>2. PICK h : h = (x \in beheaded)
    OBVIOUS
  <2>3. FileOK(g, A, t, h, drawn) /\ drawn \in Nat
    BY <1>1, <2>1, <2>2 DEF FilesOK, Tables
  <2>4. FileOK(g, A, t, h, drawn')
    <3>1. PICK m : m = drawn'
      OBVIOUS
    <3> QED BY <2>3, <3>1, MoreIds
  <2> QED BY <2>1, <2>2, <2>4
<1>4. FilesOK'
  BY <1>3 DEF FilesOK
<1>5. Names'
  BY <1>1 DEF Names
<1> QED
  BY <1>2, <1>4, <1>5 DEF Disk

LEMMA FileIs ==
  ASSUME Disk, NEW f \in 1..MaxFiles
  PROVE  /\ FileOK(disk[f], acked[f], tears[f], f \in beheaded, drawn)
         /\ drawn \in Nat /\ tears[f] \in Nat /\ acked[f] \in SUBSET Items
         /\ ~Old(disk[f]) => Clean(disk[f].lines, drawn)
         /\ named \in 1..MaxFiles /\ f > named => ~disk[f].there
BY DEF Disk, Tables, FilesOK, FileOK, Names

\* A write that ends early.
LEMMA BrokenIs ==
  ASSUME Disk, NEW f \in 1..MaxFiles, NEW B, NEW N, Broken(f, B, N)
  PROVE  \E p \in Partial(B, N) :
           /\ disk' = [disk EXCEPT ![f] = p]
           /\ tears' = [tears EXCEPT ![f] = IF p.whole THEN tears[f] ELSE tears[f] + 1]
           /\ \A x \in 1..MaxFiles : x # f => (x \in beheaded' <=> x \in beheaded)
           /\ (f \in beheaded') = (f \in beheaded \/ (p.lines = <<Header>> /\ ~p.whole))
           /\ faults' \in Nat /\ faults' > 0
<1>1. faults \in Nat /\ tears \in [1..MaxFiles -> Nat]
  BY DEF Disk, Tables
<1>2. PICK p \in Partial(B, N) :
        /\ disk' = [disk EXCEPT ![f] = p]
        /\ tears' = [tears EXCEPT ![f] = IF p.whole THEN @ ELSE @ + 1]
        /\ beheaded' = IF p.lines = <<Header>> /\ ~p.whole
                         THEN beheaded \union {f} ELSE beheaded
  BY DEF Broken
<1>3. faults' \in Nat /\ faults' > 0
  BY <1>1 DEF Broken
<1>4. tears' = [tears EXCEPT ![f] = IF p.whole THEN tears[f] ELSE tears[f] + 1]
  BY <1>1, <1>2
<1>5. /\ \A x \in 1..MaxFiles : x # f => (x \in beheaded' <=> x \in beheaded)
      /\ (f \in beheaded') = (f \in beheaded \/ (p.lines = <<Header>> /\ ~p.whole))
  BY <1>2
<1> QED
  BY <1>2, <1>3, <1>4, <1>5

\* A file of which nothing is read may be written anew.
Blank(f) == Lost(disk[f], acked[f]) = acked[f]

\* The lines of a session: its header and its entries.
Headers(N, s, n) == n \in Nat /\ Tree(s, n) /\ N = <<Header>> \o s

LEMMA HeadedTreeIsClean ==
  ASSUME NEW n, NEW s, NEW N, Headers(N, s, n)
  PROVE  /\ Clean(N, n) /\ Headed(N) /\ ~Torso(N) /\ N \in Seq(Items \union {Header})
         /\ Len(N) = Len(s) + 1 /\ N[1] = Header
         /\ \A i \in 1..Len(s) : N[i + 1] = s[i]
         /\ \A i \in 1..Len(N) : i # 1 => i - 1 \in 1..Len(s) /\ N[i] = s[i - 1]
<1>1. PICK l : l = Len(s)
  OBVIOUS
<1>2. s \in Seq(Items) /\ Grown(s, n) /\ N = <<Header>> \o s /\ n \in Nat
  BY DEF Headers, Tree
<1>3. /\ l \in Nat /\ N \in Seq(Items \union {Header}) /\ Len(N) = l + 1 /\ N[1] = Header
      /\ \A i \in 1..l : N[i + 1] = s[i]
      /\ \A i \in 1..(l + 1) : i # 1 => i - 1 \in 1..l /\ N[i] = s[i - 1]
  <2>1. l \in Nat /\ s \in Seq(Items \union {Header}) /\ <<Header>> \in Seq(Items \union {Header})
    BY <1>1, <1>2
  <2> QED BY <1>1, <1>2, <2>1
<1>4. \A i \in 1..l : /\ s[i] \in Items /\ s[i].id \in Nat \ {0} /\ s[i] # Torn /\ s[i] # Header
                      /\ s[i].parentId < s[i].id /\ s[i].id <= n
  <2>1. \A i \in 1..l : s[i] \in Items
    BY <1>1, <1>2
  <2> QED BY <1>1, <1>2, <2>1, ItemsAre DEF Grown
<1>5. ASSUME NEW i \in 1..(l + 1), NEW j \in 1..(l + 1), i < j
      PROVE  N[i].id < N[j].id
  <2>1. j - 1 \in 1..l /\ N[j] = s[j - 1] /\ s[j - 1].id \in Nat \ {0}
    BY <1>3, <1>4, <1>5
  <2>2. CASE i = 1
    BY <1>3, <2>1, <2>2, Markers
  <2>3. CASE i # 1
    <3>1. i - 1 \in 1..l /\ N[i] = s[i - 1] /\ i - 1 < j - 1
      BY <1>3, <1>5, <2>3
    <3>2. s[i - 1].id < s[j - 1].id
      BY <1>1, <1>2, <2>1, <3>1 DEF Grown
    <3> QED BY <2>1, <3>1, <3>2
  <2> QED BY <2>2, <2>3
<1>6. ASSUME NEW i \in 1..(l + 1)
      PROVE  /\ N[i] # Torn /\ (N[i] = Header => i = 1)
             /\ N[i] \in Items => N[i].parentId < N[i].id /\ N[i].id <= n
  <2>1. CASE i = 1
    BY <1>3, <2>1, Markers, ItemsAre
  <2>2. CASE i # 1
    <3>1. i - 1 \in 1..l /\ N[i] = s[i - 1]
      BY <1>3, <2>2
    <3> QED BY <1>4, <3>1
  <2> QED BY <2>1, <2>2
<1>7. Clean(N, n)
  <2>1. N \in Seq(Items \union {Torn, Header})
    BY <1>3
  <2> QED BY <1>3, <1>5, <1>6, <2>1 DEF Clean
<1>8. Headed(N) /\ ~Torso(N)
  BY <1>3, <1>6 DEF Headed, Torso
<1> QED
  BY <1>1, <1>3, <1>7, <1>8

\* A file is written anew, or was to be.
Room(f) ==
  /\ drawn' \in Nat /\ drawn <= drawn' /\ named' \in named..MaxFiles /\ f <= named'
  /\ f \in 1..MaxFiles

\* A session is written, or was to be and was not.
Rewritten(f, s, C) ==
  /\ \E B \in {Absent, Empty} : Written(f, B, <<Header>> \o s)
  /\ acked' = [acked EXCEPT ![f] = C]
  /\ \/ C = acked[f] /\ Blank(f)
     \/ C = {s[i] : i \in DOMAIN s}

LEMMA FileRewritten ==
  ASSUME Disk, NEW f, Room(f), NEW s, Tree(s, drawn'), NEW C, Rewritten(f, s, C)
  PROVE  /\ Disk' /\ ~Old(disk'[f]) /\ Held(disk'[f])
         /\ Loaded(disk'[f]) = <<Header>> \o s
         /\ \A x \in 1..MaxFiles : x # f => disk'[x] = disk[x] /\ tears'[x] = tears[x]
         /\ beheaded' = beheaded
<1>1. PICK B \in {Absent, Empty} : Written(f, B, <<Header>> \o s)
  BY DEF Rewritten
<1>2. PICK g, A, t : g = disk[f] /\ A = acked[f] /\ t = tears[f]
  OBVIOUS
<1>3. PICK h, m, N : h = (f \in beheaded) /\ m = drawn' /\ N = <<Header>> \o s
  OBVIOUS
<1>4. PICK w : w = Extended(B, N)
  OBVIOUS
<1>5. /\ FileOK(g, A, t, h, drawn) /\ drawn \in Nat
      /\ f \in 1..MaxFiles /\ m \in Nat /\ drawn <= m
  BY <1>2, <1>3, FileIs DEF Room
<1>6. /\ Clean(N, m) /\ Headed(N) /\ ~Torso(N) /\ N \in Seq(Items \union {Header})
      /\ Len(N) = Len(s) + 1
      /\ \A i \in 1..Len(s) : N[i + 1] = s[i]
  <2>1. Headers(N, s, m)
    BY <1>3, <1>5 DEF Headers
  <2> QED BY <2>1, HeadedTreeIsClean
<1>7. \/ C = A /\ Lost(g, A) = A
      \/ /\ C \subseteq Items /\ IsFiniteSet(C)
         /\ \A e \in C : e.id <= m /\ \E i \in 1..Len(N) : N[i] = e
  <2>1. CASE C = acked[f] /\ Blank(f)
    BY <1>2, <2>1 DEF Blank
  <2>2. CASE C = {s[i] : i \in DOMAIN s}
    <3>1. s \in Seq(Items) /\ DOMAIN s = 1..Len(s) /\ Len(s) \in Nat
          /\ \A i \in 1..Len(s) : s[i].id <= m
      BY <1>3 DEF Tree, Grown
    <3>2. IsFiniteSet(C)
      <4>1. IsFiniteSet(1..Len(s))
        BY <3>1, FS_Interval
      <4>2. s \in Surjection(1..Len(s), C)
        BY <2>2, <3>1 DEF Surjection
      <4> QED BY <4>1, <4>2, FS_Surjection
    <3>3. ASSUME NEW e \in C
          PROVE  e \in Items /\ e.id <= m /\ \E i \in 1..Len(N) : N[i] = e
      <4>1. PICK i \in 1..Len(s) : e = s[i]
        BY <2>2, <3>1
      <4>2. i + 1 \in 1..Len(N) /\ N[i + 1] = e
        BY <1>6, <3>1, <4>1
      <4> QED BY <3>1, <4>1, <4>2
    <3> QED BY <3>2, <3>3
  <2> QED BY <2>1, <2>2 DEF Rewritten
<1>8. /\ FileOK(w, C, t, h, m) /\ ~Old(w) /\ Held(w) /\ w.lines = N
  <2>1. h \in BOOLEAN
    BY <1>3
  <2>2. Anew(w, g, A, t, h, drawn, m, N, B, C)
    BY <1>4, <1>5, <1>6, <1>7, <2>1 DEF Anew
  <2> QED BY <2>2, RewriteIsOK
<1>9. /\ disk' = [disk EXCEPT ![f] = w] /\ tears' = tears /\ beheaded' = beheaded
      /\ faults' = faults
  BY <1>1, <1>3, <1>4 DEF Written, damage
<1>10. tears' = [tears EXCEPT ![f] = t] /\ faults' \in Nat
  BY <1>2, <1>9 DEF Disk, Tables
<1>11. /\ Disk' /\ disk'[f] = w
       /\ \A x \in 1..MaxFiles : x # f => disk'[x] = disk[x] /\ tears'[x] = tears[x]
  <2>1. FileOK(w, C, t, f \in beheaded', drawn')
    BY <1>3, <1>8, <1>9
  <2>2. OneChange(f, w, C, t)
    BY <1>5, <1>9, <1>10, <2>1 DEF OneChange, Rewritten, Room
  <2> QED BY <2>2, DiskChanges
<1>12. Loaded(w) = N
  <2>1. Clean(w.lines, m) /\ Headed(w.lines) /\ ~Torso(w.lines) /\ m \in Nat
    BY <1>5, <1>6, <1>8
  <2> QED BY <1>8, <2>1, LoadedWhole
<1> QED
  BY <1>3, <1>8, <1>9, <1>11, <1>12

\* ... or it was written in part.
Spoilt(f, s) ==
  /\ \E B \in {Absent, Empty} : Broken(f, B, <<Header>> \o s)
  /\ acked' = acked /\ Blank(f)
  /\ \A i \in 1..Len(s) : s[i] \notin acked[f]

LEMMA FileBroken ==
  ASSUME Disk, NEW f, Room(f), NEW s, Tree(s, drawn'), Spoilt(f, s)
  PROVE  /\ Disk' /\ ~Old(disk'[f])
         /\ f \in beheaded => f \in beheaded' /\ tears'[f] > 0
         /\ \A x \in 1..MaxFiles : x # f =>
              /\ disk'[x] = disk[x] /\ tears'[x] = tears[x]
              /\ x \in beheaded' <=> x \in beheaded
         /\ faults' \in Nat /\ faults' > 0
<1>1. PICK B \in {Absent, Empty} : Broken(f, B, <<Header>> \o s)
  BY DEF Spoilt
<1>2. PICK g, A, t : g = disk[f] /\ A = acked[f] /\ t = tears[f]
  OBVIOUS
<1>3. PICK h, k, m, N : /\ h = (f \in beheaded) /\ k = (f \in beheaded')
                        /\ m = drawn' /\ N = <<Header>> \o s
  OBVIOUS
<1>4. /\ FileOK(g, A, t, h, drawn) /\ drawn \in Nat /\ t \in Nat /\ A \in SUBSET Items
      /\ f \in 1..MaxFiles /\ m \in Nat /\ drawn <= m
  BY <1>2, <1>3, FileIs DEF Room
<1>5. PICK p \in Partial(B, N) :
        /\ disk' = [disk EXCEPT ![f] = p]
        /\ tears' = [tears EXCEPT ![f] = IF p.whole THEN tears[f] ELSE tears[f] + 1]
        /\ \A x \in 1..MaxFiles : x # f => (x \in beheaded' <=> x \in beheaded)
        /\ (f \in beheaded') = (f \in beheaded \/ (p.lines = <<Header>> /\ ~p.whole))
        /\ faults' \in Nat /\ faults' > 0
  BY <1>1, <1>3, <1>4, BrokenIs
<1>6. PICK u : u = IF p.whole THEN t ELSE t + 1
  OBVIOUS
<1>7. Clean(N, m) /\ ~Torso(N) /\ \A i \in 1..Len(N) : N[i] \notin A
  <2>1. /\ Clean(N, m) /\ ~Torso(N) /\ N[1] = Header
        /\ \A i \in 1..Len(N) : i # 1 => i - 1 \in 1..Len(s) /\ N[i] = s[i - 1]
    <3>1. Headers(N, s, m)
      BY <1>3, <1>4 DEF Headers
    <3> QED BY <3>1, HeadedTreeIsClean
  <2>2. Header \notin A
    BY <1>4, ItemsAre
  <2>3. \A i \in 1..Len(s) : s[i] \notin A
    BY <1>2 DEF Spoilt
  <2> QED BY <2>1, <2>2, <2>3
<1>8. k = (h \/ (p.lines = <<Header>> /\ ~p.whole)) /\ h \in BOOLEAN /\ k \in BOOLEAN
  <2>1. h \in BOOLEAN /\ k \in BOOLEAN
    BY <1>3
  <2>2. k = (h \/ (p.lines = <<Header>> /\ ~p.whole))
    BY <1>3, <1>5, Zenon
  <2> QED BY <2>1, <2>2
<1>9. Lost(g, A) = A
  BY <1>2 DEF Blank, Spoilt
<1>10. FileOK(p, A, u, k, m) /\ ~Old(p)
  <2>1. Half(p, g, A, t, h, drawn, m, N, B, u, k)
    BY <1>4, <1>5, <1>6, <1>7, <1>8, <1>9 DEF Half
  <2> QED BY <2>1, BrokenRewriteIsOK
<1>11. /\ Disk' /\ disk'[f] = p /\ tears'[f] = u
       /\ \A x \in 1..MaxFiles : x # f => disk'[x] = disk[x] /\ tears'[x] = tears[x]
  <2>1. FileOK(p, A, u, f \in beheaded', drawn')
    BY <1>3, <1>10
  <2>2. acked' = [acked EXCEPT ![f] = A] /\ tears' = [tears EXCEPT ![f] = u]
    BY <1>2, <1>5, <1>6 DEF Disk, Tables, Spoilt
  <2>3. OneChange(f, p, A, u)
    BY <1>4, <1>5, <2>1, <2>2 DEF OneChange, Room
  <2> QED BY <2>3, DiskChanges
<1>12. f \in beheaded => f \in beheaded' /\ tears'[f] > 0
  <2>1. h => t > 0
    BY <1>4 DEF FileOK
  <2>2. u \in Nat /\ u >= t
    BY <1>4, <1>6
  <2>3. f \in beheaded => f \in beheaded' /\ t > 0
    BY <1>3, <1>5, <2>1
  <2> QED BY <1>4, <1>11, <2>2, <2>3
<1> QED
  BY <1>5, <1>10, <1>11, <1>12

\* An entry is appended to a file, or was to be.
NewLine(f, e) ==
  /\ f \in 1..named /\ named' = named /\ drawn' = drawn + 1 /\ ~Old(disk[f])
  /\ e \in Items /\ e.id = drawn + 1 /\ e.parentId <= drawn

LEMMA FileAppended ==
  ASSUME Disk, NEW f, NEW e, NewLine(f, e), f \in beheaded \/ Held(disk[f]),
         Written(f, disk[f], <<e>>),
         acked' = [acked EXCEPT ![f] = acked[f] \union {e}]
  PROVE  /\ Disk' /\ ~Old(disk'[f])
         /\ f \in beheaded' \/ Held(disk'[f])
         /\ tears'[f] = 0 => tears[f] = 0 /\ Loaded(disk'[f]) = Append(Loaded(disk[f]), e)
<1>1. PICK g, A, t, h : g = disk[f] /\ A = acked[f] /\ t = tears[f] /\ h = (f \in beheaded)
  OBVIOUS
<1>2. PICK w, n : w = Extended(g, <<e>>) /\ n = drawn
  OBVIOUS
<1>3. f \in 1..MaxFiles
  BY SessionManagerBounds DEF Disk, Names, NewLine
<1>4. FileOK(g, A, t, h, n) /\ n \in Nat /\ t \in Nat /\ A \in SUBSET Items
  BY <1>1, <1>2, <1>3, FileIs
<1>5. h \in BOOLEAN /\ (h \/ Held(g)) /\ ~Old(g)
  <2>1. h \in BOOLEAN
    BY <1>1
  <2>2. h \/ Held(g)
    BY <1>1, Zenon
  <2> QED BY <1>1, <2>1, <2>2 DEF NewLine
<1>6. /\ FileOK(w, A \union {e}, t, h, n + 1) /\ ~Old(w)
      /\ h = FALSE => Held(w)
      /\ g.whole => w.lines = Append(g.lines, e) /\ w.whole
  <2>1. More(w, g, A, t, h, n, e)
    BY <1>2, <1>4, <1>5 DEF More, NewLine
  <2> QED BY <2>1, AppendIsOK
<1>7. /\ disk' = [disk EXCEPT ![f] = w] /\ tears' = tears /\ beheaded' = beheaded
      /\ faults' = faults
  BY <1>1, <1>2 DEF Written, damage
<1>8. Disk' /\ disk'[f] = w /\ tears'[f] = t
  <2>1. FileOK(w, A \union {e}, t, f \in beheaded', drawn')
    BY <1>1, <1>2, <1>6, <1>7 DEF NewLine
  <2>2. tears' = [tears EXCEPT ![f] = t] /\ faults' \in Nat
    BY <1>1, <1>7 DEF Disk, Tables
  <2>3. named' \in named..MaxFiles /\ f <= named' /\ drawn' \in Nat /\ drawn <= drawn'
    BY <1>2, <1>4 DEF Disk, Names, NewLine
  <2>4. acked' = [acked EXCEPT ![f] = A \union {e}]
    BY <1>1
  <2>5. OneChange(f, w, A \union {e}, t)
    BY <1>3, <1>7, <2>1, <2>2, <2>3, <2>4 DEF OneChange
  <2> QED BY <2>5, DiskChanges
<1>9. ASSUME t = 0 PROVE Loaded(w) = Append(Loaded(g), e)
  <2>1. ~h /\ g.whole /\ ~Torso(g.lines) /\ Clean(g.lines, n)
    BY <1>4, <1>5, <1>9 DEF FileOK
  <2>2. ~h /\ w.whole /\ ~Torso(w.lines) /\ Clean(w.lines, n + 1) /\ n + 1 \in Nat
    BY <1>4, <1>6, <1>9 DEF FileOK
  <2>3. Headed(g.lines) /\ Headed(w.lines)
    BY <1>5, <1>6, <2>1 DEF Held
  <2>4. Loaded(g) = g.lines
    BY <1>4, <2>1, <2>3, LoadedWhole
  <2>5. Loaded(w) = w.lines
    BY <2>2, <2>3, LoadedWhole
  <2> QED BY <1>6, <2>1, <2>4, <2>5
<1>10. f \in beheaded' \/ Held(disk'[f])
  <2>1. ASSUME f \notin beheaded PROVE h = FALSE
    <3>1. (f \in beheaded) = FALSE
      BY <2>1
    <3> QED BY <1>1, <3>1
  <2> QED BY <1>6, <1>7, <1>8, <2>1
<1>11. tears'[f] = 0 => tears[f] = 0 /\ Loaded(disk'[f]) = Append(Loaded(disk[f]), e)
  <2> SUFFICES ASSUME tears'[f] = 0
               PROVE  tears[f] = 0 /\ Loaded(disk'[f]) = Append(Loaded(disk[f]), e)
    OBVIOUS
  <2>1. t = 0
    BY <1>8
  <2>2. Loaded(w) = Append(Loaded(g), e)
    BY <1>9, <2>1
  <2> QED BY <1>1, <1>8, <2>1, <2>2
<1> QED
  BY <1>6, <1>8, <1>10, <1>11

LEMMA FileHalfAppended ==
  ASSUME Disk, NEW f, NEW e, NewLine(f, e),
         Broken(f, disk[f], <<e>>), acked' = acked
  PROVE  /\ Disk' /\ ~Old(disk'[f])
         /\ f \in beheaded \/ Held(disk[f]) => f \in beheaded' \/ Held(disk'[f])
         /\ faults' \in Nat /\ faults' > 0
<1>1. PICK g, A, t, n : g = disk[f] /\ A = acked[f] /\ t = tears[f] /\ n = drawn
  OBVIOUS
<1>2. PICK h, k : h = (f \in beheaded) /\ k = (f \in beheaded')
  OBVIOUS
<1>3. f \in 1..MaxFiles
  BY SessionManagerBounds DEF Disk, Names, NewLine
<1>4. FileOK(g, A, t, h, n) /\ n \in Nat /\ t \in Nat /\ A \in SUBSET Items
  BY <1>1, <1>2, <1>3, FileIs
<1>5. PICK p \in Partial(g, <<e>>) :
        /\ disk' = [disk EXCEPT ![f] = p]
        /\ tears' = [tears EXCEPT ![f] = IF p.whole THEN tears[f] ELSE tears[f] + 1]
        /\ \A x \in 1..MaxFiles : x # f => (x \in beheaded' <=> x \in beheaded)
        /\ (f \in beheaded') = (f \in beheaded \/ (p.lines = <<Header>> /\ ~p.whole))
        /\ faults' \in Nat /\ faults' > 0
  <2>1. PICK N : N = <<e>>
    OBVIOUS
  <2>2. Broken(f, g, N)
    BY <1>1, <2>1
  <2>3. \E p \in Partial(g, N) :
          /\ disk' = [disk EXCEPT ![f] = p]
          /\ tears' = [tears EXCEPT ![f] = IF p.whole THEN tears[f] ELSE tears[f] + 1]
          /\ \A x \in 1..MaxFiles : x # f => (x \in beheaded' <=> x \in beheaded)
          /\ (f \in beheaded') = (f \in beheaded \/ (p.lines = <<Header>> /\ ~p.whole))
          /\ faults' \in Nat /\ faults' > 0
    BY <1>3, <2>2, BrokenIs
  <2> QED BY <2>1, <2>3
<1>6. PICK u : u = IF p.whole THEN t ELSE t + 1
  OBVIOUS
<1>7. k = (h \/ (p.lines = <<Header>> /\ ~p.whole)) /\ h \in BOOLEAN /\ k \in BOOLEAN
  <2>1. h \in BOOLEAN /\ k \in BOOLEAN
    BY <1>2
  <2>2. k = (h \/ (p.lines = <<Header>> /\ ~p.whole))
    BY <1>2, <1>5, Zenon
  <2> QED BY <2>1, <2>2
<1>8. /\ FileOK(p, A, u, k, n + 1) /\ ~Old(p)
      /\ (h = FALSE => Held(g)) => (k = FALSE => Held(p))
  <2>1. Less(p, g, A, t, h, n, e, u, k)
    BY <1>1, <1>4, <1>5, <1>6, <1>7 DEF Less, NewLine
  <2> QED BY <2>1, BrokenAppendIsOK
<1>9. Disk' /\ disk'[f] = p
  <2>1. FileOK(p, A, u, f \in beheaded', drawn')
    BY <1>1, <1>2, <1>8 DEF NewLine
  <2>2. tears' = [tears EXCEPT ![f] = u] /\ acked' = [acked EXCEPT ![f] = A]
    BY <1>1, <1>5, <1>6 DEF Disk, Tables
  <2>3. named' \in named..MaxFiles /\ f <= named' /\ drawn' \in Nat /\ drawn <= drawn'
    BY <1>1, <1>4 DEF Disk, Names, NewLine
  <2>4. OneChange(f, p, A, u)
    BY <1>3, <1>5, <2>1, <2>2, <2>3 DEF OneChange
  <2> QED BY <2>4, DiskChanges
<1> QED
  BY <1>1, <1>2, <1>5, <1>8, <1>9

-----------------------------------------------------------------------------
(* What a step does to the memory *)

LEMMA Ends ==
  ASSUME Forgotten, drawn' \in Nat
  PROVE  Mind'
<1>1. PICK m, s : m = drawn' /\ s = fileEntries'
  OBVIOUS
<1>2. m \in Nat /\ s = <<>>
  BY <1>1 DEF Forgotten
<1>3. Tree(s, m)
  BY <1>2, NoneIsTree
<1>4. open' = FALSE /\ flushed' = FALSE /\ leafId' = 0
  BY DEF Forgotten, Null
<1>5. Memory'
  <2>1. Tree(fileEntries', drawn')
    BY <1>1, <1>3
  <2>2. leafId' \in 0..drawn'
    BY <1>4
  <2>3. open' \in BOOLEAN /\ flushed' \in BOOLEAN /\ ~open'
    <3>1. open' \in BOOLEAN /\ flushed' \in BOOLEAN
      BY <1>4
    <3>2. ~open'
      BY <1>4
    <3> QED BY <3>1, <3>2
  <2> QED BY <2>1, <2>2, <2>3 DEF Memory
<1> QED
  BY <1>4, <1>5 DEF Mind, FreshFile, ReopenAgrees, LabelsAgree

LEMMA Serves ==
  ASSUME NEW f, NEW s, NEW saved \in BOOLEAN, Serving(f, s, saved),
         f \in 1..named', drawn' \in Nat, Tree(s, drawn'), ~Old(disk'[f]),
         saved => f \in beheaded' \/ Held(disk'[f]),
         saved => Loaded(disk'[f]) = <<Header>> \o s,
         ~saved => ~disk'[f].there
  PROVE  Mind'
<1>1. /\ open' = TRUE /\ sessionFile' = f /\ fileEntries' = s
      /\ leafId' = LastId(s) /\ labels' = LabelsOf(s) /\ flushed' = saved
  BY DEF Serving
<1>2. leafId' \in 0..drawn'
  <2>1. PICK m : m = drawn'
    OBVIOUS
  <2>2. LastId(s) \in 0..m
    BY <2>1, LastIdOfTree
  <2> QED BY <1>1, <2>1, <2>2
<1>3. Memory'
  BY <1>1, <1>2 DEF Memory
<1>4. FreshFile' /\ ReopenAgrees' /\ LabelsAgree'
  BY <1>1 DEF FreshFile, ReopenAgrees, LabelsAgree
<1> QED
  BY <1>3, <1>4 DEF Mind

LEMMA Keeps ==
  ASSUME Mind, UNCHANGED memory, diverged' = diverged,
         drawn \in Nat, drawn' \in Nat, drawn <= drawn',
         named \in Nat, named' \in Nat, named <= named',
         open => /\ ~Old(disk'[sessionFile])
                 /\ flushed => \/ sessionFile \in beheaded' /\ tears'[sessionFile] # 0
                               \/ /\ disk'[sessionFile] = disk[sessionFile]
                                  /\ tears'[sessionFile] = tears[sessionFile]
                                  /\ sessionFile \in beheaded' <=> sessionFile \in beheaded
                 /\ ~flushed /\ disk'[sessionFile].there =>
                      diverged \/ faults' > 0
  PROVE  Mind'
<1>1. /\ open' = open /\ sessionFile' = sessionFile /\ fileEntries' = fileEntries
      /\ leafId' = leafId /\ labels' = labels /\ flushed' = flushed
  BY DEF memory
<1>2. Memory /\ FreshFile /\ ReopenAgrees /\ LabelsAgree
  BY DEF Mind
<1>3. Tree(fileEntries, drawn')
  <2>1. PICK m : m = drawn'
    OBVIOUS
  <2>2. Tree(fileEntries, m)
    BY <1>2, <2>1, TreeWithin DEF Memory
  <2> QED BY <2>1, <2>2
<1>4. leafId \in 0..drawn'
  BY <1>2 DEF Memory
<1>5. Memory'
  BY <1>1, <1>2, <1>3, <1>4 DEF Memory
<1>6. FreshFile'
  BY <1>1 DEF FreshFile
<1>7. ReopenAgrees'
  BY <1>1, <1>2 DEF ReopenAgrees
<1>8. LabelsAgree'
  BY <1>1, <1>2 DEF LabelsAgree
<1> QED
  BY <1>5, <1>6, <1>7, <1>8 DEF Mind

LEMMA Unwritten ==
  ASSUME Disk, NEW f \in 1..MaxFiles, ~disk[f].there
  PROVE  disk[f] = Absent /\ acked[f] = {} /\ Blank(f)
<1>1. FileOK(disk[f], acked[f], tears[f], f \in beheaded, drawn)
  BY FileIs
<1>2. disk[f] = Absent /\ acked[f] = {}
  BY <1>1 DEF FileOK
<1> QED
  BY <1>2 DEF Blank, Lost

\* An entry goes into the memory.
Taken(e) ==
  /\ open /\ e \in Items /\ e.id = drawn + 1 /\ e.parentId <= drawn
  /\ drawn' = drawn + 1 /\ named' = named

LEMMA EntryGrows ==
  ASSUME SessionsInv, NEW e, Taken(e)
  PROVE  /\ Tree(Append(fileEntries, e), drawn') /\ drawn' \in Nat /\ drawn <= drawn'
         /\ fileEntries \in Seq(Items)
         /\ Len(Append(fileEntries, e)) = Len(fileEntries) + 1
         /\ Append(fileEntries, e)[Len(fileEntries) + 1] = e
         /\ sessionFile \in 1..named /\ sessionFile \in 1..MaxFiles /\ ~Old(disk[sessionFile])
<1>1. PICK n, t : n = drawn /\ t = fileEntries
  OBVIOUS
<1>2. n \in Nat /\ Tree(t, n)
  BY <1>1 DEF SessionsInv, Disk, Tables, Mind, Memory
<1>3. /\ Tree(Append(t, e), e.id) /\ Len(Append(t, e)) = Len(t) + 1
      /\ Append(t, e)[Len(t) + 1] = e
  <2>1. e \in Items /\ n < e.id /\ e.parentId < e.id
    BY <1>1, <1>2, ItemsAre DEF Taken
  <2> QED BY <1>2, <2>1, TreeMore
<1>4. e.id = drawn' /\ drawn' \in Nat /\ drawn <= drawn'
  BY <1>1, <1>2 DEF Taken
<1>5. sessionFile \in 1..named /\ ~Old(disk[sessionFile])
  BY DEF SessionsInv, Mind, Memory, Taken
<1>6. sessionFile \in 1..MaxFiles
  BY <1>5, SessionManagerBounds DEF SessionsInv, Disk, Names
<1> QED
  BY <1>1, <1>2, <1>3, <1>4, <1>5, <1>6 DEF Tree

\* What the memory needs of the file it is written to.
Served(e) ==
  /\ InMemory(e) /\ ~Old(disk'[sessionFile]) /\ flushed' \in BOOLEAN
  /\ flushed' => sessionFile \in beheaded' \/ Held(disk'[sessionFile])
  /\ ~flushed' /\ disk'[sessionFile].there => diverged' \/ faults' > 0
  /\ diverged' \/ (diverged' = diverged /\ labels' = LabelsAfter(labels, e))
  /\ flushed' /\ ~diverged' /\ tears'[sessionFile] = 0 =>
       Loaded(disk'[sessionFile]) = <<Header>> \o Append(fileEntries, e)

LEMMA Takes ==
  ASSUME SessionsInv, NEW e, Taken(e), Served(e)
  PROVE  Mind'
<1>1. /\ Tree(Append(fileEntries, e), drawn') /\ drawn' \in Nat
      /\ fileEntries \in Seq(Items) /\ sessionFile \in 1..named
  BY EntryGrows
<1>2. open' = open /\ open /\ sessionFile' = sessionFile /\ leafId' = e.id
      /\ fileEntries' = Append(fileEntries, e) /\ named' = named /\ e.id = drawn'
  BY DEF Served, InMemory, Taken
<1>3. Memory'
  <2>1. Tree(fileEntries', drawn')
    BY <1>1, <1>2
  <2>2. leafId' \in 0..drawn'
    BY <1>1, <1>2
  <2>3. open' \in BOOLEAN
    BY <1>2 DEF SessionsInv, Mind, Memory
  <2>4. flushed' \in BOOLEAN /\ ~Old(disk'[sessionFile'])
        /\ (flushed' => sessionFile' \in beheaded' \/ Held(disk'[sessionFile']))
    BY <1>2 DEF Served
  <2>5. sessionFile' \in 1..named'
    BY <1>1, <1>2
  <2> QED BY <2>1, <2>2, <2>3, <2>4, <2>5 DEF Memory
<1>4. FreshFile'
  BY <1>2 DEF Served, FreshFile
<1>5. LabelsAgree'
  <2> SUFFICES ASSUME ~diverged' PROVE labels' = LabelsOf(fileEntries')
    BY DEF LabelsAgree
  <2>1. labels' = LabelsAfter(labels, e) /\ ~diverged
    BY DEF Served
  <2>2. labels = LabelsOf(fileEntries)
    BY <1>2, <2>1 DEF SessionsInv, Mind, LabelsAgree
  <2>3. LabelsOf(Append(fileEntries, e)) = LabelsAfter(LabelsOf(fileEntries), e)
    <3>1. e \in Items
      BY DEF Taken
    <3> QED BY <1>1, <3>1, LabelsOfMore
  <2> QED BY <1>2, <2>1, <2>2, <2>3
<1>6. ReopenAgrees'
  <2> SUFFICES ASSUME flushed', ~diverged', tears'[sessionFile'] = 0
               PROVE  /\ Loaded(disk'[sessionFile']) = <<Header>> \o fileEntries'
                      /\ labels' = LabelsOf(fileEntries')
    BY DEF ReopenAgrees
  <2>1. labels' = LabelsOf(fileEntries')
    BY <1>2, <1>5 DEF LabelsAgree
  <2>2. Loaded(disk'[sessionFile']) = <<Header>> \o fileEntries'
    BY <1>2 DEF Served
  <2> QED BY <2>1, <2>2
<1> QED
  BY <1>3, <1>4, <1>5, <1>6 DEF Mind

LEMMA LinesAre ==
  ASSUME SessionsInv, NEW e, Taken(e), NEW s, s = Append(fileEntries, e)
  PROVE  /\ flushed => LinesFor(s) = <<e>>
         /\ ~flushed /\ HasAssistant(s) => LinesFor(s) = <<Header>> \o s
         /\ ~flushed /\ ~HasAssistant(s) => LinesFor(s) = <<>>
         /\ <<e>> # <<>> /\ <<Header>> \o s # <<>>
<1>1. /\ Len(s) = Len(fileEntries) + 1 /\ s[Len(fileEntries) + 1] = e
      /\ fileEntries \in Seq(Items)
  BY EntryGrows
<1>2. s[Len(s)] = e
  BY <1>1
<1>3. <<Header>> \o s # <<>>
  <2>1. e \in Items
    BY DEF Taken
  <2>2. s \in Seq(Items \union {Header}) /\ <<Header>> \in Seq(Items \union {Header})
    BY <1>1, <2>1
  <2>3. Len(<<Header>> \o s) = 1 + Len(s) /\ Len(s) \in Nat
    BY <2>2
  <2> QED BY <2>3
<1> QED
  BY <1>2, <1>3 DEF LinesFor

LEMMA SavedIsOK ==
  ASSUME SessionsInv, NEW e, Taken(e), Saved(e)
  PROVE  SessionsInv'
<1>1. PICK s, f : s = Append(fileEntries, e) /\ f = sessionFile
  OBVIOUS
<1>2. PICK lines : lines = LinesFor(s)
  OBVIOUS
<1>3. Disk
  BY DEF SessionsInv
<1>4. /\ Tree(s, drawn') /\ drawn' \in Nat /\ drawn <= drawn' /\ fileEntries \in Seq(Items)
      /\ f \in 1..named /\ f \in 1..MaxFiles /\ ~Old(disk[f])
  BY <1>1, EntryGrows
<1>5. /\ flushed => lines = <<e>>
      /\ ~flushed /\ HasAssistant(s) => lines = <<Header>> \o s
      /\ ~flushed /\ ~HasAssistant(s) => lines = <<>>
      /\ <<e>> # <<>> /\ <<Header>> \o s # <<>>
  BY <1>1, <1>2, LinesAre
<1>6. /\ ~Exists(s) /\ InMemory(e) /\ labels' = LabelsAfter(labels, e)
      /\ diverged' = diverged
      /\ IF lines = <<>> THEN UNCHANGED <<disk, damage, flushed, acked>>
         ELSE /\ Written(f, disk[f], lines) /\ flushed' = TRUE
              /\ acked' = [acked EXCEPT ![f] = @ \union IF flushed THEN {e}
                                                        ELSE {s[i] : i \in DOMAIN s}]
  BY <1>1, <1>2 DEF Saved
<1>7. flushed \in BOOLEAN /\ (flushed => f \in beheaded \/ Held(disk[f]))
  BY <1>1 DEF SessionsInv, Mind, Memory, Taken
<1>8. CASE flushed
  <2>1. /\ Written(f, disk[f], <<e>>) /\ flushed' = TRUE
        /\ acked' = [acked EXCEPT ![f] = acked[f] \union {e}]
    BY <1>3, <1>5, <1>6, <1>8 DEF Disk, Tables
  <2>2. NewLine(f, e)
    BY <1>4 DEF NewLine, Taken
  <2>3. f \in beheaded \/ Held(disk[f])
    BY <1>7, <1>8
  <2>4. /\ Disk' /\ ~Old(disk'[f])
        /\ f \in beheaded' \/ Held(disk'[f])
        /\ tears'[f] = 0 => tears[f] = 0 /\ Loaded(disk'[f]) = Append(Loaded(disk[f]), e)
    BY <1>3, <2>1, <2>2, <2>3, FileAppended
  <2>5. ASSUME ~diverged', tears'[f] = 0 PROVE Loaded(disk'[f]) = <<Header>> \o s
    <3>1. Loaded(disk[f]) = <<Header>> \o fileEntries
      BY <1>1, <1>6, <1>8, <2>4, <2>5 DEF SessionsInv, Mind, ReopenAgrees, Taken
    <3>2. Append(<<Header>> \o fileEntries, e) = <<Header>> \o s
      <4>1. /\ fileEntries \in Seq(Items \union {Header})
            /\ <<Header>> \in Seq(Items \union {Header}) /\ e \in Items \union {Header}
        BY <1>4 DEF Taken
      <4> QED BY <1>1, <4>1
    <3> QED BY <2>4, <2>5, <3>1, <3>2
  <2>6. Served(e)
    BY <1>1, <1>6, <2>1, <2>4, <2>5 DEF Served
  <2> QED BY <2>4, <2>6, Takes DEF SessionsInv
<1>9. CASE ~flushed /\ HasAssistant(s)
  <2>1. /\ Written(f, disk[f], <<Header>> \o s) /\ flushed' = TRUE
        /\ acked' = [acked EXCEPT ![f] = acked[f] \union {s[i] : i \in DOMAIN s}]
    BY <1>3, <1>5, <1>6, <1>9 DEF Disk, Tables
  <2>2. ~disk[f].there
    BY <1>1, <1>6, <1>9 DEF Exists
  <2>3. disk[f] = Absent /\ acked[f] = {} /\ Blank(f)
    BY <1>3, <1>4, <2>2, Unwritten
  <2>4. acked' = [acked EXCEPT ![f] = {s[i] : i \in DOMAIN s}]
    BY <2>1, <2>3
  <2>5. Rewritten(f, s, {s[i] : i \in DOMAIN s})
    BY <2>1, <2>3, <2>4 DEF Rewritten
  <2>6. Room(f)
    BY <1>3, <1>4 DEF Room, Taken, Disk, Names
  <2>7. /\ Disk' /\ ~Old(disk'[f]) /\ Held(disk'[f])
        /\ Loaded(disk'[f]) = <<Header>> \o s
    BY <1>3, <1>4, <2>5, <2>6, FileRewritten
  <2>8. Served(e)
    BY <1>1, <1>6, <2>1, <2>7 DEF Served
  <2> QED BY <2>7, <2>8, Takes DEF SessionsInv
<1>10. CASE ~flushed /\ ~HasAssistant(s)
  <2>1. UNCHANGED <<disk, damage, flushed, acked>>
    BY <1>5, <1>6, <1>10
  <2>2. disk' = disk /\ tears' = tears /\ beheaded' = beheaded /\ faults' = faults
        /\ flushed' = flushed /\ acked' = acked
    BY <2>1 DEF damage
  <2>3. Disk'
    <3>1. faults' \in Nat /\ named' \in named..MaxFiles
      BY <1>3, <2>2 DEF Disk, Tables, Names, Taken
    <3> QED BY <1>3, <1>4, <2>2, <3>1, DiskStays
  <2>4. disk[f].there => diverged \/ faults > 0
    BY <1>1, <1>10 DEF SessionsInv, Mind, FreshFile, Taken
  <2>5. Served(e)
    BY <1>1, <1>4, <1>6, <1>7, <1>10, <2>2, <2>4 DEF Served
  <2> QED BY <2>3, <2>5, Takes DEF SessionsInv
<1> QED
  BY <1>8, <1>9, <1>10

LEMMA NotSavedIsOK ==
  ASSUME SessionsInv, NEW e, Taken(e), NotSaved(e)
  PROVE  SessionsInv'
<1>1. PICK s, f : s = Append(fileEntries, e) /\ f = sessionFile
  OBVIOUS
<1>2. Disk
  BY DEF SessionsInv
<1>3. /\ Tree(s, drawn') /\ drawn' \in Nat /\ drawn <= drawn' /\ fileEntries \in Seq(Items)
      /\ f \in 1..named /\ f \in 1..MaxFiles /\ ~Old(disk[f])
  BY <1>1, EntryGrows
<1>4. /\ flushed => LinesFor(s) = <<e>>
      /\ ~flushed /\ HasAssistant(s) => LinesFor(s) = <<Header>> \o s
      /\ ~flushed /\ ~HasAssistant(s) => LinesFor(s) = <<>>
  BY <1>1, LinesAre
<1>5. /\ LinesFor(s) # <<>> /\ acked' = acked
      /\ \/ Exists(s) /\ UNCHANGED <<disk, damage>>
         \/ ~Exists(s) /\ Broken(f, disk[f], LinesFor(s))
      /\ \/ InMemory(e) /\ flushed' = flushed /\ diverged' = TRUE
         \/ Forgotten
  BY <1>1 DEF NotSaved
<1>6. flushed \in BOOLEAN /\ (flushed => f \in beheaded \/ Held(disk[f]))
  BY <1>1 DEF SessionsInv, Mind, Memory, Taken
<1>7. /\ Disk' /\ ~Old(disk'[f])
      /\ flushed => f \in beheaded' \/ Held(disk'[f])
  <2>1. CASE Exists(s) /\ UNCHANGED <<disk, damage>>
    <3>1. disk' = disk /\ tears' = tears /\ beheaded' = beheaded /\ faults' = faults
      BY <2>1 DEF damage
    <3>2. faults' \in Nat /\ named' \in named..MaxFiles
      BY <1>2, <3>1 DEF Disk, Tables, Names, Taken
    <3>3. Disk'
      BY <1>2, <1>3, <1>5, <3>1, <3>2, DiskStays
    <3> QED BY <1>3, <1>6, <3>1, <3>3
  <2>2. CASE flushed /\ Broken(f, disk[f], LinesFor(s))
    <3>1. Broken(f, disk[f], <<e>>)
      BY <1>4, <2>2
    <3>2. NewLine(f, e)
      BY <1>3 DEF NewLine, Taken
    <3>3. /\ Disk' /\ ~Old(disk'[f])
          /\ f \in beheaded \/ Held(disk[f]) => f \in beheaded' \/ Held(disk'[f])
      BY <1>2, <1>5, <3>1, <3>2, FileHalfAppended
    <3> QED BY <1>6, <3>3
  <2>3. CASE ~flushed /\ ~Exists(s) /\ Broken(f, disk[f], LinesFor(s))
    <3>1. HasAssistant(s) /\ Broken(f, disk[f], <<Header>> \o s)
      BY <1>4, <1>5, <2>3
    <3>2. ~disk[f].there
      BY <1>1, <2>3, <3>1 DEF Exists
    <3>3. disk[f] = Absent /\ acked[f] = {} /\ Blank(f)
      BY <1>2, <1>3, <3>2, Unwritten
    <3>4. Spoilt(f, s)
      BY <1>5, <3>1, <3>3 DEF Spoilt
    <3>5. Room(f)
      BY <1>2, <1>3 DEF Room, Taken, Disk, Names
    <3>6. Disk' /\ ~Old(disk'[f])
      BY <1>2, <1>3, <3>4, <3>5, FileBroken
    <3> QED BY <2>3, <3>6
  <2> QED BY <1>5, <1>6, <2>1, <2>2, <2>3
<1>8. Mind'
  <2>1. CASE Forgotten
    BY <1>3, <2>1, Ends
  <2>2. CASE InMemory(e) /\ flushed' = flushed /\ diverged' = TRUE
    <3>1. Served(e)
      BY <1>1, <1>6, <1>7, <2>2 DEF Served
    <3> QED BY <3>1, Takes
  <2> QED BY <1>5, <2>1, <2>2
<1> QED
  BY <1>7, <1>8 DEF SessionsInv

LEMMA AppendingIsOK ==
  ASSUME SessionsInv, NEW type \in Kinds, NEW parentId \in 0..drawn, NEW ref \in Nat,
         NEW set \in BOOLEAN, Appending(NewEntry(type, parentId, ref, set)),
         type = "compaction" => ref <= drawn
  PROVE  SessionsInv'
<1>1. PICK e : e = NewEntry(type, parentId, ref, set)
  OBVIOUS
<1>2. open /\ drawn' = drawn + 1 /\ named' = named /\ (Saved(e) \/ NotSaved(e))
  BY <1>1 DEF Appending
<1>3. drawn \in Nat /\ drawn + 1 \in Nat \ {0} /\ parentId \in Nat /\ parentId <= drawn
  BY DEF SessionsInv, Disk, Tables
<1>4. e \in Items /\ e.id = drawn + 1 /\ e.parentId = parentId
  <2>1. type = "compaction" => ref < drawn + 1
    BY <1>3
  <2> QED BY <1>1, <1>3, <2>1 DEF NewEntry, Entry, Items
<1>5. Taken(e)
  BY <1>2, <1>3, <1>4 DEF Taken
<1> QED
  BY <1>2, <1>5, SavedIsOK, NotSavedIsOK

LEMMA IdsAreDrawn ==
  ASSUME NEW n \in Nat, NEW s, Tree(s, n)
  PROVE  IdsOf(s) \subseteq 1..n
<1>1. s \in Seq(Items) /\ DOMAIN s = 1..Len(s) /\ \A i \in 1..Len(s) : s[i].id <= n
  BY DEF Tree, Grown
<1>2. ASSUME NEW i \in DOMAIN s PROVE s[i].id \in 1..n
  <2>1. s[i] \in Items /\ s[i].id <= n
    BY <1>1
  <2> QED BY <2>1, ItemsAre
<1> QED
  BY <1>2 DEF IdsOf

LEMMA EntriesAreDrawn ==
  ASSUME SessionsInv
  PROVE  /\ drawn \in Nat /\ Tree(fileEntries, drawn) /\ leafId \in 0..drawn
         /\ IdsOf(fileEntries) \subseteq 1..drawn
<1>1. drawn \in Nat /\ Tree(fileEntries, drawn) /\ leafId \in 0..drawn
  BY DEF SessionsInv, Disk, Tables, Mind, Memory
<1> QED
  BY <1>1, IdsAreDrawn

LEMMA GreatestExists ==
  ASSUME NEW n \in Nat, NEW P \in SUBSET (1..n), P # {}
  PROVE  \E i \in P : \A j \in P : j <= i
<1> DEFINE S == {k \in Nat : n - k \in P}
<1>1. S \subseteq Nat /\ S # {}
  <2>1. PICK j \in P : TRUE
    OBVIOUS
  <2>2. n - j \in Nat /\ n - (n - j) = j
    BY <2>1
  <2> QED BY <2>1, <2>2
<1>2. PICK k \in S : \A y \in S : ~(<<y, k>> \in OpToRel(<, Nat))
  <2> HIDE DEF S
  <2> QED BY <1>1, WFMin, NatLessThanWellFounded
<1>3. k \in Nat /\ n - k \in P
  OBVIOUS
<1>4. ASSUME NEW j \in P PROVE j <= n - k
  <2> SUFFICES ASSUME j > n - k PROVE FALSE
    BY <1>3
  <2>1. n - j \in Nat /\ n - j < k /\ n - (n - j) = j
    BY <1>3, <1>4
  <2>2. n - j \in S /\ <<n - j, k>> \in OpToRel(<, Nat)
    BY <1>3, <2>1 DEF OpToRel
  <2> QED BY <1>2, <2>2
<1> QED
  BY <1>3, <1>4

LEMMA LastCompactionIs ==
  ASSUME NEW S, NEW t \in Seq(S)
  PROVE  /\ LastCompaction(t) \in 0..Len(t)
         /\ LastCompaction(t) # 0 => t[LastCompaction(t)].type = "compaction"
         /\ \A j \in 1..Len(t) : t[j].type = "compaction" => j <= LastCompaction(t)
<1>1. PICK P, n, c : /\ P = {i \in DOMAIN t : t[i].type = "compaction"} /\ n = Len(t)
                     /\ c = LastCompaction(t)
  OBVIOUS
<1>2. n \in Nat /\ P \in SUBSET (1..n) /\ DOMAIN t = 1..n
  BY <1>1
<1>3. c = IF P = {} THEN 0 ELSE CHOOSE i \in P : \A j \in P : j <= i
  BY <1>1 DEF LastCompaction
<1>4. CASE P = {}
  <2>1. c = 0 /\ \A j \in 1..n : t[j].type # "compaction"
    BY <1>1, <1>2, <1>3, <1>4
  <2> QED BY <1>1, <1>2, <2>1
<1>5. CASE P # {}
  <2>1. \E i \in P : \A j \in P : j <= i
    BY <1>2, <1>5, GreatestExists
  <2>2. c \in P /\ \A j \in P : j <= c
    BY <1>3, <1>5, <2>1
  <2>3. c \in 0..n /\ t[c].type = "compaction"
    BY <1>1, <1>2, <2>2
  <2>4. \A j \in 1..n : t[j].type = "compaction" => j <= c
    BY <1>1, <1>2, <2>2
  <2> QED BY <1>1, <2>3, <2>4
<1> QED
  BY <1>4, <1>5

LEMMA KeepFromIsDrawn ==
  ASSUME SessionsInv
  PROVE  KeepFrom \subseteq 1..drawn
<1>1. drawn \in Nat /\ Tree(fileEntries, drawn)
  BY EntriesAreDrawn
<1>2. PICK t : t = PathTo(fileEntries, leafId)
  OBVIOUS
<1>3. Tree(t, drawn)
  BY <1>1, <1>2, PathIsTree
<1>4. t \in Seq(Items) /\ Len(t) \in Nat
  BY <1>3 DEF Tree
<1>5. PICK c : c = LastCompaction(t)
  OBVIOUS
<1>6. PICK kept : kept = IF c = 0 THEN 1 ELSE Position(t, t[c].ref)
  OBVIOUS
<1>7. PICK start : start = IF kept = 0 THEN c + 1 ELSE kept
  OBVIOUS
<1>8. c \in Nat
  BY <1>4, <1>5, LastCompactionIs
<1>9. kept \in Nat
  <2>1. Position(t, t[c].ref) \in Nat
    BY <1>3, PositionIs
  <2> QED BY <1>6, <2>1
<1>10. start \in Nat \ {0}
  BY <1>7, <1>8, <1>9
<1>11. KeepFrom \subseteq {t[i].id : i \in start..Len(t)}
  BY <1>2, <1>5, <1>6, <1>7 DEF KeepFrom
<1>12. ASSUME NEW i \in start..Len(t) PROVE t[i].id \in 1..drawn
  <2>1. i \in 1..Len(t) /\ i \in DOMAIN t
    BY <1>4, <1>10
  <2>2. t[i].id \in IdsOf(t)
    BY <2>1 DEF IdsOf
  <2> QED BY <1>1, <1>3, <2>2, IdsAreDrawn
<1> QED
  BY <1>11, <1>12

-----------------------------------------------------------------------------
(* The steps *)

LEMMA AppendEntryIsOK ==
  ASSUME SessionsInv, AppendEntry
  PROVE  SessionsInv'
<1>1. PICK type \in Plain : Appending(NewEntry(type, leafId, Null, FALSE))
  BY DEF AppendEntry
<1>2. type \in Kinds /\ Null \in Nat /\ leafId \in 0..drawn /\ type # "compaction"
  BY SessionManagerBounds, EntriesAreDrawn DEF Kinds, Null
<1> QED
  BY <1>1, <1>2, AppendingIsOK

LEMMA AppendCompactionIsOK ==
  ASSUME SessionsInv, AppendCompaction
  PROVE  SessionsInv'
<1>1. PICK ref \in KeepFrom : Appending(NewEntry("compaction", leafId, ref, FALSE))
  BY DEF AppendCompaction
<1>2. "compaction" \in Kinds /\ ref \in Nat /\ ref <= drawn /\ leafId \in 0..drawn
  BY EntriesAreDrawn, KeepFromIsDrawn DEF Kinds
<1> QED
  BY <1>1, <1>2, AppendingIsOK

LEMMA AppendLabelChangeIsOK ==
  ASSUME SessionsInv, AppendLabelChange
  PROVE  SessionsInv'
<1>1. PICK target \in IdsOf(fileEntries), set \in BOOLEAN :
        Appending(NewEntry("label", leafId, target, set))
  BY DEF AppendLabelChange
<1>2. "label" \in Kinds /\ target \in Nat /\ leafId \in 0..drawn
  BY EntriesAreDrawn DEF Kinds
<1> QED
  BY <1>1, <1>2, AppendingIsOK

LEMMA BranchWithSummaryIsOK ==
  ASSUME SessionsInv, BranchWithSummary
  PROVE  SessionsInv'
<1>1. PICK id \in IdsOf(fileEntries) \union {Null} :
        Appending(NewEntry("branch_summary", id, Null, FALSE))
  BY DEF BranchWithSummary
<1>2. "branch_summary" \in Kinds /\ id \in 0..drawn /\ Null \in Nat
  BY EntriesAreDrawn DEF Kinds, Null
<1> QED
  BY <1>1, <1>2, AppendingIsOK

LEMMA SameDisk ==
  ASSUME Disk, disk' = disk, UNCHANGED damage, acked' = acked,
         drawn' = drawn, named' \in named..MaxFiles
  PROVE  Disk'
<1>1. tears' = tears /\ beheaded' = beheaded /\ faults' = faults
  BY DEF damage
<1>2. faults' \in Nat /\ drawn' \in Nat /\ drawn <= drawn'
  BY <1>1 DEF Disk, Tables
<1> QED
  BY <1>1, <1>2, DiskStays

LEMMA BranchIsOK ==
  ASSUME SessionsInv, Branch
  PROVE  SessionsInv'
<1>1. /\ open' = open /\ sessionFile' = sessionFile /\ fileEntries' = fileEntries
      /\ labels' = labels /\ flushed' = flushed /\ disk' = disk /\ drawn' = drawn
      /\ named' = named /\ acked' = acked /\ tears' = tears /\ beheaded' = beheaded
      /\ diverged' = diverged /\ faults' = faults
      /\ leafId' \in IdsOf(fileEntries) \union {Null}
  BY DEF Branch, history
<1>2. Disk'
  <2>1. Disk /\ named' \in named..MaxFiles
    BY <1>1, SessionManagerBounds DEF SessionsInv, Disk, Names
  <2> QED BY <1>1, <2>1, SameDisk DEF damage
<1>3. leafId' \in 0..drawn
  BY <1>1, EntriesAreDrawn DEF Null
<1>4. Memory'
  BY <1>1, <1>3 DEF SessionsInv, Mind, Memory
<1>5. FreshFile' /\ ReopenAgrees' /\ LabelsAgree'
  BY <1>1 DEF SessionsInv, Mind, FreshFile, ReopenAgrees, LabelsAgree
<1> QED
  BY <1>2, <1>4, <1>5 DEF SessionsInv, Mind

\* What the files are before a session is opened.
LEMMA FilesAre ==
  ASSUME SessionsInv, NEW f \in 1..named
  PROVE  /\ f \in 1..MaxFiles /\ Disk /\ Mind /\ drawn \in Nat /\ named \in 1..MaxFiles
         /\ FileOK(disk[f], acked[f], tears[f], f \in beheaded, drawn)
<1>1. Disk /\ Mind /\ named \in 1..MaxFiles /\ drawn \in Nat
  BY DEF SessionsInv, Disk, Names, Tables
<1>2. f \in 1..MaxFiles
  BY <1>1, SessionManagerBounds
<1> QED
  BY <1>1, <1>2, FileIs

LEMMA NewSessionIsOK ==
  ASSUME SessionsInv, NewSession
  PROVE  SessionsInv'
<1>1. /\ named < MaxFiles /\ named' = named + 1 /\ disk' = disk /\ drawn' = drawn
      /\ acked' = acked /\ UNCHANGED damage /\ Serving(named + 1, <<>>, FALSE)
  BY DEF NewSession
<1>2. Disk /\ named \in 1..MaxFiles /\ drawn \in Nat
  BY DEF SessionsInv, Disk, Names, Tables
<1>3. named + 1 \in 1..MaxFiles /\ named' \in named..MaxFiles
  BY <1>1, <1>2, SessionManagerBounds
<1>4. Disk'
  BY <1>1, <1>2, <1>3, SameDisk
<1>5. ~disk[named + 1].there
  BY <1>1, <1>2, <1>3, SessionManagerBounds DEF Disk, Names
<1>6. Mind'
  <2>1. PICK f, s : f = named + 1 /\ s = <<>>
    OBVIOUS
  <2>2. Serving(f, s, FALSE) /\ f \in 1..named' /\ drawn' \in Nat /\ ~disk'[f].there
    <3>1. named' = f /\ f \in 1..f
      BY <1>1, <1>2, <2>1
    <3> QED BY <1>1, <1>2, <1>5, <2>1, <3>1
  <2>3. ~Old(disk'[f])
    BY <2>2 DEF Old
  <2>4. Tree(s, drawn')
    BY <1>1, <1>2, <2>1, NoneIsTree
  <2> QED BY <2>2, <2>3, <2>4, Serves
<1> QED
  BY <1>4, <1>6 DEF SessionsInv

LEMMA OpenAbsentIsOK ==
  ASSUME SessionsInv, NEW f \in 1..named, OpenAbsent(f)
  PROVE  SessionsInv'
<1>1. /\ named' = named /\ disk' = disk /\ drawn' = drawn
      /\ acked' = acked /\ UNCHANGED damage /\ Serving(f, <<>>, FALSE) /\ ~disk[f].there
  BY DEF OpenAbsent
<1>2. Disk /\ named \in 1..MaxFiles /\ drawn \in Nat
  BY FilesAre
<1>3. Disk'
  <2>1. named' \in named..MaxFiles
    BY <1>1, <1>2, SessionManagerBounds
  <2> QED BY <1>1, <1>2, <2>1, SameDisk
<1>4. Mind'
  <2>1. PICK s : s = <<>>
    OBVIOUS
  <2>2. Serving(f, s, FALSE) /\ f \in 1..named' /\ drawn' \in Nat /\ ~disk'[f].there
    BY <1>1, <1>2, <2>1
  <2>3. ~Old(disk'[f])
    BY <2>2 DEF Old
  <2>4. Tree(s, drawn')
    BY <1>1, <1>2, <2>1, NoneIsTree
  <2> QED BY <2>2, <2>3, <2>4, Serves
<1> QED
  BY <1>3, <1>4 DEF SessionsInv

LEMMA WrittenOpenIsOK ==
  ASSUME SessionsInv, NEW f, Room(f), NEW s, Tree(s, drawn'), NEW C, Rewritten(f, s, C),
         Serving(f, s, TRUE)
  PROVE  SessionsInv'
<1>1. Disk
  BY DEF SessionsInv
<1>2. /\ Disk' /\ ~Old(disk'[f]) /\ Held(disk'[f])
      /\ Loaded(disk'[f]) = <<Header>> \o s
  BY <1>1, FileRewritten
<1>3. f \in 1..named' /\ drawn' \in Nat
  BY <1>1, SessionManagerBounds DEF Room, Disk, Names
<1>4. Mind'
  <2>1. PICK saved \in BOOLEAN : saved = TRUE
    OBVIOUS
  <2>2. Serving(f, s, saved)
    BY <2>1
  <2> QED BY <1>2, <1>3, <2>1, <2>2, Serves
<1> QED
  BY <1>2, <1>4 DEF SessionsInv

LEMMA BrokenOpenIsOK ==
  ASSUME SessionsInv, NEW f, Room(f), NEW s, Tree(s, drawn'), Spoilt(f, s),
         ThrownOrEnded, open /\ flushed /\ sessionFile = f => f \in beheaded
  PROVE  SessionsInv'
<1>1. Disk /\ Mind /\ drawn \in Nat /\ drawn' \in Nat /\ drawn <= drawn'
  BY DEF SessionsInv, Disk, Tables, Room
<1>2. named \in Nat /\ named' \in Nat /\ named <= named'
  BY <1>1, SessionManagerBounds DEF Disk, Names, Room
<1>3. /\ Disk' /\ ~Old(disk'[f])
      /\ f \in beheaded => f \in beheaded' /\ tears'[f] > 0
      /\ \A x \in 1..MaxFiles : x # f =>
           /\ disk'[x] = disk[x] /\ tears'[x] = tears[x]
           /\ x \in beheaded' <=> x \in beheaded
      /\ faults' \in Nat /\ faults' > 0
  BY <1>1, FileBroken
<1>4. CASE Forgotten
  BY <1>1, <1>3, <1>4, Ends DEF SessionsInv
<1>5. CASE UNCHANGED <<memory, diverged>>
  <2>1. UNCHANGED memory /\ diverged' = diverged
    BY <1>5
  <2>2. ASSUME open
        PROVE  /\ ~Old(disk'[sessionFile])
               /\ flushed => \/ sessionFile \in beheaded' /\ tears'[sessionFile] # 0
                             \/ /\ disk'[sessionFile] = disk[sessionFile]
                                /\ tears'[sessionFile] = tears[sessionFile]
                                /\ sessionFile \in beheaded' <=> sessionFile \in beheaded
               /\ ~flushed /\ disk'[sessionFile].there => diverged \/ faults' > 0
    <3>1. sessionFile \in 1..MaxFiles /\ ~Old(disk[sessionFile])
      BY <1>1, <2>2, SessionManagerBounds DEF Mind, Memory, Disk, Names
    <3>2. CASE sessionFile = f
      <4>1. f \in beheaded' /\ tears'[f] > 0 => tears'[f] # 0
        <5>1. tears'[f] \in Nat
          BY <1>3, <3>1, <3>2 DEF Disk, Tables
        <5> QED BY <5>1
      <4> QED BY <1>3, <2>2, <3>2, <4>1
    <3>3. CASE sessionFile # f
      BY <1>3, <3>1, <3>3
    <3> QED BY <3>2, <3>3
  <2>3. Mind'
    BY <1>1, <1>2, <2>1, <2>2, Keeps
  <2> QED BY <1>3, <2>3 DEF SessionsInv
<1> QED
  BY <1>4, <1>5 DEF ThrownOrEnded

LEMMA InvalidIsBlank ==
  ASSUME SessionsInv, NEW f \in 1..named, Loaded(disk[f]) = <<>>
  PROVE  /\ Blank(f) /\ ~Headed(disk[f].lines)
         /\ open /\ flushed /\ sessionFile = f => f \in beheaded
<1>1. PICK g, A : g = disk[f] /\ A = acked[f]
  OBVIOUS
<1>2. /\ Old(g) \/ Clean(g.lines, drawn)
      /\ drawn \in Nat /\ A \in SUBSET Items /\ Mind
  BY <1>1, FilesAre DEF FileOK
<1>3. ~Old(g)
  BY <1>1, LoadedOfOld
<1>4. ~Headed(g.lines)
  BY <1>1, <1>2, <1>3, LoadedIsTree
<1>5. Lost(g, A) = A
  BY <1>2, <1>3, <1>4, LostIs
<1>6. open /\ flushed /\ sessionFile = f => f \in beheaded
  BY <1>1, <1>2, <1>4 DEF Mind, Memory, Held
<1> QED
  BY <1>1, <1>4, <1>5, <1>6 DEF Blank

LEMMA HeaderAlone ==
  <<Header>> \o <<>> = <<Header>> /\ Len(<<>>) = 0
<1>1. PICK S : S = {Header}
  OBVIOUS
<1>2. <<Header>> \in Seq(S)
  BY <1>1
<1> QED
  BY <1>2

LEMMA OpenInvalidIsOK ==
  ASSUME SessionsInv, NEW f \in 1..named, OpenInvalid(f)
  PROVE  SessionsInv'
<1>1. PICK s : s = <<>>
  OBVIOUS
<1>2. /\ Loaded(disk[f]) = <<>> /\ drawn' = drawn /\ named' = named /\ acked' = acked
      /\ \/ Written(f, Empty, <<Header>>) /\ Serving(f, <<>>, TRUE)
         \/ Broken(f, Empty, <<Header>>) /\ ThrownOrEnded
  BY DEF OpenInvalid
<1>3. <<Header>> = <<Header>> \o s /\ Len(s) = 0
  BY <1>1, HeaderAlone
<1>4. /\ Disk /\ drawn \in Nat /\ f \in 1..MaxFiles /\ named \in 1..MaxFiles
  BY FilesAre
<1>5. /\ Blank(f)
      /\ open /\ flushed /\ sessionFile = f => f \in beheaded
  BY <1>2, InvalidIsBlank
<1>6. Room(f)
  BY <1>2, <1>4, SessionManagerBounds DEF Room
<1>7. Tree(s, drawn')
  BY <1>1, <1>2, <1>4, NoneIsTree
<1>8. CASE Written(f, Empty, <<Header>>) /\ Serving(f, <<>>, TRUE)
  <2>1. acked' = [acked EXCEPT ![f] = acked[f]]
    BY <1>2, <1>4 DEF Disk, Tables
  <2>2. Rewritten(f, s, acked[f])
    BY <1>3, <1>5, <1>8, <2>1 DEF Rewritten
  <2>3. Serving(f, s, TRUE)
    BY <1>1, <1>8
  <2> QED BY <1>6, <1>7, <2>2, <2>3, WrittenOpenIsOK
<1>9. CASE Broken(f, Empty, <<Header>>) /\ ThrownOrEnded
  <2>1. Spoilt(f, s)
    BY <1>2, <1>3, <1>5, <1>9 DEF Spoilt
  <2> QED BY <1>5, <1>6, <1>7, <1>9, <2>1, BrokenOpenIsOK
<1> QED
  BY <1>2, <1>8, <1>9

LEMMA ReadOldIsOld ==
  ASSUME SessionsInv, NEW f \in 1..named, Loaded(disk[f]) # <<>>,
         Loaded(disk[f])[1] = OldHeader
  PROVE  Old(disk[f])
<1>1. drawn \in Nat /\ FileOK(disk[f], acked[f], tears[f], f \in beheaded, drawn)
  BY FilesAre
<1>2. PICK g : g = disk[f]
  OBVIOUS
<1>3. CASE Clean(g.lines, drawn) /\ Headed(g.lines)
  BY <1>1, <1>2, <1>3, LoadedOfHeaded, Markers
<1>4. CASE Clean(g.lines, drawn) /\ ~Headed(g.lines)
  BY <1>1, <1>2, <1>4, LoadedOfHeadless
<1> QED
  BY <1>1, <1>2, <1>3, <1>4 DEF FileOK

LEMMA OpenOldIsOK ==
  ASSUME SessionsInv, NEW f \in 1..named, OpenOld(f)
  PROVE  SessionsInv'
<1>1. PICK read, s : read = Loaded(disk[f]) /\ s = Migrated(Tail(read))
  OBVIOUS
<1>2. /\ read # <<>> /\ read[1] = OldHeader
      /\ drawn' = drawn + Len(s) /\ named' = named /\ acked' = acked
      /\ \/ Written(f, Empty, <<Header>> \o s) /\ Serving(f, s, TRUE)
         \/ Broken(f, Empty, <<Header>> \o s) /\ ThrownOrEnded
  BY <1>1 DEF OpenOld
<1>3. /\ Disk /\ Mind /\ drawn \in Nat /\ f \in 1..MaxFiles /\ named \in 1..MaxFiles
      /\ FileOK(disk[f], acked[f], tears[f], f \in beheaded, drawn)
  BY FilesAre
<1>4. Old(disk[f])
  BY <1>1, <1>2, ReadOldIsOld
<1>5. Len(s) \in Nat /\ Tree(s, drawn + Len(s)) /\ \A i \in 1..Len(s) : s[i].id = drawn + i
  <2>1. PICK g : g = disk[f]
    OBVIOUS
  <2>2. PICK old : old = Tail(Loaded(g))
    OBVIOUS
  <2>3. OldRead(g, old, s)
    BY <1>1, <1>4, <2>1, <2>2 DEF OldRead
  <2> QED BY <1>3, <2>3, MigratedIsTree
<1>6. Tree(s, drawn')
  BY <1>2, <1>5
<1>7. Room(f)
  BY <1>2, <1>3, <1>5, SessionManagerBounds DEF Room
<1>8. Blank(f)
  <2>1. acked[f] \in SUBSET Items
    BY <1>3, FileIs
  <2> QED BY <1>4, <2>1, LostOfOld DEF Blank
<1>9. CASE Written(f, Empty, <<Header>> \o s) /\ Serving(f, s, TRUE)
  <2>1. acked' = [acked EXCEPT ![f] = acked[f]]
    BY <1>2, <1>3 DEF Disk, Tables
  <2>2. Rewritten(f, s, acked[f])
    BY <1>8, <1>9, <2>1 DEF Rewritten
  <2> QED BY <1>6, <1>7, <1>9, <2>2, WrittenOpenIsOK
<1>10. CASE Broken(f, Empty, <<Header>> \o s) /\ ThrownOrEnded
  <2>1. ASSUME NEW i \in 1..Len(s) PROVE s[i] \notin acked[f]
    <3>1. s[i].id = drawn + i /\ i >= 1 /\ i \in Nat
      BY <1>5
    <3>2. \A e \in acked[f] : e.id <= drawn
      BY <1>3 DEF FileOK
    <3>3. ~(drawn + i <= drawn)
      BY <1>3, <3>1
    <3> QED BY <3>1, <3>2, <3>3
  <2>2. Spoilt(f, s)
    BY <1>2, <1>8, <1>10, <2>1 DEF Spoilt
  <2>3. open /\ flushed /\ sessionFile = f => f \in beheaded
    BY <1>3, <1>4 DEF Mind, Memory
  <2> QED BY <1>6, <1>7, <1>10, <2>2, <2>3, BrokenOpenIsOK
<1> QED
  BY <1>2, <1>9, <1>10

\* What is read of a file with a header.
LEMMA ReadIsTree ==
  ASSUME SessionsInv, NEW f \in 1..named, ~Old(disk[f]), Loaded(disk[f]) # <<>>
  PROVE  /\ Tree(Tail(Loaded(disk[f])), drawn)
         /\ Loaded(disk[f]) = <<Header>> \o Tail(Loaded(disk[f]))
         /\ f \in beheaded \/ Held(disk[f])
<1>1. PICK g, h : g = disk[f] /\ h = (f \in beheaded)
  OBVIOUS
<1>2. /\ drawn \in Nat /\ Clean(g.lines, drawn) /\ g \in Records
      /\ g.lines = <<Header>> /\ ~g.whole => f \in beheaded
  BY <1>1, FilesAre DEF FileOK
<1>3. Headed(g.lines)
  BY <1>1, <1>2, LoadedOfHeadless
<1>4. Tree(Tail(Loaded(g)), drawn) /\ Loaded(g) = <<Header>> \o Tail(Loaded(g))
  BY <1>2, <1>3, LoadedIsTree
<1>5. f \in beheaded \/ Held(g)
  <2>1. PICK l : l = g.lines
    OBVIOUS
  <2>2. l \in Seq(Items \union {Torn, Header}) /\ l # <<>> /\ l[1] = Header
    BY <1>2, <1>3, <2>1 DEF Clean, Headed
  <2>3. Len(l) > 1 \/ l = <<Header>>
    <3>1. PICK r : r = <<Header>>
      OBVIOUS
    <3>2. r \in Seq(Items \union {Torn, Header}) /\ Len(r) = 1 /\ r[1] = Header
      BY <3>1
    <3>3. Len(l) \in Nat /\ Len(l) # 0
      BY <2>2
    <3>4. Len(l) = 1 => l = r
      BY <2>2, <3>2
    <3> QED BY <3>1, <3>3, <3>4
  <2> QED BY <1>2, <1>3, <2>1, <2>3 DEF Held
<1> QED
  BY <1>1, <1>4, <1>5

LEMMA OpenCurrentIsOK ==
  ASSUME SessionsInv, NEW f \in 1..named, OpenCurrent(f)
  PROVE  SessionsInv'
<1>1. PICK s : s = Tail(Loaded(disk[f]))
  OBVIOUS
<1>2. /\ Loaded(disk[f]) # <<>> /\ Loaded(disk[f])[1] = Header
      /\ Serving(f, s, TRUE)
      /\ disk' = disk /\ drawn' = drawn /\ named' = named /\ acked' = acked
      /\ UNCHANGED damage
  BY <1>1 DEF OpenCurrent
<1>3. /\ Disk /\ drawn \in Nat /\ f \in 1..MaxFiles /\ named \in 1..MaxFiles
  BY FilesAre
<1>4. ~Old(disk[f])
  BY <1>2, LoadedOfOld, Markers
<1>5. Tree(s, drawn) /\ Loaded(disk[f]) = <<Header>> \o s /\ (f \in beheaded \/ Held(disk[f]))
  BY <1>1, <1>2, <1>4, ReadIsTree
<1>6. Disk'
  <2>1. named' \in named..MaxFiles
    BY <1>2, <1>3, SessionManagerBounds
  <2> QED BY <1>2, <1>3, <2>1, SameDisk
<1>7. Mind'
  <2>1. PICK saved \in BOOLEAN : saved = TRUE
    OBVIOUS
  <2>2. Serving(f, s, saved) /\ beheaded' = beheaded
    BY <1>2, <2>1 DEF damage
  <2> QED BY <1>2, <1>3, <1>4, <1>5, <2>1, <2>2, Serves
<1> QED
  BY <1>6, <1>7 DEF SessionsInv

\* The file of a session that is forked does not exist yet.
LEMMA NewFile ==
  ASSUME SessionsInv, named < MaxFiles, NEW f, f = named + 1
  PROVE  /\ f \in 1..MaxFiles /\ f \in named..MaxFiles /\ (open => f # sessionFile)
         /\ disk[f] = Absent /\ acked[f] = {} /\ Blank(f) /\ ~disk[f].there
<1>1. Disk /\ named \in 1..MaxFiles
  BY DEF SessionsInv, Disk, Names
<1>2. f \in 1..MaxFiles /\ f \in named..MaxFiles /\ f > named
  BY <1>1, SessionManagerBounds
<1>3. ~disk[f].there
  BY <1>1, <1>2 DEF Disk, Names
<1>4. disk[f] = Absent /\ acked[f] = {} /\ Blank(f)
  BY <1>1, <1>2, <1>3, Unwritten
<1>5. open => sessionFile # f
  BY <1>1, <1>2 DEF SessionsInv, Mind, Memory
<1> QED
  BY <1>2, <1>3, <1>4, <1>5

LEMMA ForkedIsOK ==
  ASSUME SessionsInv, NEW id, Forked(id)
  PROVE  SessionsInv'
<1>1. PICK old, f, s : /\ old = Tail(Loaded(disk[sessionFile])) /\ f = named + 1
                       /\ s = Branched(old, id)
  OBVIOUS
<1>2. PICK k : k = Cardinality({i \in DOMAIN s : s[i].id > drawn})
  OBVIOUS
<1>3. /\ open /\ named < MaxFiles /\ named' = f /\ Loaded(disk[sessionFile]) # <<>>
      /\ drawn' = drawn + k
      /\ IF HasAssistant(s)
           THEN \/ /\ Written(f, Absent, <<Header>> \o s) /\ Serving(f, s, TRUE)
                   /\ acked' = [acked EXCEPT ![f] = {s[i] : i \in DOMAIN s}]
                \/ /\ Broken(f, Absent, <<Header>> \o s) /\ ThrownOrEnded
                   /\ acked' = acked
           ELSE /\ Serving(f, s, FALSE) /\ disk' = disk /\ acked' = acked
                /\ UNCHANGED damage
  BY <1>1, <1>2 DEF Forked
<1>4. Disk /\ drawn \in Nat /\ sessionFile \in 1..named /\ ~Old(disk[sessionFile])
  BY <1>3 DEF SessionsInv, Disk, Tables, Mind, Memory
<1>5. Tree(old, drawn)
  BY <1>1, <1>3, <1>4, ReadIsTree
<1>6. k \in Nat /\ Tree(s, drawn + k)
  BY <1>1, <1>2, <1>4, <1>5, BranchedIsTree
<1>7. /\ f \in 1..MaxFiles /\ f \in named..MaxFiles /\ f # sessionFile
      /\ Blank(f) /\ ~disk[f].there /\ acked[f] = {}
  BY <1>1, <1>3, NewFile
<1>8. Tree(s, drawn') /\ drawn' \in Nat /\ drawn <= drawn'
  BY <1>3, <1>4, <1>6
<1>9. Room(f)
  BY <1>3, <1>7, <1>8, SessionManagerBounds DEF Room
<1>10. CASE /\ Written(f, Absent, <<Header>> \o s) /\ Serving(f, s, TRUE)
            /\ acked' = [acked EXCEPT ![f] = {s[i] : i \in DOMAIN s}]
  <2>1. Rewritten(f, s, {s[i] : i \in DOMAIN s})
    BY <1>10 DEF Rewritten
  <2> QED BY <1>8, <1>9, <1>10, <2>1, WrittenOpenIsOK
<1>11. CASE Broken(f, Absent, <<Header>> \o s) /\ ThrownOrEnded /\ acked' = acked
  <2>1. Spoilt(f, s)
    BY <1>7, <1>11 DEF Spoilt
  <2> QED BY <1>7, <1>8, <1>9, <1>11, <2>1, BrokenOpenIsOK
<1>12. CASE /\ Serving(f, s, FALSE) /\ disk' = disk /\ acked' = acked
            /\ UNCHANGED damage
  <2>1. tears' = tears /\ beheaded' = beheaded /\ faults' = faults
    BY <1>12 DEF damage
  <2>2. Disk'
    <3>1. faults' \in Nat /\ named' \in named..MaxFiles
      BY <1>3, <1>4, <1>7, <2>1 DEF Disk, Tables
    <3> QED BY <1>4, <1>8, <1>12, <2>1, <3>1, DiskStays
  <2>3. Mind'
    <3>1. PICK saved \in BOOLEAN : saved = FALSE
      OBVIOUS
    <3>2. Serving(f, s, saved) /\ ~disk'[f].there
      BY <1>7, <1>12, <3>1
    <3>3. ~Old(disk'[f])
      BY <3>2 DEF Old
    <3>4. f \in 1..named'
      BY <1>3, <1>7, SessionManagerBounds
    <3> QED BY <1>8, <3>1, <3>2, <3>3, <3>4, Serves
  <2> QED BY <2>2, <2>3 DEF SessionsInv
<1> QED
  BY <1>3, <1>10, <1>11, <1>12

LEMMA ForkThrowsIsOK ==
  ASSUME SessionsInv, ForkThrows
  PROVE  SessionsInv'
<1>1. PICK s, f : s = <<>> /\ f = sessionFile
  OBVIOUS
<1>2. /\ open /\ Loaded(disk[f]) = <<>> /\ drawn' = drawn /\ named' = named
      /\ acked' = acked /\ disk[f].there
      /\ \/ Written(f, Empty, <<Header>>) /\ UNCHANGED <<memory, diverged>>
         \/ Broken(f, Empty, <<Header>>) /\ ThrownOrEnded
  BY <1>1 DEF ForkThrows
<1>3. f \in 1..named
  BY <1>1, <1>2 DEF SessionsInv, Mind, Memory
<1>4. /\ Disk /\ Mind /\ drawn \in Nat /\ f \in 1..MaxFiles /\ named \in 1..MaxFiles
      /\ FileOK(disk[f], acked[f], tears[f], f \in beheaded, drawn)
  BY <1>3, FilesAre
<1>5. /\ Blank(f)
      /\ open /\ flushed /\ sessionFile = f => f \in beheaded
  BY <1>2, <1>3, InvalidIsBlank
<1>6. <<Header>> = <<Header>> \o s /\ Len(s) = 0
  BY <1>1, HeaderAlone
<1>7. Room(f) /\ Tree(s, drawn')
  <2>1. Room(f)
    BY <1>2, <1>3, <1>4, SessionManagerBounds DEF Room
  <2> QED BY <1>1, <1>2, <1>4, <2>1, NoneIsTree
<1>8. CASE Written(f, Empty, <<Header>>) /\ UNCHANGED <<memory, diverged>>
  <2>1. acked' = [acked EXCEPT ![f] = acked[f]]
    BY <1>2, <1>4 DEF Disk, Tables
  <2>2. Rewritten(f, s, acked[f])
    BY <1>5, <1>6, <1>8, <2>1 DEF Rewritten
  <2>3. /\ Disk' /\ ~Old(disk'[f]) /\ beheaded' = beheaded
    BY <1>4, <1>7, <2>2, FileRewritten
  <2>4. tears' = tears /\ UNCHANGED memory /\ diverged' = diverged
    BY <1>8 DEF Written, damage
  <2>5. f \in beheaded => tears[f] # 0
    <3>1. f \in beheaded => tears[f] > 0
      BY <1>4 DEF FileOK
    <3>2. tears[f] \in Nat
      BY <1>4, FileIs
    <3> QED BY <3>1, <3>2
  <2>6. ~flushed => diverged \/ faults > 0
    BY <1>1, <1>2, <1>4 DEF Mind, FreshFile
  <2>7. faults' = faults
    BY <1>8 DEF Written, damage
  <2>8. /\ ~Old(disk'[sessionFile])
        /\ flushed => \/ sessionFile \in beheaded' /\ tears'[sessionFile] # 0
                      \/ /\ disk'[sessionFile] = disk[sessionFile]
                         /\ tears'[sessionFile] = tears[sessionFile]
                         /\ sessionFile \in beheaded' <=> sessionFile \in beheaded
        /\ ~flushed /\ disk'[sessionFile].there => diverged \/ faults' > 0
    BY <1>1, <1>2, <1>5, <2>3, <2>4, <2>5, <2>6, <2>7
  <2>9. Mind'
    <3>1. named \in Nat /\ named' \in Nat /\ named <= named' /\ drawn' \in Nat
          /\ drawn <= drawn'
      BY <1>2, <1>4, SessionManagerBounds
    <3> QED BY <1>4, <2>4, <2>8, <3>1, Keeps
  <2> QED BY <2>3, <2>9 DEF SessionsInv
<1>9. CASE Broken(f, Empty, <<Header>>) /\ ThrownOrEnded
  <2>1. Spoilt(f, s)
    BY <1>2, <1>5, <1>6, <1>9 DEF Spoilt
  <2> QED BY <1>5, <1>7, <1>9, <2>1, BrokenOpenIsOK
<1> QED
  BY <1>2, <1>8, <1>9

LEMMA ForkFromIsOK ==
  ASSUME SessionsInv, ForkFrom
  PROVE  SessionsInv'
<1>1. PICK f \in 1..named :
        LET read == Loaded(disk[f])
            new == named + 1
        IN /\ ~open /\ named < MaxFiles /\ named' = new
           /\ read # <<>> /\ read[1] = Header
           /\ \/ Written(new, Absent, read) /\ Serving(new, Tail(read), TRUE)
              \/ Broken(new, Absent, read) /\ Forgotten
           /\ UNCHANGED <<drawn, moves, acked>>
  BY DEF ForkFrom
<1>2. PICK s, new : s = Tail(Loaded(disk[f])) /\ new = named + 1
  OBVIOUS
<1>3. /\ named < MaxFiles /\ named' = new /\ ~open
      /\ Loaded(disk[f]) # <<>> /\ Loaded(disk[f])[1] = Header
      /\ drawn' = drawn /\ acked' = acked
      /\ \/ Written(new, Absent, Loaded(disk[f])) /\ Serving(new, s, TRUE)
         \/ Broken(new, Absent, Loaded(disk[f])) /\ Forgotten
  BY <1>1, <1>2
<1>4. /\ Disk /\ drawn \in Nat /\ f \in 1..MaxFiles /\ named \in 1..MaxFiles
  BY FilesAre
<1>5. ~Old(disk[f])
  BY <1>3, LoadedOfOld, Markers
<1>6. Tree(s, drawn) /\ Loaded(disk[f]) = <<Header>> \o s
  BY <1>2, <1>3, <1>5, ReadIsTree
<1>7. /\ new \in 1..MaxFiles /\ new \in named..MaxFiles
      /\ Blank(new) /\ acked[new] = {}
  <2>1. named < MaxFiles /\ new = named + 1
    BY <1>2, <1>3
  <2> QED BY <2>1, NewFile
<1>8. Room(new) /\ Tree(s, drawn')
  BY <1>3, <1>4, <1>6, <1>7, SessionManagerBounds DEF Room
<1>9. CASE Written(new, Absent, Loaded(disk[f])) /\ Serving(new, s, TRUE)
  <2>1. acked' = [acked EXCEPT ![new] = acked[new]]
    BY <1>3, <1>4 DEF Disk, Tables
  <2>2. Rewritten(new, s, acked[new])
    BY <1>6, <1>7, <1>9, <2>1 DEF Rewritten
  <2> QED BY <1>8, <1>9, <2>2, WrittenOpenIsOK
<1>10. CASE Broken(new, Absent, Loaded(disk[f])) /\ Forgotten
  <2>1. Spoilt(new, s)
    BY <1>3, <1>6, <1>7, <1>10 DEF Spoilt
  <2>2. ThrownOrEnded
    BY <1>10 DEF ThrownOrEnded
  <2> QED BY <1>3, <1>8, <2>1, <2>2, BrokenOpenIsOK
<1> QED
  BY <1>3, <1>9, <1>10

LEMMA EndProcessIsOK ==
  ASSUME SessionsInv, EndProcess
  PROVE  SessionsInv'
<1>1. /\ Forgotten /\ disk' = disk /\ drawn' = drawn /\ named' = named /\ acked' = acked
      /\ UNCHANGED damage
  BY DEF EndProcess
<1>2. Disk /\ named \in 1..MaxFiles /\ drawn \in Nat
  BY DEF SessionsInv, Disk, Names, Tables
<1>3. Disk'
  <2>1. named' \in named..MaxFiles
    BY <1>1, <1>2, SessionManagerBounds
  <2> QED BY <1>1, <1>2, <2>1, SameDisk
<1>4. Mind'
  BY <1>1, <1>2, Ends
<1> QED
  BY <1>3, <1>4 DEF SessionsInv

LEMMA SessionsStay ==
  ASSUME SessionsInv, UNCHANGED sessionsVars
  PROVE  SessionsInv'
<1>1. /\ open' = open /\ sessionFile' = sessionFile /\ fileEntries' = fileEntries
      /\ leafId' = leafId /\ labels' = labels /\ flushed' = flushed /\ disk' = disk
      /\ drawn' = drawn /\ named' = named /\ acked' = acked /\ tears' = tears
      /\ beheaded' = beheaded /\ diverged' = diverged /\ faults' = faults
  BY DEF sessionsVars, memory, history
<1>2. Disk'
  BY <1>1 DEF SessionsInv, Disk, Tables, FilesOK, Names
<1>3. Mind'
  BY <1>1 DEF SessionsInv, Mind, Memory, FreshFile, ReopenAgrees, LabelsAgree
<1> QED
  BY <1>2, <1>3 DEF SessionsInv

LEMMA SessionsStep ==
  ASSUME SessionsInv, [SessionsNext]_sessionsVars
  PROVE  SessionsInv'
<1>1. CASE AppendEntry
  BY <1>1, AppendEntryIsOK
<1>2. CASE AppendCompaction
  BY <1>2, AppendCompactionIsOK
<1>3. CASE AppendLabelChange
  BY <1>3, AppendLabelChangeIsOK
<1>4. CASE BranchWithSummary
  BY <1>4, BranchWithSummaryIsOK
<1>5. CASE Branch
  BY <1>5, BranchIsOK
<1>6. CASE NewSession
  BY <1>6, NewSessionIsOK
<1>7. CASE OpenSession
  <2>1. PICK f \in 1..named : OpenAbsent(f) \/ OpenInvalid(f) \/ OpenOld(f) \/ OpenCurrent(f)
    BY <1>7 DEF OpenSession
  <2> QED
    BY <2>1, OpenAbsentIsOK, OpenInvalidIsOK, OpenOldIsOK, OpenCurrentIsOK
<1>8. CASE Fork
  BY <1>8, ForkedIsOK DEF Fork
<1>9. CASE ForkThrows
  BY <1>9, ForkThrowsIsOK
<1>10. CASE ForkFrom
  BY <1>10, ForkFromIsOK
<1>11. CASE EndProcess
  BY <1>11, EndProcessIsOK
<1>12. CASE UNCHANGED sessionsVars
  BY <1>12, SessionsStay
<1> QED
  BY <1>1, <1>2, <1>3, <1>4, <1>5, <1>6, <1>7, <1>8, <1>9, <1>10, <1>11, <1>12
     DEF SessionsNext

LEMMA AbsentIsOK ==
  ASSUME NEW n \in Nat
  PROVE  FileOK(Absent, {}, 0, FALSE, n) /\ Absent \in Records
<1>1. PICK g, l : g = Absent /\ l = g.lines
  OBVIOUS
<1>2. /\ g.there = FALSE /\ g.whole = TRUE /\ l = <<>> /\ g \in Records
  <2>1. <<>> \in Seq(Lines)
    OBVIOUS
  <2>2. [there |-> FALSE, lines |-> <<>>, whole |-> TRUE] \in Records
    BY <2>1, RecordIs
  <2> QED BY <1>1, <2>2 DEF Absent
<1>3. l \in Seq(Items \union {Torn, Header}) /\ Len(l) = 0
  BY <1>2
<1>4. Clean(l, n) /\ ~Torso(l)
  BY <1>3 DEF Clean, Torso
<1>5. PICK A : A = {}
  OBVIOUS
<1>6. IsFiniteSet(A) /\ Lost(g, A) = {} /\ Cardinality({}) = 0 /\ A \subseteq Items
  BY <1>5, FS_EmptySet DEF Lost
<1>7. FileOK(g, A, 0, FALSE, n)
  <2>1. Cardinality(Lost(g, A)) + (IF g.whole THEN 0 ELSE 1) <= 0
    BY <1>2, <1>6
  <2>2. \A e \in A : e.id <= n
    BY <1>5
  <2>3. g.whole /\ ~g.there /\ Clean(g.lines, n) /\ ~Torso(g.lines) /\ g \in Records
    BY <1>1, <1>2, <1>4
  <2>4. A \subseteq Items /\ IsFiniteSet(A) /\ g = Absent /\ A = {} /\ 0 \in Nat
    BY <1>1, <1>5, <1>6
  <2> QED BY <2>1, <2>2, <2>3, <2>4 DEF FileOK
<1> QED
  BY <1>1, <1>2, <1>5, <1>7

LEMMA OldFileIsOK ==
  ASSUME NEW n \in OldLengths
  PROVE  FileOK(OldFile(n), {}, 0, FALSE, 0) /\ OldFile(n) \in Records
<1>1. CASE n = 0
  <2>1. OldFile(n) = Absent
    BY <1>1 DEF OldFile
  <2> QED BY <2>1, AbsentIsOK
<1>2. CASE n # 0
  <2> n \in Nat
    BY SessionManagerBounds
  <2>1. PICK g : g = OldFile(n)
    OBVIOUS
  <2>2. PICK s : s = [i \in 1..n |-> OldEntry(i, n)]
    OBVIOUS
  <2>3. PICK l : l = <<OldHeader>> \o s
    OBVIOUS
  <2>4. g = [there |-> TRUE, whole |-> TRUE, lines |-> l]
    BY <1>2, <2>1, <2>2, <2>3 DEF OldFile
  <2>5. ASSUME NEW i \in 1..n PROVE OldEntry(i, n) \in OldItems
    <3>1. PICK type : type = CASE i = n /\ n > 2 -> "compaction" [] i % 2 = 1 -> "user"
                               [] OTHER -> "assistant"
      OBVIOUS
    <3>2. type \in Kinds
      <4>1. CASE i = n /\ n > 2 /\ i % 2 = 1
        BY <3>1, <4>1 DEF Kinds
      <4>2. CASE i = n /\ n > 2 /\ i % 2 # 1
        BY <3>1, <4>2 DEF Kinds
      <4>3. CASE ~(i = n /\ n > 2) /\ i % 2 = 1
        BY <3>1, <4>3 DEF Kinds
      <4>4. CASE ~(i = n /\ n > 2) /\ i % 2 # 1
        BY <3>1, <4>4 DEF Kinds
      <4> QED BY <4>1, <4>2, <4>3, <4>4
    <3>3. PICK ref : ref = IF i = n /\ n > 2 THEN 2 ELSE Null
      OBVIOUS
    <3>4. ref \in Nat
      BY <3>3 DEF Null
    <3>5. OldEntry(i, n) = Entry(Null, type, Null, ref, FALSE)
      BY <3>1, <3>3 DEF OldEntry
    <3> QED BY <3>2, <3>4, <3>5 DEF Entry, OldItems, Null
  <2>6. /\ s \in Seq(OldItems) /\ Len(s) = n
        /\ \A i \in 1..n : s[i] \in OldItems
    BY <2>2, <2>5
  <2>7. /\ l \in Seq(OldItems \union {OldHeader}) /\ l # <<>> /\ l[1] = OldHeader
        /\ Len(l) = n + 1 /\ \A i \in 2..Len(l) : l[i] \in OldItems
    <3>1. s \in Seq(OldItems \union {OldHeader})
          /\ <<OldHeader>> \in Seq(OldItems \union {OldHeader})
      BY <2>6
    <3>2. /\ l \in Seq(OldItems \union {OldHeader}) /\ Len(l) = n + 1 /\ l[1] = OldHeader
          /\ \A i \in 2..(n + 1) : l[i] = s[i - 1] /\ i - 1 \in 1..n
      BY <2>3, <2>6, <3>1
    <3> QED BY <2>6, <3>2
  <2>8. g.there = TRUE /\ g.whole = TRUE /\ g.lines = l
    BY <2>4
  <2>9. g \in Records
    <3>1. l \in Seq(Lines)
      BY <2>7 DEF Lines
    <3> QED BY <2>4, <3>1, RecordIs
  <2>10. Old(g) /\ ~Torso(l) /\ l # <<Header>>
    <3>1. Old(g)
      BY <1>2, <2>1, <2>7, <2>8 DEF Old
    <3>2. \A i \in 1..Len(l) : l[i] # Torn
      BY <2>7, ItemsAre, Markers
    <3>3. l # <<Header>>
      BY <2>7, Markers
    <3> QED BY <3>1, <3>2, <3>3 DEF Torso
  <2>11. PICK A : A = {}
    OBVIOUS
  <2>12. IsFiniteSet(A) /\ Lost(g, A) = {} /\ Cardinality({}) = 0 /\ A \subseteq Items
    BY <2>11, FS_EmptySet DEF Lost
  <2>13. FileOK(g, A, 0, FALSE, 0)
    <3>1. Cardinality(Lost(g, A)) + (IF g.whole THEN 0 ELSE 1) <= 0
      BY <2>8, <2>12
    <3>2. \A e \in A : e.id <= 0
      BY <2>11
    <3>3. g.whole /\ g.there /\ Old(g) /\ ~Torso(g.lines) /\ g \in Records
      BY <2>8, <2>9, <2>10
    <3>4. A \subseteq Items /\ IsFiniteSet(A) /\ 0 \in Nat
      BY <2>12
    <3> QED BY <3>1, <3>2, <3>3, <3>4 DEF FileOK
  <2> QED BY <2>1, <2>9, <2>11, <2>13
<1> QED
  BY <1>1, <1>2

LEMMA SessionsStart ==
  ASSUME SessionsInit
  PROVE  SessionsInv
<1>1. /\ open = FALSE /\ fileEntries = <<>> /\ leafId = 0 /\ flushed = FALSE
      /\ named = 1 /\ drawn = 0 /\ acked = [f \in 1..MaxFiles |-> {}]
      /\ tears = [f \in 1..MaxFiles |-> 0] /\ beheaded = {} /\ faults = 0
  BY DEF SessionsInit, Null
<1>2. PICK n \in OldLengths :
        disk = [f \in 1..MaxFiles |-> IF f = 1 THEN OldFile(n) ELSE Absent]
  BY DEF SessionsInit
<1>3. n \in Nat
  BY SessionManagerBounds
<1>4. ASSUME NEW f \in 1..MaxFiles
      PROVE  FileOK(disk[f], {}, 0, FALSE, 0) /\ disk[f] \in Records
  <2>1. CASE f = 1
    BY <1>2, <1>3, <2>1, OldFileIsOK
  <2>2. CASE f # 1
    BY <1>2, <2>2, AbsentIsOK
  <2> QED BY <2>1, <2>2
<1>5. Tables
  <2>1. disk \in [1..MaxFiles -> Records]
    BY <1>2, <1>4
  <2> QED BY <1>1, <2>1 DEF Tables
<1>6. FilesOK
  <2>1. ASSUME NEW f \in 1..MaxFiles
        PROVE  FileOK(disk[f], acked[f], tears[f], f \in beheaded, drawn)
    <3>1. acked[f] = {} /\ tears[f] = 0 /\ drawn = 0
      BY <1>1
    <3>2. (f \in beheaded) = FALSE
      BY <1>1
    <3> QED BY <1>4, <3>1, <3>2
  <2> QED BY <2>1 DEF FilesOK
<1>7. Names
  <2>1. named \in 1..MaxFiles
    BY <1>1, SessionManagerBounds
  <2>2. ASSUME NEW f \in 1..MaxFiles, f > named PROVE ~disk[f].there
    <3>1. disk[f] = Absent
      BY <1>1, <1>2, <2>2
    <3> QED BY <3>1 DEF Absent
  <2> QED BY <2>1, <2>2 DEF Names
<1>8. Mind
  <2>1. Tree(fileEntries, drawn)
    BY <1>1, NoneIsTree
  <2>2. Memory
    <3>1. leafId \in 0..drawn
      BY <1>1
    <3>2. open = FALSE /\ flushed = FALSE
      BY <1>1
    <3>3. open \in BOOLEAN /\ flushed \in BOOLEAN /\ ~open
      BY <3>2
    <3> QED BY <2>1, <3>1, <3>3 DEF Memory
  <2> QED BY <1>1, <2>2 DEF Mind, FreshFile, ReopenAgrees, LabelsAgree
<1> QED
  BY <1>5, <1>6, <1>7, <1>8 DEF SessionsInv, Disk

LEMMA HeadersAreOne ==
  ASSUME SessionsInv
  PROVE  OneHeader
<1> SUFFICES ASSUME NEW f \in 1..MaxFiles, NEW read, read = Loaded(disk[f]),
                    NEW i \in DOMAIN read, NEW j \in DOMAIN read
             PROVE  /\ i > 1 => read[i].type \notin {"session", "session_v1"}
                    /\ read[1] = Header /\ read[i].id = read[j].id => i = j
  BY DEF OneHeader
<1>1. PICK g : g = disk[f]
  OBVIOUS
<1>2. (Old(g) \/ Clean(g.lines, drawn)) /\ drawn \in Nat
  BY <1>1, FileIs DEF SessionsInv
<1>3. CASE Old(g)
  <2>1. /\ read \in Seq(OldItems \union {OldHeader}) /\ read[1] = OldHeader
        /\ \A k \in 2..Len(read) : read[k] \in OldItems
    BY <1>1, <1>3, LoadedOfOld
  <2>2. i > 1 => i \in 2..Len(read)
    BY <2>1
  <2> QED BY <2>1, <2>2, ItemsAre, Markers
<1>4. CASE Clean(g.lines, drawn) /\ ~Headed(g.lines)
  <2>1. read = <<>>
    BY <1>1, <1>2, <1>4, LoadedOfHeadless
  <2> QED BY <2>1
<1>5. CASE Clean(g.lines, drawn) /\ Headed(g.lines)
  <2>1. /\ read \in Seq(Items \union {Header})
        /\ \A k, m \in 1..Len(read) : k < m => read[k].id < read[m].id
        /\ \A k \in 2..Len(read) : read[k] \in Items
    <3>1. Loaded(g) \in Seq(Items \union {Header})
      BY <1>2, <1>5, LoadedOfHeaded
    <3>2. /\ \A k, m \in 1..Len(Loaded(g)) : k < m => Loaded(g)[k].id < Loaded(g)[m].id
          /\ \A k \in 2..Len(Loaded(g)) : Loaded(g)[k] \in Items
      BY <1>2, <1>5, LoadedGrows
    <3> QED BY <1>1, <3>1, <3>2
  <2>2. i \in 1..Len(read) /\ j \in 1..Len(read) /\ Len(read) \in Nat
    BY <2>1
  <2>3. i > 1 => i \in 2..Len(read)
    BY <2>2
  <2>4. \A k \in 1..Len(read) : read[k].id \in Nat
    <3>1. \A k \in 1..Len(read) : read[k] \in Items \union {Header}
      BY <2>1
    <3> QED BY <3>1, ItemsAre, Markers
  <2>5. ASSUME read[i].id = read[j].id PROVE i = j
    <3>1. ~(i < j) /\ ~(j < i)
      BY <2>1, <2>2, <2>4, <2>5
    <3> QED BY <2>2, <3>1
  <2> QED BY <2>1, <2>3, <2>5, ItemsAre
<1> QED
  BY <1>2, <1>3, <1>4, <1>5

LEMMA LossesAreFew ==
  ASSUME SessionsInv
  PROVE  LossIsBounded
<1> SUFFICES ASSUME NEW f \in (1..MaxFiles) \ beheaded
             PROVE  Cardinality({e \in acked[f] :
                                   \A i \in DOMAIN Loaded(disk[f]) : Loaded(disk[f])[i] # e})
                      <= tears[f]
  BY DEF LossIsBounded
<1>1. PICK g, A, t : g = disk[f] /\ A = acked[f] /\ t = tears[f]
  OBVIOUS
<1>2. FileOK(g, A, t, FALSE, drawn)
  <2>1. FileOK(disk[f], acked[f], tears[f], f \in beheaded, drawn)
    BY FileIs DEF SessionsInv
  <2>2. (f \in beheaded) = FALSE
    OBVIOUS
  <2> QED BY <1>1, <2>1, <2>2
<1>3. /\ IsFiniteSet(A) /\ t \in Nat
      /\ Cardinality(Lost(g, A)) + (IF g.whole THEN 0 ELSE 1) <= t
  BY <1>2 DEF FileOK
<1>4. Cardinality(Lost(g, A)) \in Nat
  <2>1. Lost(g, A) \subseteq A
    BY DEF Lost
  <2> QED BY <1>3, <2>1, FS_Subset, FS_CardinalityType
<1>5. Cardinality(Lost(g, A)) <= t
  BY <1>3, <1>4
<1> QED
  BY <1>1, <1>5 DEF Lost

\* What the memory and the files hold stays in order, whatever writes fail and
\* wherever the process ends: this is inductive.
LEMMA SessionsStaySound == SessionsSpec => []SessionsInv
<1>1. SessionsInit => SessionsInv
  BY SessionsStart
<1>2. SessionsInv /\ [SessionsNext]_sessionsVars => SessionsInv'
  BY SessionsStep
<1> QED
  BY <1>1, <1>2, PTL DEF SessionsSpec

\* Every file is sound, for any bounds: it has one header and no entry twice, a
\* torn write costs one acknowledged entry at most, the file of a session that
\* was not written yet is not there, and what is opened again is what the memory
\* held (_persist, _rewriteFile, loadEntriesFromFile, createBranchedSession).
THEOREM FilesStaySound == SessionsSpec => []FileIsSound
<1>1. SessionsInv => FileIsSound
  BY HeadersAreOne, LossesAreFew DEF SessionsInv, Mind, FileIsSound
<1> QED
  BY <1>1, SessionsStaySound, PTL

-----------------------------------------------------------------------------
(* What is on a path *)

\* Each entry follows its parent.
Chained(s) == \A i \in 2..Len(s) : s[i].parentId = s[i - 1].id

LEMMA PositionOf ==
  ASSUME NEW n, NEW s, Tree(s, n), NEW i \in 1..Len(s)
  PROVE  Position(s, s[i].id) = i /\ s[i].id \in IdsOf(s)
<1>1. s \in Seq(Items) /\ DOMAIN s = 1..Len(s) /\ Len(s) \in Nat
      /\ \A j, k \in 1..Len(s) : j < k => s[j].id < s[k].id
  BY DEF Tree, Grown
<1>2. PICK id : id = s[i].id
  OBVIOUS
<1>3. id \in IdsOf(s)
  BY <1>1, <1>2 DEF IdsOf
<1>4. PICK p : p = Position(s, id)
  OBVIOUS
<1>5. p \in 1..Len(s) /\ s[p].id = id
  <2>1. \E j \in DOMAIN s : s[j].id = id
    BY <1>1, <1>2
  <2>2. p = CHOOSE j \in DOMAIN s : s[j].id = id
    BY <1>3, <1>4 DEF Position
  <2> QED BY <1>1, <2>1, <2>2
<1>6. \A j \in 1..Len(s) : s[j].id \in Nat
  <2>1. \A j \in 1..Len(s) : s[j] \in Items
    BY <1>1
  <2> QED BY <2>1, ItemsAre
<1>7. ~(p < i) /\ ~(i < p)
  <2>1. s[i].id \in Nat /\ s[p].id = s[i].id
    BY <1>2, <1>5, <1>6
  <2>2. ~(s[p].id < s[i].id) /\ ~(s[i].id < s[p].id)
    BY <2>1
  <2> QED BY <1>1, <1>5, <2>2
<1>8. p = i
  BY <1>5, <1>7
<1> QED
  BY <1>2, <1>3, <1>4, <1>8

LEMMA PositionNone ==
  ASSUME NEW s, NEW id, id \notin IdsOf(s)
  PROVE  Position(s, id) = 0
BY DEF Position

\* The paths to the entries, that of each from that of its parent.
LEMMA PathsAre ==
  ASSUME NEW n, NEW s, Tree(s, n)
  PROVE  \E f : /\ f[0] = <<>> /\ \A id : PathTo(s, id) = f[Position(s, id)]
                /\ \A i \in 1..Len(s) : f[i] = Append(f[Position(s, s[i].parentId)], s[i])
<1> DEFINE by == CHOOSE f : PathBy(f, s, Len(s))
<1>1. \A id : PathTo(s, id) = by[Position(s, id)]
  BY DEF PathTo, PathBy
<1>2. PathBy(by, s, Len(s))
  BY PathExists
<1> HIDE DEF by
<1>3. Len(s) \in Nat
  BY DEF Tree
<1>4. \A i \in 0..Len(s) : by[i] = IF i = 0 THEN <<>>
                                   ELSE Append(by[Position(s, s[i].parentId)], s[i])
  BY <1>2 DEF PathBy
<1>5. 0 \in 0..Len(s) /\ \A i \in 1..Len(s) : i \in 0..Len(s) /\ i # 0
  BY <1>3
<1>6. by[0] = <<>> /\ \A i \in 1..Len(s) : by[i] = Append(by[Position(s, s[i].parentId)], s[i])
  BY <1>4, <1>5
<1> QED
  BY <1>1, <1>6

LEMMA SubMore ==
  ASSUME NEW S, NEW s \in Seq(S), NEW k \in Nat, k + 1 <= Len(s)
  PROVE  Append(SubSeq(s, 1, k), s[k + 1]) = SubSeq(s, 1, k + 1)
<1>1. PICK t : t = SubSeq(s, 1, k)
  OBVIOUS
<1>2. t \in Seq(S) /\ Len(t) = k /\ (\A i \in 1..k : t[i] = s[i]) /\ s[k + 1] \in S
  BY <1>1
<1>3. PICK r : r = SubSeq(s, 1, k + 1)
  OBVIOUS
<1>4. r \in Seq(S) /\ Len(r) = k + 1 /\ (\A i \in 1..(k + 1) : r[i] = s[i])
  BY <1>3
<1>5. PICK q : q = Append(t, s[k + 1])
  OBVIOUS
<1>6. /\ q \in Seq(S) /\ Len(q) = k + 1 /\ q[k + 1] = s[k + 1]
      /\ \A i \in 1..k : q[i] = t[i]
  BY <1>2, <1>5
<1>7. ASSUME NEW i \in 1..(k + 1) PROVE q[i] = r[i]
  <2>1. CASE i = k + 1
    BY <1>4, <1>6, <2>1
  <2>2. CASE i \in 1..k
    BY <1>2, <1>4, <1>6, <2>2
  <2> QED BY <2>1, <2>2
<1>8. q = r
  BY <1>4, <1>6, <1>7
<1> QED
  BY <1>1, <1>3, <1>5, <1>8

\* The path to the end of a chain is the chain.
LEMMA PathOfChain ==
  ASSUME NEW n, NEW s, Tree(s, n), Chained(s), s # <<>>
  PROVE  PathTo(s, LastId(s)) = s
<1>1. PICK l : l = Len(s)
  OBVIOUS
<1>2. s \in Seq(Items) /\ l \in Nat \ {0} /\ SubSeq(s, 1, l) = s
  BY <1>1 DEF Tree
<1>3. PICK f : /\ f[0] = <<>> /\ \A id : PathTo(s, id) = f[Position(s, id)]
               /\ \A i \in 1..l : f[i] = Append(f[Position(s, s[i].parentId)], s[i])
  BY <1>1, PathsAre
<1> DEFINE S == {k \in Nat : k <= l => f[k] = SubSeq(s, 1, k)}
<1>4. 0 \in S
  <2>1. SubSeq(s, 1, 0) = <<>>
    BY <1>2
  <2> QED BY <1>3, <2>1
<1>5. ASSUME NEW k \in S PROVE k + 1 \in S
  <2>1. k \in Nat /\ (k <= l => f[k] = SubSeq(s, 1, k))
    OBVIOUS
  <2> SUFFICES ASSUME k + 1 <= l PROVE f[k + 1] = SubSeq(s, 1, k + 1)
    BY <2>1
  <2>2. k + 1 \in 1..l /\ k <= l
    BY <1>2, <2>1
  <2>3. Position(s, s[k + 1].parentId) = k
    <3>1. CASE k = 0
      <4>1. Position(s, s[k + 1].parentId) \in 0..((k + 1) - 1)
        BY <1>1, <2>2, ParentIsAbove
      <4> QED BY <3>1, <4>1
    <3>2. CASE k # 0
      <4>1. k \in 1..l /\ k + 1 \in 2..l /\ (k + 1) - 1 = k
        BY <1>2, <2>1, <2>2, <3>2
      <4>2. s[k + 1].parentId = s[k].id
        BY <1>1, <4>1 DEF Chained
      <4> QED BY <1>1, <4>1, <4>2, PositionOf
    <3> QED BY <3>1, <3>2
  <2>4. f[k + 1] = Append(f[k], s[k + 1])
    BY <1>3, <2>2, <2>3
  <2>5. Append(SubSeq(s, 1, k), s[k + 1]) = SubSeq(s, 1, k + 1)
    BY <1>1, <1>2, <2>1, SubMore
  <2> QED BY <2>1, <2>2, <2>4, <2>5
<1>6. S \in SUBSET Nat
  OBVIOUS
<1>7. f[l] = s
  <2>1. l \in S
    <3> HIDE DEF S
    <3> QED BY <1>2, <1>4, <1>5, <1>6, CountUp
  <2>2. f[l] = SubSeq(s, 1, l)
    BY <1>2, <2>1
  <2> QED BY <1>2, <2>2
<1>8. Position(s, LastId(s)) = l
  <2>1. LastId(s) = s[l].id /\ l \in 1..Len(s)
    BY <1>1, <1>2 DEF LastId
  <2> QED BY <2>1, PositionOf
<1> QED
  BY <1>3, <1>7, <1>8

\* A path is a chain that ends where it leads to.
LEMMA PathIsChain ==
  ASSUME NEW n \in Nat, NEW s, Tree(s, n), NEW id \in IdsOf(s), NEW t, t = PathTo(s, id)
  PROVE  Chained(t) /\ t # <<>> /\ LastId(t) = id
<1>1. PICK l : l = Len(s)
  OBVIOUS
<1>2. s \in Seq(Items) /\ l \in Nat /\ DOMAIN s = 1..l
  BY <1>1 DEF Tree
<1>3. PICK f : /\ f[0] = <<>> /\ \A x : PathTo(s, x) = f[Position(s, x)]
               /\ \A i \in 1..l : f[i] = Append(f[Position(s, s[i].parentId)], s[i])
  BY <1>1, PathsAre
<1>4. ASSUME NEW i \in 0..l PROVE f[i] \in Seq(Items) /\ Len(f[i]) \in Nat
  <2>1. CASE i = 0
    <3>1. PICK q : q = <<>>
      OBVIOUS
    <3>2. q \in Seq(Items) /\ Len(q) \in Nat /\ f[i] = q
      BY <1>3, <2>1, <3>1
    <3> QED BY <3>2
  <2>2. CASE i # 0
    <3>1. i \in 1..Len(s)
      BY <1>1, <1>2, <2>2
    <3>2. PathTo(s, s[i].id) = f[i]
      BY <1>3, <3>1, PositionOf
    <3>3. Tree(f[i], n)
      BY <3>2, PathIsTree
    <3> QED BY <3>3 DEF Tree
  <2> QED BY <2>1, <2>2
<1>5. ASSUME NEW i \in 1..l
      PROVE  /\ Len(f[i]) \in Nat \ {0} /\ f[i][Len(f[i])] = s[i]
             /\ \E p \in 0..(i - 1) : /\ f[i] = Append(f[p], s[i])
                                      /\ p # 0 => s[p].id = s[i].parentId
  <2>1. PICK p : p = Position(s, s[i].parentId)
    OBVIOUS
  <2>2. p \in 0..(i - 1) /\ (p # 0 => s[p].id = s[i].parentId)
    BY <1>1, <2>1, ParentIsAbove, PositionIs
  <2>3. f[p] \in Seq(Items) /\ s[i] \in Items
    <3>1. p \in 0..l
      BY <1>2, <2>2
    <3> QED BY <1>2, <1>4, <3>1
  <2>4. f[i] = Append(f[p], s[i])
    BY <1>3, <2>1
  <2>5. PICK q : q = f[p]
    OBVIOUS
  <2>6. Len(Append(q, s[i])) = Len(q) + 1 /\ Len(q) \in Nat
        /\ Append(q, s[i])[Len(q) + 1] = s[i]
    BY <2>3, <2>5
  <2> QED BY <2>2, <2>4, <2>5, <2>6
<1> DEFINE S == {k \in Nat : \A i \in 0..k : i <= l => Chained(f[i])}
<1>6. Chained(f[0])
  <2>1. PICK q : q = <<>>
    OBVIOUS
  <2>2. Len(q) = 0 /\ f[0] = q
    BY <1>3, <2>1
  <2> QED BY <2>2 DEF Chained
<1>7. 0 \in S
  BY <1>6
<1>8. ASSUME NEW i \in 1..l, NEW p \in 0..(i - 1), Chained(f[p]),
             f[i] = Append(f[p], s[i]), p # 0 => s[p].id = s[i].parentId
      PROVE  Chained(f[i])
  <2>1. PICK q, m : q = f[p] /\ m = Len(q)
    OBVIOUS
  <2>2. q \in Seq(Items) /\ m \in Nat /\ s[i] \in Items
    <3>1. p \in 0..l
      BY <1>2
    <3> QED BY <1>2, <1>4, <2>1, <3>1
  <2>3. PICK r : r = Append(q, s[i])
    OBVIOUS
  <2>4. Len(r) = m + 1 /\ r[m + 1] = s[i] /\ \A j \in 1..m : r[j] = q[j]
    BY <2>1, <2>2, <2>3
  <2>5. ASSUME NEW j \in 2..(m + 1) PROVE r[j].parentId = r[j - 1].id
    <3>1. CASE j \in 2..m
      <4>1. q[j].parentId = q[j - 1].id
        BY <1>8, <2>1, <3>1 DEF Chained
      <4>2. j \in 1..m /\ j - 1 \in 1..m
        BY <2>2, <3>1
      <4> QED BY <2>4, <4>1, <4>2
    <3>2. CASE j = m + 1
      <4>1. m \in 1..m /\ j - 1 = m /\ m # 0
        BY <2>2, <3>2
      <4>2. p # 0
        <5>1. PICK z : z = <<>>
          OBVIOUS
        <5>2. Len(z) = 0
          BY <5>1
        <5> QED BY <1>3, <2>1, <4>1, <5>1, <5>2
      <4>3. p \in 1..l
        BY <1>2, <4>2
      <4>4. q[m] = s[p]
        BY <1>5, <2>1, <4>3
      <4> QED BY <1>8, <2>4, <3>2, <4>1, <4>2, <4>4
    <3> QED BY <2>2, <3>1, <3>2
  <2>6. Chained(r)
    BY <2>4, <2>5 DEF Chained
  <2> QED BY <1>8, <2>1, <2>3, <2>6
<1>9. ASSUME NEW k \in S PROVE k + 1 \in S
  <2>1. k \in Nat /\ \A i \in 0..k : i <= l => Chained(f[i])
    OBVIOUS
  <2>2. ASSUME NEW i \in 0..(k + 1), i <= l PROVE Chained(f[i])
    <3>1. CASE i \in 0..k
      BY <2>1, <2>2, <3>1
    <3>2. CASE i \notin 0..k
      <4>1. i \in 1..l /\ i = k + 1
        BY <1>2, <2>1, <2>2, <3>2
      <4>2. PICK p \in 0..(i - 1) : /\ f[i] = Append(f[p], s[i])
                                    /\ p # 0 => s[p].id = s[i].parentId
        BY <1>5, <4>1
      <4>3. p \in 0..k /\ p <= l
        BY <1>2, <2>1, <4>1
      <4>4. Chained(f[p])
        BY <2>1, <4>3
      <4> QED BY <1>8, <4>1, <4>2, <4>4
    <3> QED BY <3>1, <3>2
  <2> QED BY <2>1, <2>2
<1>10. S \in SUBSET Nat
  OBVIOUS
<1>11. \A i \in 0..l : Chained(f[i])
  <2>1. l \in S
    <3> HIDE DEF S
    <3> QED BY <1>2, <1>7, <1>9, <1>10, CountUp
  <2> QED BY <1>2, <2>1
<1>12. PICK i \in 1..l : s[i].id = id
  BY <1>2 DEF IdsOf
<1>13. t = f[i]
  BY <1>1, <1>3, <1>12, PositionOf
<1>14. /\ Chained(t) /\ Len(t) \in Nat \ {0} /\ t[Len(t)] = s[i] /\ t \in Seq(Items)
  BY <1>2, <1>4, <1>5, <1>11, <1>13
<1>15. t # <<>>
  BY <1>14
<1> QED
  BY <1>12, <1>14, <1>15 DEF LastId

\* An entry that is appended leaves the other positions as they are.
LEMMA PositionMore ==
  ASSUME NEW n \in Nat, NEW s, Tree(s, n),
         NEW e \in Items, n < e.id, e.parentId < e.id, NEW id, id # e.id
  PROVE  Position(Append(s, e), id) = Position(s, id)
<1>1. PICK l, r : l = Len(s) /\ r = Append(s, e)
  OBVIOUS
<1>2. /\ Tree(r, e.id) /\ Len(r) = l + 1 /\ r[l + 1] = e /\ \A i \in 1..l : r[i] = s[i]
  BY <1>1, TreeMore
<1>3. l \in Nat /\ DOMAIN s = 1..l /\ DOMAIN r = 1..(l + 1)
  BY <1>1, <1>2 DEF Tree
<1>4. CASE id \in IdsOf(s)
  <2>1. PICK i \in 1..l : s[i].id = id
    BY <1>3, <1>4 DEF IdsOf
  <2>2. i \in 1..Len(r) /\ r[i].id = id
    BY <1>2, <1>3, <2>1
  <2>3. Position(r, id) = i
    BY <1>2, <2>2, PositionOf
  <2>4. Position(s, id) = i
    BY <1>1, <2>1, PositionOf
  <2> QED BY <1>1, <2>3, <2>4
<1>5. CASE id \notin IdsOf(s)
  <2>1. id \notin IdsOf(r)
    <3> SUFFICES ASSUME NEW i \in 1..(l + 1), r[i].id = id PROVE FALSE
      BY <1>3 DEF IdsOf
    <3>1. i # l + 1
      BY <1>2
    <3>2. i \in 1..l /\ i \in DOMAIN s
      BY <1>3, <3>1
    <3>3. s[i].id = id
      BY <1>2, <3>2
    <3> QED BY <1>5, <3>2, <3>3 DEF IdsOf
  <2> QED BY <1>1, <1>5, <2>1, PositionNone
<1> QED
  BY <1>4, <1>5

\* The path to an entry that is appended: it comes after its parent's.
LEMMA PathOfMore ==
  ASSUME NEW n \in Nat, NEW s, Tree(s, n),
         NEW e \in Items, n < e.id, e.parentId < e.id
  PROVE  PathTo(Append(s, e), e.id) = Append(PathTo(s, e.parentId), e)
<1>1. PICK l, r : l = Len(s) /\ r = Append(s, e)
  OBVIOUS
<1>2. /\ Tree(r, e.id) /\ Len(r) = l + 1 /\ r[l + 1] = e /\ \A i \in 1..l : r[i] = s[i]
  BY <1>1, TreeMore
<1>3. l \in Nat /\ s \in Seq(Items) /\ l + 1 \in 1..(l + 1)
  BY <1>1 DEF Tree
<1>4. PICK f : /\ f[0] = <<>> /\ \A x : PathTo(s, x) = f[Position(s, x)]
               /\ \A i \in 1..l : f[i] = Append(f[Position(s, s[i].parentId)], s[i])
  BY <1>1, PathsAre
<1>5. PICK g : /\ g[0] = <<>> /\ \A x : PathTo(r, x) = g[Position(r, x)]
               /\ \A i \in 1..(l + 1) : g[i] = Append(g[Position(r, r[i].parentId)], r[i])
  <2>1. PICK k, m : k = l + 1 /\ m = e.id
    OBVIOUS
  <2>2. Tree(r, m) /\ Len(r) = k
    BY <1>2, <2>1
  <2>3. PICK g : /\ g[0] = <<>> /\ \A x : PathTo(r, x) = g[Position(r, x)]
                 /\ \A i \in 1..k : g[i] = Append(g[Position(r, r[i].parentId)], r[i])
    BY <2>2, PathsAre
  <2> QED BY <2>1, <2>3
<1>6. e.id \in Nat /\ e.parentId # e.id
  BY ItemsAre
<1>7. ASSUME NEW i \in 1..l
      PROVE  /\ r[i] = s[i] /\ i \in 1..(l + 1)
             /\ Position(r, s[i].parentId) = Position(s, s[i].parentId)
  <2>1. s[i] \in Items /\ s[i].parentId < s[i].id /\ s[i].id <= n
    BY <1>1, <1>3 DEF Tree, Grown
  <2>2. s[i].parentId # e.id
    BY <1>6, <2>1, ItemsAre
  <2> QED BY <1>1, <1>2, <1>3, <2>2, PositionMore
<1> DEFINE S == {k \in Nat : \A i \in 0..k : i <= l => f[i] = g[i]}
<1>8. 0 \in S
  BY <1>4, <1>5
<1>9. ASSUME NEW k \in S PROVE k + 1 \in S
  <2>1. k \in Nat /\ \A i \in 0..k : i <= l => f[i] = g[i]
    OBVIOUS
  <2>2. ASSUME NEW i \in 0..(k + 1), i <= l PROVE f[i] = g[i]
    <3>1. CASE i \in 0..k
      BY <2>1, <2>2, <3>1
    <3>2. CASE i \notin 0..k
      <4>1. i \in 1..l /\ i = k + 1
        BY <1>3, <2>1, <2>2, <3>2
      <4>2. PICK p : p = Position(s, s[i].parentId)
        OBVIOUS
      <4>3. p \in 0..(i - 1)
        BY <1>1, <4>1, <4>2, ParentIsAbove
      <4>4. p \in 0..k /\ p <= l
        BY <1>3, <2>1, <4>1, <4>3
      <4>5. f[p] = g[p]
        BY <2>1, <4>4
      <4>6. f[i] = Append(f[p], s[i])
        BY <1>4, <4>1, <4>2
      <4>7. g[i] = Append(g[p], s[i])
        BY <1>5, <1>7, <4>1, <4>2
      <4> QED BY <4>5, <4>6, <4>7
    <3> QED BY <3>1, <3>2
  <2> QED BY <2>1, <2>2
<1>10. S \in SUBSET Nat
  OBVIOUS
<1>11. \A i \in 0..l : f[i] = g[i]
  <2>1. l \in S
    <3> HIDE DEF S
    <3> QED BY <1>3, <1>8, <1>9, <1>10, CountUp
  <2> QED BY <1>3, <2>1
<1>12. PICK p : p = Position(s, e.parentId)
  OBVIOUS
<1>13. p \in 0..l /\ Position(r, e.parentId) = p
  <2>1. p \in 0..l
    BY <1>1, <1>12, PositionIs
  <2>2. Position(r, e.parentId) = p
    BY <1>1, <1>6, <1>12, PositionMore
  <2> QED BY <2>1, <2>2
<1>14. g[l + 1] = Append(g[p], e)
  BY <1>2, <1>3, <1>5, <1>13
<1>15. Position(r, e.id) = l + 1
  <2>1. l + 1 \in 1..Len(r) /\ r[l + 1].id = e.id
    BY <1>2, <1>3
  <2> QED BY <1>2, <2>1, PositionOf
<1>16. PathTo(r, e.id) = g[l + 1] /\ PathTo(s, e.parentId) = f[p]
  BY <1>4, <1>5, <1>12, <1>15
<1> QED
  BY <1>1, <1>11, <1>13, <1>14, <1>16

-----------------------------------------------------------------------------
(* What is picked of a sequence that grows *)

LEMMA PickedSame ==
  ASSUME NEW n \in Nat, NEW P \in SUBSET (1..n), NEW s, NEW t, \A i \in P : s[i] = t[i]
  PROVE  Picked(s, P) = Picked(t, P)
<1> DEFINE N == Cardinality(P)
           pos(k) == CHOOSE i \in P : Rank(P, i) = k
<1>1. \A k \in 1..N : pos(k) \in P
  BY RankOnto
<1>2. Picked(s, P) = [k \in 1..N |-> s[pos(k)]]
      /\ Picked(t, P) = [k \in 1..N |-> t[pos(k)]]
  BY DEF Picked, Rank
<1> HIDE DEF N, pos
<1>3. \A k \in 1..N : s[pos(k)] = t[pos(k)]
  BY <1>1
<1> QED
  BY <1>2, <1>3

LEMMA PickedMore ==
  ASSUME NEW S, NEW s \in Seq(S), NEW e \in S, NEW P \in SUBSET (1..Len(s))
  PROVE  /\ Picked(Append(s, e), P) = Picked(s, P)
         /\ Picked(Append(s, e), P \union {Len(s) + 1}) = Append(Picked(s, P), e)
<1>1. PICK n, r, Q : n = Len(s) /\ r = Append(s, e) /\ Q = P \union {n + 1}
  OBVIOUS
<1>2. /\ n \in Nat /\ n + 1 \in Nat /\ P \in SUBSET (1..n) /\ P \in SUBSET (1..(n + 1))
      /\ Q \in SUBSET (1..(n + 1)) /\ n + 1 \in Q /\ n + 1 \notin P
  <2>1. n \in Nat /\ n + 1 \in Nat /\ P \in SUBSET (1..n)
    BY <1>1
  <2>2. 1..n \subseteq 1..(n + 1) /\ n + 1 \in 1..(n + 1) /\ n + 1 \notin 1..n
    BY <2>1
  <2> QED BY <1>1, <2>1, <2>2
<1>3. /\ r \in Seq(S) /\ r[n + 1] = e /\ (\A i \in 1..n : r[i] = s[i])
      /\ (\A i \in 1..(n + 1) : r[i] \in S) /\ (\A i \in 1..n : s[i] \in S)
  <2>1. r \in Seq(S) /\ r[n + 1] = e /\ \A i \in 1..n : r[i] = s[i]
    BY <1>1
  <2>2. Len(r) = n + 1
    BY <1>1
  <2>3. \A i \in 1..(n + 1) : r[i] \in S
    BY <2>1, <2>2
  <2> QED BY <1>1, <2>1, <2>3
<1>4. Picked(r, P) = Picked(s, P)
  <2>1. \A i \in P : r[i] = s[i]
    BY <1>2, <1>3
  <2> QED BY <1>2, <2>1, PickedSame
<1>5. PICK N : N = Cardinality(P)
  OBVIOUS
<1>6. N \in Nat /\ Cardinality(Q) = N + 1
  <2>1. IsFiniteSet(P) /\ N \in Nat
    BY <1>2, <1>5, SomeOf
  <2> QED BY <1>1, <1>2, <1>5, <2>1, FS_AddElement
<1>7. PICK q, l : q = Picked(s, P) /\ l = Picked(r, Q)
  OBVIOUS
<1>8. q \in Seq(S) /\ Len(q) = N /\ l \in Seq(S) /\ Len(l) = N + 1
  <2>1. \A i \in P : s[i] \in S
    BY <1>2, <1>3
  <2>2. \A i \in Q : r[i] \in S
    BY <1>2, <1>3
  <2>3. q \in Seq(S) /\ Len(q) = N
    BY <1>2, <1>5, <1>7, <2>1, PickedIs
  <2>4. l \in Seq(S) /\ Len(l) = N + 1
    BY <1>2, <1>6, <1>7, <2>2, PickedIs
  <2> QED BY <2>3, <2>4
<1>9. PICK a : a = Append(q, e)
  OBVIOUS
<1>10. /\ a \in Seq(S) /\ Len(a) = N + 1 /\ a[N + 1] = e
       /\ \A x \in 1..N : a[x] = q[x]
  BY <1>8, <1>9
<1>11. ASSUME NEW x \in 1..N PROVE l[x] = q[x]
  <2>1. Within(P, n)
    BY <1>2 DEF Within
  <2>2. PICK i \in P : Rank(P, i) = x /\ Picked(s, P)[x] = s[i]
    BY <1>5, <2>1, PickedFrom
  <2>3. i \in Q /\ i \in 1..n
    BY <1>1, <1>2
  <2>4. {j \in Q : j <= i} = {j \in P : j <= i}
    <3>1. ~(n + 1 <= i)
      BY <1>2, <2>3
    <3> QED BY <1>1, <3>1
  <2>5. Rank(Q, i) = x
    BY <2>2, <2>4 DEF Rank
  <2>6. Picked(r, Q)[x] = r[i]
    BY <1>2, <2>3, <2>5, PickedAt
  <2> QED BY <1>3, <1>7, <2>2, <2>3, <2>6
<1>12. l[N + 1] = e
  <2>1. {j \in Q : j <= n + 1} = Q
    <3>1. \A j \in Q : j <= n + 1
      BY <1>2
    <3> QED BY <3>1
  <2>2. Rank(Q, n + 1) = N + 1
    BY <1>6, <2>1 DEF Rank
  <2>3. PICK m : m = n + 1
    OBVIOUS
  <2>4. m \in Nat /\ Q \in SUBSET (1..m) /\ m \in Q /\ Rank(Q, m) = N + 1
    BY <1>2, <2>2, <2>3
  <2>5. Picked(r, Q)[Rank(Q, m)] = r[m]
    BY <2>4, PickedAt
  <2> QED BY <1>3, <1>7, <2>3, <2>4, <2>5
<1>13. ASSUME NEW x \in 1..(N + 1) PROVE l[x] = a[x]
  <2>1. CASE x = N + 1
    BY <1>10, <1>12, <2>1
  <2>2. CASE x # N + 1
    <3>1. x \in 1..N
      BY <1>6, <2>2
    <3> QED BY <1>10, <1>11, <3>1
  <2> QED BY <2>1, <2>2
<1>14. l = a
  BY <1>8, <1>10, <1>13
<1> QED
  BY <1>1, <1>4, <1>7, <1>9, <1>14

-----------------------------------------------------------------------------
(* The messages of a sequence of entries *)

LEMMA MessagesAre ==
  ASSUME NEW s \in Seq(Items)
  PROVE  /\ MessagesOf(s) \in Seq(Items) /\ Len(MessagesOf(s)) \in Nat
         /\ \A k \in 1..Len(MessagesOf(s)) : IsMessage(MessagesOf(s)[k])
         /\ (\A i \in 1..Len(s) : IsMessage(s[i])) => MessagesOf(s) = s
         /\ (\A i \in 1..Len(s) : ~IsMessage(s[i])) => MessagesOf(s) = <<>>
<1>1. PICK n, P : n = Len(s) /\ P = {i \in 1..n : IsMessage(s[i])}
  OBVIOUS
<1>2. n \in Nat /\ P \in SUBSET (1..n) /\ DOMAIN s = 1..n /\ (\A i \in P : s[i] \in Items)
  BY <1>1
<1>3. MessagesOf(s) = Picked(s, P)
  BY <1>1, <1>2 DEF MessagesOf
<1>4. PICK q : q = MessagesOf(s)
  OBVIOUS
<1>5. q \in Seq(Items) /\ Len(q) = Cardinality(P) /\ Cardinality(P) \in Nat
  BY <1>2, <1>3, <1>4, PickedIs, SomeOf
<1>6. ASSUME NEW k \in 1..Len(q) PROVE IsMessage(q[k])
  <2>1. Within(P, n)
    BY <1>2 DEF Within
  <2>2. PICK i \in P : Rank(P, i) = k /\ Picked(s, P)[k] = s[i]
    BY <1>5, <2>1, PickedFrom
  <2>3. q[k] = s[i] /\ IsMessage(s[i])
    BY <1>1, <1>3, <1>4, <2>2
  <2> QED BY <2>3
<1>7. ASSUME \A i \in 1..n : IsMessage(s[i]) PROVE q = s
  <2>1. P = 1..Len(s)
    BY <1>1, <1>7
  <2> QED BY <1>3, <1>4, <2>1, PickedAll
<1>8. ASSUME \A i \in 1..n : ~IsMessage(s[i]) PROVE q = <<>>
  <2>1. P = {}
    BY <1>1, <1>8
  <2>2. Cardinality(P) = 0
    BY <2>1, FS_EmptySet
  <2> QED BY <1>5, <2>2
<1> QED
  BY <1>1, <1>4, <1>5, <1>6, <1>7, <1>8

LEMMA MessagesOfMore ==
  ASSUME NEW s \in Seq(Items), NEW e \in Items
  PROVE  MessagesOf(Append(s, e)) =
           IF IsMessage(e) THEN Append(MessagesOf(s), e) ELSE MessagesOf(s)
<1>1. PICK n, r, P : n = Len(s) /\ r = Append(s, e) /\ P = {i \in 1..n : IsMessage(s[i])}
  OBVIOUS
<1>2. /\ n \in Nat /\ P \in SUBSET (1..n) /\ DOMAIN s = 1..n /\ DOMAIN r = 1..(n + 1)
      /\ r[n + 1] = e /\ (\A i \in 1..n : r[i] = s[i])
  BY <1>1
<1>3. MessagesOf(s) = Picked(s, P)
  BY <1>1, <1>2 DEF MessagesOf
<1>4. MessagesOf(r) = Picked(r, {i \in 1..(n + 1) : IsMessage(r[i])})
  BY <1>2 DEF MessagesOf
<1>5. /\ Picked(r, P) = Picked(s, P)
      /\ Picked(r, P \union {n + 1}) = Append(Picked(s, P), e)
  <2>1. P \in SUBSET (1..Len(s))
    BY <1>1, <1>2
  <2>2. /\ Picked(Append(s, e), P) = Picked(s, P)
        /\ Picked(Append(s, e), P \union {Len(s) + 1}) = Append(Picked(s, P), e)
    BY <2>1, PickedMore
  <2> QED BY <1>1, <2>2
<1>6. \A i \in 1..(n + 1) : i = n + 1 \/ i \in 1..n
  BY <1>2
<1>7. 1..n \subseteq 1..(n + 1) /\ n + 1 \in 1..(n + 1) /\ n + 1 \notin 1..n
  BY <1>2
<1>8. CASE IsMessage(e)
  <2>1. {i \in 1..(n + 1) : IsMessage(r[i])} = P \union {n + 1}
    BY <1>1, <1>2, <1>6, <1>7, <1>8
  <2> QED BY <1>1, <1>3, <1>4, <1>5, <1>8, <2>1
<1>9. CASE ~IsMessage(e)
  <2>1. {i \in 1..(n + 1) : IsMessage(r[i])} = P
    BY <1>1, <1>2, <1>6, <1>7, <1>9
  <2> QED BY <1>1, <1>3, <1>4, <1>5, <1>9, <2>1
<1> QED
  BY <1>8, <1>9

LEMMA AppendJoined ==
  ASSUME NEW a \in Seq(Items), NEW b \in Seq(Items), NEW e \in Items
  PROVE  a \o Append(b, e) = Append(a \o b, e)
OBVIOUS

LEMMA MessagesOfLonger ==
  ASSUME NEW s \in Seq(Items), NEW p \in Seq(Items), NEW e \in Items,
         MessagesOf(s \o p) = MessagesOf(s) \o MessagesOf(p)
  PROVE  MessagesOf(s \o Append(p, e)) = MessagesOf(s) \o MessagesOf(Append(p, e))
<1>1. s \o Append(p, e) = Append(s \o p, e) /\ s \o p \in Seq(Items)
  BY AppendJoined
<1>2. PICK a, b : a = MessagesOf(s) /\ b = MessagesOf(p)
  OBVIOUS
<1>3. a \in Seq(Items) /\ b \in Seq(Items) /\ MessagesOf(s \o p) = a \o b
  BY <1>2, MessagesAre
<1>4. CASE IsMessage(e)
  <2>1. MessagesOf(Append(s \o p, e)) = Append(a \o b, e)
    BY <1>1, <1>3, <1>4, MessagesOfMore
  <2>2. MessagesOf(Append(p, e)) = Append(b, e)
    BY <1>2, <1>4, MessagesOfMore
  <2>3. a \o Append(b, e) = Append(a \o b, e)
    <3>1. a \in Seq(Items) /\ b \in Seq(Items)
      BY <1>3
    <3> QED BY <3>1, AppendJoined
  <2> QED BY <1>1, <1>2, <2>1, <2>2, <2>3
<1>5. CASE ~IsMessage(e)
  <2>1. MessagesOf(Append(s \o p, e)) = a \o b
    BY <1>1, <1>3, <1>5, MessagesOfMore
  <2>2. MessagesOf(Append(p, e)) = b
    BY <1>2, <1>5, MessagesOfMore
  <2> QED BY <1>1, <1>2, <2>1, <2>2
<1> QED
  BY <1>4, <1>5

LEMMA MessagesOfJoin ==
  ASSUME NEW s \in Seq(Items), NEW t \in Seq(Items)
  PROVE  MessagesOf(s \o t) = MessagesOf(s) \o MessagesOf(t)
<1>1. PICK l, z : l = Len(t) /\ z = <<>>
  OBVIOUS
<1>2. l \in Nat /\ SubSeq(t, 1, l) = t /\ SubSeq(t, 1, 0) = z /\ z \in Seq(Items)
      /\ s \o z = s
  BY <1>1
<1> DEFINE part(k) == SubSeq(t, 1, k)
           K == {k \in Nat : k <= l =>
                   MessagesOf(s \o part(k)) = MessagesOf(s) \o MessagesOf(part(k))}
<1>3. 0 \in K
  <2>1. MessagesOf(z) = <<>>
    <3>1. \A i \in 1..Len(z) : ~IsMessage(z[i])
      BY <1>1
    <3> QED BY <1>2, <3>1, MessagesAre
  <2>2. PICK m : m = MessagesOf(s)
    OBVIOUS
  <2>3. m \in Seq(Items)
    BY <2>2, MessagesAre
  <2>4. m \o z = m
    BY <1>1, <2>3
  <2>5. MessagesOf(s \o part(0)) = MessagesOf(s) \o MessagesOf(part(0))
    BY <1>1, <1>2, <2>1, <2>2, <2>4
  <2> QED BY <2>5
<1>4. ASSUME NEW k \in K PROVE k + 1 \in K
  <2>1. k \in Nat /\ (k <= l => MessagesOf(s \o part(k)) = MessagesOf(s) \o MessagesOf(part(k)))
    OBVIOUS
  <2> SUFFICES ASSUME k + 1 <= l
               PROVE  MessagesOf(s \o part(k + 1)) = MessagesOf(s) \o MessagesOf(part(k + 1))
    BY <2>1
  <2>2. PICK p, e : p = part(k) /\ e = t[k + 1]
    OBVIOUS
  <2>3. k <= l /\ p \in Seq(Items) /\ e \in Items
    <3>1. k + 1 \in 1..l
      BY <1>2, <2>1
    <3>2. t[k + 1] \in Items
      BY <1>1, <3>1
    <3>3. part(k) \in Seq(Items)
      BY <1>1, <1>2, <2>1
    <3> QED BY <1>2, <2>1, <2>2, <3>2, <3>3
  <2>4. part(k + 1) = Append(p, e)
    BY <1>1, <2>1, <2>2, SubMore
  <2>5. MessagesOf(s \o p) = MessagesOf(s) \o MessagesOf(p)
    BY <2>1, <2>2, <2>3
  <2>6. MessagesOf(s \o Append(p, e)) = MessagesOf(s) \o MessagesOf(Append(p, e))
    BY <2>3, <2>5, MessagesOfLonger
  <2> QED BY <2>4, <2>6
<1>5. K \in SUBSET Nat
  OBVIOUS
<1>6. l \in K
  <2> HIDE DEF K
  <2> QED BY <1>2, <1>3, <1>4, <1>5, CountUp
<1>7. MessagesOf(s \o part(l)) = MessagesOf(s) \o MessagesOf(part(l))
  BY <1>2, <1>6
<1> QED
  BY <1>2, <1>7

\* A stretch of a sequence is the one up to a position and the one after it.
LEMMA SplitAt ==
  ASSUME NEW s \in Seq(Items), NEW l \in 0..Len(s), NEW i \in 1..(l + 1),
         NEW m \in (i - 1)..l
  PROVE  /\ SubSeq(s, i, l) = SubSeq(s, i, m) \o SubSeq(s, m + 1, l)
         /\ SubSeq(s, i, m) \in Seq(Items) /\ SubSeq(s, m + 1, l) \in Seq(Items)
<1>1. PICK u, v, w : /\ u = SubSeq(s, i, l) /\ v = SubSeq(s, i, m)
                     /\ w = SubSeq(s, m + 1, l)
  OBVIOUS
<1>2. /\ l \in Nat /\ i \in Nat \ {0} /\ m \in Nat /\ m <= l /\ i <= m + 1 /\ l <= Len(s)
      /\ Len(s) \in Nat
  OBVIOUS
<1>3. /\ u \in Seq(Items) /\ Len(u) = (l - i) + 1 /\ \A k \in 1..((l - i) + 1) : u[k] = s[(i + k) - 1]
  BY <1>1, <1>2
<1>4. /\ v \in Seq(Items) /\ Len(v) = (m - i) + 1 /\ \A k \in 1..((m - i) + 1) : v[k] = s[(i + k) - 1]
  BY <1>1, <1>2
<1>5. /\ w \in Seq(Items) /\ Len(w) = l - m /\ \A k \in 1..(l - m) : w[k] = s[m + k]
  BY <1>1, <1>2
<1>6. PICK x : x = v \o w
  OBVIOUS
<1>7. /\ x \in Seq(Items) /\ Len(x) = (l - i) + 1
      /\ \A k \in 1..((m - i) + 1) : x[k] = v[k]
      /\ \A k \in 1..(l - m) : x[((m - i) + 1) + k] = w[k]
  <2>1. /\ x \in Seq(Items) /\ Len(x) = Len(v) + Len(w)
        /\ \A k \in 1..Len(v) : x[k] = v[k]
        /\ \A k \in 1..Len(w) : x[Len(v) + k] = w[k]
    <3>1. v \in Seq(Items) /\ w \in Seq(Items)
      BY <1>4, <1>5
    <3> QED BY <1>6, <3>1
  <2>2. ((m - i) + 1) + (l - m) = (l - i) + 1
    BY <1>2
  <2> QED BY <1>4, <1>5, <2>1, <2>2
<1>8. ASSUME NEW k \in 1..((l - i) + 1) PROVE x[k] = u[k]
  <2>1. CASE k <= (m - i) + 1
    <3>1. k \in 1..((m - i) + 1)
      BY <1>2, <2>1
    <3> QED BY <1>3, <1>4, <1>7, <3>1
  <2>2. CASE ~(k <= (m - i) + 1)
    <3>1. PICK j : j = k - ((m - i) + 1)
      OBVIOUS
    <3>2. j \in 1..(l - m) /\ k = ((m - i) + 1) + j /\ m + j = (i + k) - 1
      BY <1>2, <2>2, <3>1
    <3>3. x[k] = w[j] /\ w[j] = s[m + j]
      BY <1>5, <1>7, <3>2
    <3> QED BY <1>3, <3>2, <3>3
  <2> QED BY <2>1, <2>2
<1>9. x = u
  BY <1>3, <1>7, <1>8
<1> QED
  BY <1>1, <1>4, <1>5, <1>6, <1>9

\* The messages from one position to another.
Between(s, i, j) == MessagesOf(SubSeq(s, i, j))

LEMMA BetweenSplit ==
  ASSUME NEW s \in Seq(Items), NEW l \in 0..Len(s), NEW i \in 1..(l + 1),
         NEW m \in (i - 1)..l
  PROVE  /\ Between(s, i, l) = Between(s, i, m) \o Between(s, m + 1, l)
         /\ Between(s, i, m) \in Seq(Items) /\ Between(s, m + 1, l) \in Seq(Items)
<1>1. PICK u, v, w : /\ u = SubSeq(s, i, l) /\ v = SubSeq(s, i, m)
                     /\ w = SubSeq(s, m + 1, l)
  OBVIOUS
<1>2. u = v \o w /\ v \in Seq(Items) /\ w \in Seq(Items)
  BY <1>1, SplitAt
<1>3. MessagesOf(v \o w) = MessagesOf(v) \o MessagesOf(w)
  BY <1>2, MessagesOfJoin
<1>4. MessagesOf(v) \in Seq(Items) /\ MessagesOf(w) \in Seq(Items)
  BY <1>2, MessagesAre
<1> QED
  BY <1>1, <1>2, <1>3, <1>4 DEF Between

\* A sequence from i to l falls into what is up to m and what is from j on.
Cut(s, i, m, j, l) ==
  /\ s \in Seq(Items) /\ i \in Nat /\ m \in Nat /\ l \in Nat
  /\ 1 <= i /\ i <= j /\ j = m + 1 /\ m <= l /\ l <= Len(s)

LEMMA BetweenCut ==
  ASSUME NEW s, NEW i, NEW m, NEW j, NEW l, Cut(s, i, m, j, l)
  PROVE  /\ Between(s, i, l) = Between(s, i, m) \o Between(s, j, l)
         /\ Between(s, i, m) \in Seq(Items) /\ Between(s, j, l) \in Seq(Items)
<1>1. s \in Seq(Items) /\ l \in 0..Len(s) /\ i \in 1..(l + 1) /\ m \in (i - 1)..l /\ m + 1 = j
  BY DEF Cut
<1>2. /\ Between(s, i, l) = Between(s, i, m) \o Between(s, m + 1, l)
      /\ Between(s, i, m) \in Seq(Items) /\ Between(s, m + 1, l) \in Seq(Items)
  BY <1>1, BetweenSplit
<1> QED
  BY <1>1, <1>2

LEMMA BetweenIsNone ==
  ASSUME NEW s, NEW i \in Nat, NEW j \in Nat, j < i
  PROVE  Between(s, i, j) = <<>>
<1>1. PICK u : u = SubSeq(s, i, j)
  OBVIOUS
<1>2. u = <<>>
  BY <1>1
<1>3. u \in Seq({}) /\ \A k \in 1..Len(u) : ~IsMessage(u[k])
  BY <1>2
<1>4. MessagesOf(u) = <<>>
  BY <1>3, MessagesAre
<1> QED
  BY <1>1, <1>4 DEF Between

\* A compaction is no message.
LEMMA BetweenSkips ==
  ASSUME NEW s \in Seq(Items), NEW l \in 1..Len(s), NEW c \in 1..l,
         s[c].type = "compaction"
  PROVE  Between(s, c, l) = Between(s, c + 1, l)
<1>1. c \in Nat /\ l \in 0..Len(s) /\ c \in 1..(l + 1) /\ c \in (c - 1)..l /\ c \in 1..Len(s)
  OBVIOUS
<1>2. Between(s, c, l) = Between(s, c, c) \o Between(s, c + 1, l)
      /\ Between(s, c + 1, l) \in Seq(Items)
  BY <1>1, BetweenSplit
<1>3. PICK u : u = SubSeq(s, c, c)
  OBVIOUS
<1>4. u \in Seq(Items) /\ Len(u) = 1 /\ u[1] = s[c]
  BY <1>1, <1>3
<1>5. \A k \in 1..Len(u) : ~IsMessage(u[k])
  <2>1. \A k \in 1..Len(u) : k = 1
    BY <1>4
  <2> QED BY <1>4, <2>1 DEF IsMessage
<1>6. Between(s, c, c) = <<>>
  BY <1>3, <1>4, <1>5, MessagesAre DEF Between
<1>7. PICK b : b = Between(s, c + 1, l)
  OBVIOUS
<1>8. <<>> \o b = b
  BY <1>2, <1>7
<1> QED
  BY <1>2, <1>6, <1>7, <1>8

LEMMA BetweenOnly ==
  ASSUME NEW s \in Seq(Items), NEW r \in Seq(Items), NEW n \in Nat, n <= Len(s), n <= Len(r),
         \A k \in 1..n : s[k] = r[k], NEW i \in Nat \ {0}
  PROVE  Between(s, i, n) = Between(r, i, n)
<1>1. PICK u, v : u = SubSeq(s, i, n) /\ v = SubSeq(r, i, n)
  OBVIOUS
<1>2. /\ u \in Seq(Items) /\ Len(u) = (IF i <= n THEN (n - i) + 1 ELSE 0)
      /\ \A k \in 1..Len(u) : u[k] = s[(i + k) - 1]
  BY <1>1
<1>3. /\ v \in Seq(Items) /\ Len(v) = (IF i <= n THEN (n - i) + 1 ELSE 0)
      /\ \A k \in 1..Len(v) : v[k] = r[(i + k) - 1]
  BY <1>1
<1>4. ASSUME NEW k \in 1..Len(u) PROVE u[k] = v[k]
  <2>1. (i + k) - 1 \in 1..n /\ k \in 1..Len(v)
    BY <1>2, <1>3
  <2> QED BY <1>2, <1>3, <2>1
<1>5. u = v
  BY <1>2, <1>3, <1>4
<1> QED
  BY <1>1, <1>5 DEF Between

-----------------------------------------------------------------------------
(* What the model is sent *)

LEMMA PrefixIsTree ==
  ASSUME NEW n, NEW t, Tree(t, n), NEW m \in 0..Len(t)
  PROVE  /\ Tree(SubSeq(t, 1, m), n) /\ Len(SubSeq(t, 1, m)) = m
         /\ \A i \in 1..m : SubSeq(t, 1, m)[i] = t[i]
<1>1. PICK r : r = SubSeq(t, 1, m)
  OBVIOUS
<1>2. t \in Seq(Items) /\ m \in Nat /\ Len(t) \in Nat /\ m <= Len(t) /\ Grown(t, n)
  BY DEF Tree
<1>3. r \in Seq(Items) /\ Len(r) = m /\ \A i \in 1..m : r[i] = t[i]
  BY <1>1, <1>2
<1>4. \A i \in 1..m : i \in 1..Len(t)
  BY <1>2
<1>5. Grown(r, n)
  BY <1>2, <1>3, <1>4 DEF Grown
<1> QED
  BY <1>1, <1>3, <1>5 DEF Tree

\* What is found before an entry is found there in the part above it.
LEMMA PositionBefore ==
  ASSUME NEW n, NEW t, Tree(t, n), NEW c \in 1..Len(t), NEW id, id < t[c].id
  PROVE  /\ Position(SubSeq(t, 1, c - 1), id) = Position(t, id)
         /\ Position(t, id) \in 0..(c - 1)
<1>1. PICK r, m : r = SubSeq(t, 1, c - 1) /\ m = c - 1
  OBVIOUS
<1>2. /\ t \in Seq(Items) /\ Len(t) \in Nat /\ DOMAIN t = 1..Len(t) /\ m \in 0..Len(t)
      /\ m \in Nat /\ c \in Nat /\ c = m + 1
      /\ \A i, j \in 1..Len(t) : i < j => t[i].id < t[j].id
  BY <1>1 DEF Tree, Grown
<1>3. Tree(r, n) /\ Len(r) = m /\ \A i \in 1..m : r[i] = t[i]
  BY <1>1, <1>2, PrefixIsTree
<1>4. DOMAIN r = 1..m
  BY <1>3 DEF Tree
<1>5. CASE id \in IdsOf(t)
  <2>1. PICK i \in 1..Len(t) : t[i].id = id
    BY <1>2, <1>5 DEF IdsOf
  <2>2. t[i].id \in Nat /\ t[c].id \in Nat
    <3>1. t[i] \in Items /\ t[c] \in Items
      BY <1>2
    <3> QED BY <3>1, ItemsAre
  <2>3. ~(c < i) /\ c # i
    <3>1. ~(t[c].id < t[i].id) /\ t[c].id # t[i].id
      BY <2>1, <2>2
    <3> QED BY <1>2, <3>1
  <2>4. i \in 1..m
    BY <1>2, <2>3
  <2>5. Position(t, t[i].id) = i
    BY PositionOf
  <2>6. Position(r, r[i].id) = i
    <3>1. i \in 1..Len(r)
      BY <1>3, <2>4
    <3> QED BY <1>3, <3>1, PositionOf
  <2>7. r[i] = t[i]
    BY <1>3, <2>4
  <2>8. i \in 0..(c - 1)
    BY <1>2, <2>4
  <2> QED BY <1>1, <2>1, <2>5, <2>6, <2>7, <2>8
<1>6. CASE id \notin IdsOf(t)
  <2>1. id \notin IdsOf(r)
    <3> SUFFICES ASSUME NEW i \in 1..m, r[i].id = id PROVE FALSE
      BY <1>4 DEF IdsOf
    <3>1. i \in DOMAIN t /\ t[i].id = id
      BY <1>2, <1>3
    <3> QED BY <1>6, <3>1 DEF IdsOf
  <2>2. Position(t, id) = 0 /\ Position(r, id) = 0
    BY <1>6, <2>1, PositionNone
  <2> QED BY <1>1, <1>2, <2>2
<1> QED
  BY <1>5, <1>6

LEMMA ContextIs ==
  ASSUME NEW p, NEW c, c = LastCompaction(p),
         NEW k, k = Position(SubSeq(p, 1, c - 1), p[c].ref)
  PROVE  /\ c = 0 => ContextOf(p) = MessagesOf(p)
         /\ c # 0 /\ k = 0 => ContextOf(p) = <<p[c]>> \o <<>> \o Between(p, c + 1, Len(p))
         /\ c # 0 /\ k # 0 => ContextOf(p) = <<p[c]>> \o Between(p, k, c - 1)
                                               \o Between(p, c + 1, Len(p))
BY DEF ContextOf, Between

\* A path whose last entry is a compaction: its summary and what it kept.
LEMMA CompactedContext ==
  ASSUME NEW n, NEW p, Tree(p, n), NEW l \in Nat \ {0}, l = Len(p),
         p[l].type = "compaction", NEW i \in 1..(l - 1), p[i].id = p[l].ref
  PROVE  ContextOf(p) = <<p[l]>> \o Between(p, i, l - 1)
<1>1. p \in Seq(Items) /\ l \in 1..Len(p) /\ l \in 1..l /\ l - 1 \in Nat
  BY DEF Tree
<1>2. LastCompaction(p) = l
  <2>1. LastCompaction(p) \in 0..l /\ l <= LastCompaction(p)
    BY <1>1, LastCompactionIs
  <2> QED BY <2>1
<1>3. Position(SubSeq(p, 1, l - 1), p[l].ref) = i
  <2>1. p[i].id < p[l].id
    <3>1. i \in 1..Len(p) /\ i < l
      BY <1>1
    <3> QED BY <1>1, <3>1 DEF Tree, Grown
  <2>2. PICK id : id = p[l].ref
    OBVIOUS
  <2>3. Position(SubSeq(p, 1, l - 1), id) = Position(p, id)
    BY <1>1, <2>1, <2>2, PositionBefore
  <2>4. Position(p, id) = i
    <3>1. i \in 1..Len(p)
      BY <1>1
    <3> QED BY <2>2, <3>1, PositionOf
  <2> QED BY <2>2, <2>3, <2>4
<1>4. ContextOf(p) = <<p[l]>> \o Between(p, i, l - 1) \o Between(p, l + 1, l)
  <2>1. i # 0 /\ l # 0
    OBVIOUS
  <2> QED BY <1>2, <1>3, <2>1, ContextIs
<1>5. Between(p, l + 1, l) = <<>>
  <2>1. l + 1 \in Nat /\ l < l + 1
    OBVIOUS
  <2> QED BY <2>1, BetweenIsNone
<1>6. PICK b, h : b = Between(p, i, l - 1) /\ h = p[l]
  OBVIOUS
<1>7. b \in Seq(Items) /\ h \in Items
  <2>1. l - 1 \in 0..Len(p) /\ i \in 1..((l - 1) + 1) /\ l - 1 \in (i - 1)..(l - 1)
    BY <1>1
  <2> QED BY <1>1, <1>6, <2>1, BetweenSplit
<1>8. <<h>> \o b \o <<>> = <<h>> \o b
  BY <1>7
<1> QED
  BY <1>4, <1>5, <1>6, <1>8

LEMMA EndOfJoin ==
  ASSUME NEW S, NEW x \in Seq(S), NEW u \in Seq(S), NEW v, v = x \o u
  PROVE  \E k \in 0..Len(v) : u = SubSeq(v, k + 1, Len(v))
<1>1. PICK m, l : m = Len(x) /\ l = Len(u)
  OBVIOUS
<1>2. /\ m \in Nat /\ l \in Nat /\ v \in Seq(S) /\ Len(v) = m + l
      /\ \A k \in 1..l : v[m + k] = u[k]
  BY <1>1
<1>3. PICK w : w = SubSeq(v, m + 1, m + l)
  OBVIOUS
<1>4. w \in Seq(S) /\ Len(w) = l /\ \A k \in 1..l : w[k] = v[m + k]
  BY <1>2, <1>3
<1>5. w = u
  BY <1>1, <1>2, <1>4
<1>6. m \in 0..Len(v)
  BY <1>2
<1> QED
  BY <1>2, <1>3, <1>5, <1>6

\* A compaction may keep the entries of t from the one at i on.
KeptFrom(t, l, c, kept, start, i) ==
  /\ l = Len(t) /\ c = LastCompaction(t)
  /\ kept = IF c = 0 THEN 1 ELSE Position(t, t[c].ref)
  /\ start = IF kept = 0 THEN c + 1 ELSE kept
  /\ i \in start..l /\ t[i].type # "compaction"

LEMMA JoinedTwice ==
  ASSUME NEW a, NEW b, NEW d, a \in Seq(Items), b \in Seq(Items), d \in Seq(Items)
  PROVE  (a \o b) \o d = a \o (b \o d) /\ a \o b \in Seq(Items)
OBVIOUS

\* Where a compaction may keep from: the messages after it are the last of those
\* sent, also below an earlier compaction.
LEMMA RestIsSent ==
  ASSUME NEW n, NEW t, Tree(t, n), NEW l, NEW c, NEW kept, NEW start, NEW i,
         KeptFrom(t, l, c, kept, start, i)
  PROVE  /\ Between(t, i, l) \in Seq(Items)
         /\ \E x \in Seq(Items) : MessagesOf(ContextOf(t)) = x \o Between(t, i, l)
<1>1. /\ t \in Seq(Items) /\ l \in Nat /\ l = Len(t) /\ DOMAIN t = 1..l
      /\ c \in 0..l /\ c = LastCompaction(t)
      /\ (c # 0 => t[c].type = "compaction") /\ t[i].type # "compaction"
  <2>1. t \in Seq(Items)
    BY DEF Tree
  <2>2. l = Len(t) /\ c = LastCompaction(t) /\ t[i].type # "compaction"
    BY DEF KeptFrom
  <2> QED BY <2>1, <2>2, LastCompactionIs
<1>2. kept \in 0..l /\ start \in Nat \ {0} /\ (start = c + 1 \/ start = kept)
      /\ i \in start..l /\ (kept = 0 => start = c + 1)
  <2>1. /\ kept = IF c = 0 THEN 1 ELSE Position(t, t[c].ref)
        /\ start = IF kept = 0 THEN c + 1 ELSE kept
        /\ i \in start..l
    BY DEF KeptFrom
  <2>2. CASE c = 0
    <3>1. kept = 1 /\ start = 1
      BY <2>1, <2>2
    <3>2. 1 <= l
      BY <1>1, <2>1, <3>1
    <3> QED BY <1>1, <2>1, <3>1, <3>2
  <2>3. CASE c # 0
    <3>1. kept \in 0..l
      BY <1>1, <2>1, <2>3, PositionIs
    <3> QED BY <1>1, <2>1, <3>1
  <2> QED BY <2>2, <2>3
<1>3. i \in 1..l /\ i \in Nat
  BY <1>1, <1>2
<1>4. PICK b, ib, cb, ca : /\ b = Between(t, i, l)
                          /\ ib = i - 1 /\ cb = c - 1 /\ ca = c + 1
  OBVIOUS
<1>5. /\ b \in Seq(Items) /\ SubSeq(t, 1, l) = t /\ 0 \in 0..l /\ l \in 0..Len(t)
  <2>1. l \in 0..Len(t) /\ i \in 1..(l + 1) /\ l \in (i - 1)..l
    BY <1>1, <1>3
  <2>2. Between(t, i, l) \in Seq(Items)
    BY <1>1, <2>1, BetweenSplit
  <2> QED BY <1>1, <1>4, <2>1, <2>2
<1>6. CASE c = 0
  <2>1. ContextOf(t) = MessagesOf(t)
    BY <1>1, <1>6, ContextIs
  <2>2. MessagesOf(MessagesOf(t)) = MessagesOf(t)
    <3>1. PICK m : m = MessagesOf(t)
      OBVIOUS
    <3>2. m \in Seq(Items) /\ \A k \in 1..Len(m) : IsMessage(m[k])
      BY <1>1, <3>1, MessagesAre
    <3>3. MessagesOf(m) = m
      BY <3>2, MessagesAre
    <3> QED BY <3>1, <3>3
  <2>3. Between(t, 1, l) = MessagesOf(t)
    BY <1>1, <1>5 DEF Between
  <2>4. Cut(t, 1, ib, i, l)
    BY <1>1, <1>3, <1>4 DEF Cut
  <2>5. /\ Between(t, 1, l) = Between(t, 1, ib) \o Between(t, i, l)
        /\ Between(t, 1, ib) \in Seq(Items)
    BY <2>4, BetweenCut
  <2> QED BY <1>4, <1>5, <2>1, <2>2, <2>3, <2>4, <2>5
<1>7. CASE c # 0
  <2>1. PICK k : k = Position(SubSeq(t, 1, c - 1), t[c].ref)
    OBVIOUS
  <2>2. k = kept /\ kept \in 0..(c - 1) /\ c \in 1..l /\ t[c] \in Items
    <3>1. c \in 1..l /\ t[c] \in Items
      BY <1>1, <1>7
    <3>2. t[c].ref < t[c].id
      BY <1>1, <1>7, <3>1, ItemsAre
    <3>3. PICK id : id = t[c].ref
      OBVIOUS
    <3>4. Position(SubSeq(t, 1, c - 1), id) = Position(t, id) /\ Position(t, id) \in 0..(c - 1)
      <4>1. c \in 1..Len(t) /\ id < t[c].id
        BY <1>1, <3>1, <3>2, <3>3
      <4> QED BY <4>1, PositionBefore
    <3>5. kept = Position(t, t[c].ref)
      BY <1>7 DEF KeptFrom
    <3> QED BY <2>1, <3>1, <3>3, <3>4, <3>5
  <2>3. PICK a, d, h : /\ a = IF kept = 0 THEN <<>> ELSE Between(t, kept, c - 1)
                       /\ d = Between(t, c + 1, l) /\ h = <<t[c]>>
    OBVIOUS
  <2>4. ContextOf(t) = h \o a \o d
    BY <1>1, <1>7, <2>1, <2>2, <2>3, ContextIs
  <2>5. c + 1 \in 1..(l + 1) /\ l \in ((c + 1) - 1)..l /\ c + 1 \in Nat
        /\ c - 1 \in 0..Len(t) /\ c \in Nat /\ (c - 1) + 1 = c
    BY <1>1, <2>2
  <2>6. d \in Seq(Items) /\ h \in Seq(Items) /\ a \in Seq(Items)
    <3>1. d \in Seq(Items)
      BY <1>1, <1>5, <2>3, <2>5, BetweenSplit
    <3>2. h \in Seq(Items)
      BY <2>2, <2>3
    <3>3. a \in Seq(Items)
      <4>1. CASE kept = 0
        BY <2>3, <4>1
      <4>2. CASE kept # 0
        <5>1. kept \in 1..((c - 1) + 1) /\ c - 1 \in (kept - 1)..(c - 1)
          BY <2>2, <2>5, <4>2
        <5>2. Between(t, kept, c - 1) \in Seq(Items)
          BY <1>1, <2>5, <5>1, BetweenSplit
        <5> QED BY <2>3, <4>2, <5>2
      <4> QED BY <4>1, <4>2
    <3> QED BY <3>1, <3>2, <3>3
  <2>7. MessagesOf(h \o a \o d) = a \o d
    <3>1. MessagesOf(h) = <<>>
      <4>1. \A j \in 1..Len(h) : ~IsMessage(h[j])
        <5>1. Len(h) = 1 /\ h[1] = t[c]
          BY <2>3
        <5>2. \A j \in 1..Len(h) : j = 1
          BY <5>1
        <5>3. ~IsMessage(t[c])
          BY <1>1, <1>7 DEF IsMessage
        <5> QED BY <5>1, <5>2, <5>3
      <4> QED BY <2>6, <4>1, MessagesAre
    <3>2. MessagesOf(a) = a
      <4>1. CASE kept = 0
        <5>1. a = <<>>
          BY <2>3, <4>1
        <5>2. \A j \in 1..Len(a) : IsMessage(a[j])
          BY <5>1
        <5> QED BY <2>6, <5>2, MessagesAre
      <4>2. CASE kept # 0
        <5>1. PICK u : u = SubSeq(t, kept, c - 1)
          OBVIOUS
        <5>2. a = MessagesOf(u) /\ u \in Seq(Items)
          <6>1. kept \in 1..((c - 1) + 1) /\ c - 1 \in (kept - 1)..(c - 1)
            BY <2>2, <2>5, <4>2
          <6>2. SubSeq(t, kept, c - 1) \in Seq(Items)
            BY <1>1, <2>5, <6>1, SplitAt
          <6> QED BY <2>3, <4>2, <5>1, <6>2 DEF Between
        <5>3. \A j \in 1..Len(a) : IsMessage(a[j])
          BY <5>2, MessagesAre
        <5> QED BY <2>6, <5>3, MessagesAre
      <4> QED BY <4>1, <4>2
    <3>3. MessagesOf(d) = d
      <4>1. PICK u : u = SubSeq(t, c + 1, l)
        OBVIOUS
      <4>2. d = MessagesOf(u) /\ u \in Seq(Items)
        <5>1. SubSeq(t, c + 1, l) \in Seq(Items)
          BY <1>1, <1>5, <2>5, SplitAt
        <5> QED BY <2>3, <4>1, <5>1 DEF Between
      <4>3. \A j \in 1..Len(d) : IsMessage(d[j])
        BY <4>2, MessagesAre
      <4> QED BY <2>6, <4>3, MessagesAre
    <3>4. MessagesOf(h \o a) = MessagesOf(h) \o MessagesOf(a) /\ h \o a \in Seq(Items)
      BY <2>6, MessagesOfJoin
    <3>5. PICK q : q = h \o a
      OBVIOUS
    <3>6. MessagesOf(q \o d) = MessagesOf(q) \o MessagesOf(d)
      BY <2>6, <3>4, <3>5, MessagesOfJoin
    <3>7. <<>> \o a = a
      BY <2>6
    <3> QED BY <3>1, <3>2, <3>3, <3>4, <3>5, <3>6, <3>7
  <2>8. i # c
    BY <1>1, <1>7
  <2>9. CASE i > c
    <3>1. Cut(t, ca, ib, i, l)
      <4>1. ca \in Nat /\ ib \in Nat /\ 1 <= ca /\ ca <= i /\ i = ib + 1 /\ ib <= l
        BY <1>3, <1>4, <2>5, <2>9
      <4> QED BY <1>1, <4>1 DEF Cut
    <3>2. PICK x : x = Between(t, ca, ib)
      OBVIOUS
    <3>3. d = x \o b /\ x \in Seq(Items)
      <4>1. /\ Between(t, ca, l) = Between(t, ca, ib) \o Between(t, i, l)
            /\ Between(t, ca, ib) \in Seq(Items)
        BY <3>1, BetweenCut
      <4> QED BY <1>4, <2>3, <3>2, <4>1
    <3>4. a \o (x \o b) = (a \o x) \o b /\ a \o x \in Seq(Items)
      <4>1. a \in Seq(Items) /\ x \in Seq(Items) /\ b \in Seq(Items)
        BY <1>5, <2>6, <3>3
      <4> QED BY <4>1, JoinedTwice
    <3> QED BY <1>4, <1>5, <2>4, <2>7, <3>3, <3>4
  <2>10. CASE i < c
    <3>1. start = kept /\ kept # 0 /\ kept <= i
      BY <1>2, <1>3, <2>2, <2>10
    <3>2. Cut(t, kept, ib, i, cb) /\ Cut(t, i, cb, c, l)
      <4>1. kept \in Nat /\ ib \in Nat /\ cb \in Nat /\ 1 <= kept /\ i = ib + 1 /\ ib <= cb
            /\ i <= c /\ c = cb + 1 /\ cb <= l /\ 1 <= i
        BY <1>3, <1>4, <2>2, <2>5, <2>10, <3>1
      <4> QED BY <1>1, <1>3, <3>1, <4>1 DEF Cut
    <3>3. PICK x, y : x = Between(t, kept, ib) /\ y = Between(t, i, cb)
      OBVIOUS
    <3>4. a = x \o y /\ x \in Seq(Items) /\ y \in Seq(Items)
      <4>1. /\ Between(t, kept, cb) = Between(t, kept, ib) \o Between(t, i, cb)
            /\ Between(t, kept, ib) \in Seq(Items)
            /\ Between(t, i, cb) \in Seq(Items)
        <5>1. PICK z : z = kept
          OBVIOUS
        <5>2. Cut(t, z, ib, i, cb)
          BY <3>2, <5>1
        <5>3. /\ Between(t, z, cb) = Between(t, z, ib) \o Between(t, i, cb)
              /\ Between(t, z, ib) \in Seq(Items)
              /\ Between(t, i, cb) \in Seq(Items)
          BY <5>2, BetweenCut
        <5> QED BY <5>1, <5>3
      <4> QED BY <1>4, <2>3, <3>1, <3>3, <4>1
    <3>5. b = y \o d
      <4>1. Between(t, i, l) = Between(t, i, cb) \o Between(t, c, l)
        <5>1. Cut(t, i, cb, c, l)
          BY <3>2
        <5> QED BY <5>1, BetweenCut
      <4>2. Between(t, c, l) = Between(t, c + 1, l)
        <5>1. l \in 1..Len(t) /\ c \in 1..l
          BY <1>1, <2>2
        <5> QED BY <1>1, <1>7, <5>1, BetweenSkips
      <4> QED BY <1>4, <2>3, <2>5, <3>3, <4>1, <4>2
    <3>6. (x \o y) \o d = x \o (y \o d)
      <4>1. x \in Seq(Items) /\ y \in Seq(Items) /\ d \in Seq(Items)
        BY <2>6, <3>4
      <4> QED BY <4>1, JoinedTwice
    <3> QED BY <1>4, <1>5, <2>4, <2>7, <3>4, <3>5, <3>6
  <2>11. i < c \/ i > c
    BY <1>3, <2>2, <2>8
  <2> QED BY <2>9, <2>10, <2>11
<1> QED
  BY <1>6, <1>7

-----------------------------------------------------------------------------
(* What compaction and migration keep *)

LEMMA AppendingIsInMemory ==
  ASSUME NEW e, Appending(e), open'
  PROVE  fileEntries' = Append(fileEntries, e) /\ leafId' = e.id
BY DEF Appending, Saved, NotSaved, InMemory, Forgotten

LEMMA CompactionStep ==
  ASSUME SessionsInv, AppendCompaction, open'
  PROVE  TailKept
<1>1. /\ drawn \in Nat /\ Tree(fileEntries, drawn) /\ leafId \in 0..drawn
      /\ KeepFrom \subseteq 1..drawn
  BY EntriesAreDrawn, KeepFromIsDrawn
<1>2. PICK ref \in KeepFrom : Appending(NewEntry("compaction", leafId, ref, FALSE))
  BY DEF AppendCompaction
<1>3. PICK n, s, x : n = drawn /\ s = fileEntries /\ x = NewEntry("compaction", leafId, ref, FALSE)
  OBVIOUS
<1>4. PICK s1, id1 : s1 = fileEntries' /\ id1 = leafId'
  OBVIOUS
<1>5. s1 = Append(s, x) /\ id1 = x.id
  BY <1>2, <1>3, <1>4, AppendingIsInMemory
<1>6. /\ x \in Items /\ x.id = n + 1 /\ x.parentId = leafId /\ x.ref = ref
      /\ x.type = "compaction" /\ n < x.id /\ x.parentId < x.id /\ n \in Nat /\ Tree(s, n)
  <2>1. ref \in Nat /\ ref < drawn + 1 /\ leafId \in Nat /\ leafId < drawn + 1
    BY <1>1
  <2>2. "compaction" \in Kinds
    BY DEF Kinds
  <2>3. x \in Items /\ x.id = drawn + 1 /\ x.parentId = leafId /\ x.ref = ref
        /\ x.type = "compaction"
    BY <1>1, <1>3, <2>1, <2>2 DEF NewEntry, Entry, Items
  <2>4. drawn < x.id /\ x.parentId < x.id
    BY <1>1, <2>1, <2>3
  <2> QED BY <1>1, <1>3, <2>3, <2>4
<1>7. PICK t, l, c : t = PathTo(s, leafId) /\ l = Len(t) /\ c = LastCompaction(t)
  OBVIOUS
<1>8. PICK kept : kept = IF c = 0 THEN 1 ELSE Position(t, t[c].ref)
  OBVIOUS
<1>9. PICK start : start = IF kept = 0 THEN c + 1 ELSE kept
  OBVIOUS
<1>10. PICK i \in start..l : ref = t[i].id /\ t[i].type # "compaction"
  <2>1. ref \in IF t = <<>> \/ c = Len(t) THEN {}
                ELSE {t[i].id : i \in {j \in start..Len(t) : t[j].type # "compaction"}}
    BY <1>3, <1>7, <1>8, <1>9 DEF KeepFrom
  <2> QED BY <1>7, <2>1
<1>11. Tree(t, n) /\ l \in Nat /\ t \in Seq(Items)
  <2>1. Tree(t, n)
    BY <1>6, <1>7, PathIsTree
  <2> QED BY <1>7, <2>1 DEF Tree
<1>12. i \in 1..l
  <2>1. c \in 0..l
    BY <1>7, <1>11, LastCompactionIs
  <2>2. kept \in Nat
    <3>1. Position(t, t[c].ref) \in Nat
      BY <1>11, PositionIs
    <3> QED BY <1>8, <3>1
  <2> QED BY <1>9, <1>11, <2>1, <2>2
<1>13. PICK b : b = Between(t, i, l)
  OBVIOUS
<1>14. b \in Seq(Items) /\ \E y \in Seq(Items) : MessagesOf(ContextOf(t)) = y \o b
  <2>1. KeptFrom(t, l, c, kept, start, i)
    BY <1>7, <1>8, <1>9, <1>10 DEF KeptFrom
  <2>2. /\ Between(t, i, l) \in Seq(Items)
        /\ \E y \in Seq(Items) : MessagesOf(ContextOf(t)) = y \o Between(t, i, l)
    BY <1>11, <2>1, RestIsSent
  <2> QED BY <1>13, <2>2
<1>15. PICK p : p = Append(t, x)
  OBVIOUS
<1>16. PathTo(s1, id1) = p
  <2>1. PathTo(Append(s, x), x.id) = Append(PathTo(s, x.parentId), x)
    BY <1>6, PathOfMore
  <2> QED BY <1>5, <1>6, <1>7, <1>15, <2>1
<1>17. /\ Tree(p, x.id) /\ Len(p) = l + 1 /\ p[l + 1] = x /\ \A j \in 1..l : p[j] = t[j]
  BY <1>6, <1>7, <1>11, <1>15, TreeMore
<1>18. ContextOf(p) = <<x>> \o b
  <2>1. PICK m : m = l + 1
    OBVIOUS
  <2>2. /\ m \in Nat \ {0} /\ m = Len(p) /\ p[m].type = "compaction"
        /\ i \in 1..(m - 1) /\ p[i].id = p[m].ref /\ m - 1 = l
    BY <1>6, <1>10, <1>11, <1>12, <1>17, <2>1
  <2>3. ContextOf(p) = <<p[m]>> \o Between(p, i, m - 1)
    BY <1>17, <2>2, CompactedContext
  <2>4. Between(p, i, l) = Between(t, i, l)
    <3>1. p \in Seq(Items) /\ l <= Len(p) /\ l <= Len(t) /\ i \in Nat \ {0}
      BY <1>7, <1>11, <1>12, <1>17 DEF Tree
    <3> QED BY <1>11, <1>17, <3>1, BetweenOnly
  <2> QED BY <1>13, <1>17, <2>1, <2>2, <2>3, <2>4
<1>19. s1[Len(s1)] = x
  <2>1. s \in Seq(Items)
    BY <1>6 DEF Tree
  <2> QED BY <1>5, <2>1
<1>20. Position(t, x.ref) = i
  <2>1. i \in 1..Len(t)
    BY <1>7, <1>12
  <2> QED BY <1>6, <1>10, <1>11, <2>1, PositionOf
<1>21. PICK old : old = MessagesOf(ContextOf(t))
  OBVIOUS
<1>22. \E k \in 0..Len(old) : b = SubSeq(old, k + 1, Len(old))
  BY <1>14, <1>21, EndOfJoin
<1>23. Context = ContextOf(t) /\ NewContext = <<x>> \o b
  BY <1>3, <1>4, <1>7, <1>16, <1>18 DEF Context, NewContext
<1>24. MessagesOf(SubSeq(t, Position(t, x.ref), Len(t))) = b
  BY <1>7, <1>13, <1>20 DEF Between
<1> QED
  BY <1>3, <1>4, <1>7, <1>19, <1>21, <1>22, <1>23, <1>24 DEF TailKept

LEMMA MigrationStep ==
  ASSUME SessionsInv, NEW f \in 1..named, open', sessionFile' = f, leafId' # leafId,
         OpenOld(f)
  PROVE  PathKept(f)
<1>1. PICK g, old, s : g = disk[f] /\ old = Tail(Loaded(g)) /\ s = Migrated(old)
  OBVIOUS
<1>2. /\ Loaded(g) # <<>> /\ Loaded(g)[1] = OldHeader /\ Serving(f, s, TRUE)
  BY <1>1 DEF OpenOld, ThrownOrEnded, Forgotten, memory
<1>3. Old(g) /\ drawn \in Nat /\ OldRead(g, old, s)
  <2>1. Old(g) /\ drawn \in Nat
    BY <1>1, <1>2, ReadOldIsOld, EntriesAreDrawn
  <2> QED BY <1>1, <2>1 DEF OldRead
<1>4. PICK n : n = Len(old)
  OBVIOUS
<1>5. /\ n \in Nat /\ Tree(s, drawn + n) /\ Len(s) = n
      /\ \A i \in 1..n : /\ s[i].id = drawn + i /\ s[i].type = old[i].type
                         /\ s[i].parentId = IF i = 1 THEN Null ELSE drawn + i - 1
                         /\ s[i].type = "compaction" => s[i].ref = drawn + 2
  <2>1. /\ Len(s) \in Nat /\ Tree(s, drawn + Len(s)) /\ Len(s) = Len(old)
        /\ \A i \in 1..Len(s) :
             /\ s[i].id = drawn + i /\ s[i].type = old[i].type
             /\ s[i].parentId = IF i = 1 THEN Null ELSE drawn + i - 1
             /\ s[i].type = "compaction" => s[i].ref = drawn + 2
    BY <1>3, MigratedIsTree
  <2> QED BY <1>4, <2>1
<1>6. /\ n # 0
      /\ \A i \in 1..n : old[i].type = "compaction" => i = n /\ n > 2 /\ old[i].ref = 2
  BY <1>3, <1>4, OldEntriesAre
<1>7. Chained(s)
  <2> SUFFICES ASSUME NEW i \in 2..n PROVE s[i].parentId = s[i - 1].id
    BY <1>5 DEF Chained
  <2>1. i \in 1..n /\ i # 1 /\ i - 1 \in 1..n /\ drawn + (i - 1) = drawn + i - 1
    BY <1>3, <1>5
  <2> QED BY <1>5, <2>1
<1>8. s \in Seq(Items)
  BY <1>5 DEF Tree
<1>9. s # <<>>
  BY <1>5, <1>6
<1>10. PathTo(s, LastId(s)) = s
  BY <1>5, <1>7, <1>9, PathOfChain
<1>11. PICK s1, id1 : s1 = fileEntries' /\ id1 = leafId'
  OBVIOUS
<1>12. PathTo(s1, id1) = s /\ NewContext = ContextOf(s)
  BY <1>2, <1>10, <1>11 DEF Serving, NewContext
<1>13. ASSUME old[n].type = "compaction"
       PROVE  ContextOf(s) = <<s[n]>> \o MessagesOf(SubSeq(s, old[n].ref, n - 1))
  <2>1. n \in 1..n /\ n > 2 /\ old[n].ref = 2 /\ 2 \in 1..n /\ 2 \in 1..(n - 1)
        /\ n \in Nat \ {0}
    BY <1>5, <1>6, <1>13
  <2>2. s[n].type = "compaction" /\ s[n].ref = drawn + 2 /\ s[2].id = drawn + 2
    BY <1>5, <1>13, <2>1
  <2>3. ContextOf(s) = <<s[n]>> \o Between(s, 2, n - 1)
    BY <1>5, <2>1, <2>2, CompactedContext
  <2> QED BY <2>1, <2>3 DEF Between
<1> QED
  BY <1>1, <1>4, <1>5, <1>11, <1>12, <1>13 DEF PathKept

\* What compact() leaves of what the model is sent, for any bounds: its summary
\* comes first, and every message from the entry it keeps from is still sent,
\* also those an earlier compaction kept (appendCompaction, buildSessionContext).
THEOREM CompactionsKeepTheTail == SessionsSpec => CompactionKeepsTail
<1>1. SessionsInv => [AppendCompaction /\ open' => TailKept]_sessionsVars
  BY CompactionStep
<1> QED
  BY <1>1, SessionsStaySound, PTL DEF CompactionKeepsTail

\* A session of version 1 is one path once it is migrated, of any length: its
\* entries in order, and below a compaction what its index counted off
\* (migrateV1ToV2).
THEOREM MigrationsKeepTheContext == SessionsSpec => MigrationKeepsContext
<1>1. SessionsInv =>
        [\A f \in 1..named :
           open' /\ sessionFile' = f /\ leafId' # leafId /\ OpenOld(f)
           => PathKept(f)]_sessionsVars
  BY MigrationStep
<1> QED
  BY <1>1, SessionsStaySound, PTL DEF MigrationKeepsContext

-----------------------------------------------------------------------------
(* What a fork keeps *)

LEMMA LabelsAreCutOff ==
  ASSUME NEW n, NEW t, Tree(t, n), LabelsLast(t), NEW way, way = NoLabels(t)
  PROVE  \E m \in 0..Len(t) :
           /\ way = SubSeq(t, 1, m)
           /\ \A i \in 1..m : t[i].type # "label"
           /\ \A i \in (m + 1)..Len(t) : t[i].type = "label"
<1>1. PICK l, P : l = Len(t) /\ P = {i \in DOMAIN t : t[i].type # "label"}
  OBVIOUS
<1>2. /\ t \in Seq(Items) /\ l \in Nat /\ DOMAIN t = 1..l /\ P \in SUBSET (1..l)
      /\ P = {i \in 1..l : t[i].type # "label"}
  BY <1>1 DEF Tree
<1>3. \A i, j \in 1..l : i < j /\ t[i].type = "label" => t[j].type = "label"
  BY <1>2 DEF LabelsLast
<1>4. \E m \in 0..l : P = 1..m
  <2>1. CASE P = {}
    <3>1. 1..0 = {} /\ 0 \in 0..l
      BY <1>2
    <3> QED BY <2>1, <3>1
  <2>2. CASE P # {}
    <3>1. PICK m \in P : \A j \in P : j <= m
      BY <1>2, <2>2, GreatestExists
    <3>2. m \in 1..l /\ t[m].type # "label"
      BY <1>2
    <3>3. ASSUME NEW i \in 1..m PROVE i \in P
      <4>1. i \in 1..l /\ (i = m \/ i < m)
        BY <1>2, <3>2
      <4>2. t[i].type # "label"
        BY <1>3, <3>2, <4>1
      <4> QED BY <1>2, <4>1, <4>2
    <3>4. \A i \in P : i \in 1..m
      BY <1>2, <3>1, <3>2
    <3>5. P = 1..m /\ m \in 0..l
      BY <1>2, <3>2, <3>3, <3>4
    <3> QED BY <3>5
  <2> QED BY <2>1, <2>2
<1>5. PICK m \in 0..l : P = 1..m
  BY <1>4
<1>6. PICK r : r = SubSeq(t, 1, m)
  OBVIOUS
<1>7. r \in Seq(Items) /\ Len(r) = m /\ \A i \in 1..m : t[i] = r[i]
  BY <1>1, <1>2, <1>6
<1>8. way = r
  <2>1. way = Picked(t, P)
    BY <1>1 DEF NoLabels
  <2>2. Picked(t, P) = Picked(r, P)
    <3>1. \A i \in P : t[i] = r[i]
      BY <1>5, <1>7
    <3> QED BY <1>2, <3>1, PickedSame
  <2>3. P = 1..Len(r)
    BY <1>5, <1>7
  <2>4. Picked(r, P) = r
    BY <1>7, <2>3, PickedAll
  <2> QED BY <2>1, <2>2, <2>4
<1>9. ASSUME NEW i \in (m + 1)..l PROVE t[i].type = "label"
  <2>1. i \in 1..l /\ i \notin 1..m
    BY <1>2
  <2> QED BY <1>2, <1>5, <2>1
<1>10. \A i \in 1..m : t[i].type # "label"
  BY <1>2, <1>5
<1> QED
  BY <1>1, <1>6, <1>8, <1>9, <1>10

\* The entries of p below those of q are labels.
LabelsBelow(q, p) ==
  /\ q \in Seq(Items) /\ p \in Seq(Items) /\ Len(q) <= Len(p)
  /\ \A i \in 1..Len(q) : p[i] = q[i]
  /\ \A i \in (Len(q) + 1)..Len(p) : p[i].type = "label"

LEMMA BetweenLabels ==
  ASSUME NEW q, NEW p, LabelsBelow(q, p), NEW i \in 1..(Len(q) + 1)
  PROVE  Between(p, i, Len(p)) = Between(q, i, Len(q))
<1>1. PICK m, l : m = Len(q) /\ l = Len(p)
  OBVIOUS
<1>2. /\ q \in Seq(Items) /\ p \in Seq(Items) /\ m \in Nat /\ l \in Nat /\ m <= l
      /\ (\A k \in 1..m : p[k] = q[k]) /\ \A k \in (m + 1)..l : p[k].type = "label"
  BY <1>1 DEF LabelsBelow
<1>3. l \in 0..Len(p) /\ i \in 1..(l + 1) /\ m \in (i - 1)..l /\ i \in Nat \ {0}
  BY <1>1, <1>2
<1>4. /\ Between(p, i, l) = Between(p, i, m) \o Between(p, m + 1, l)
      /\ Between(p, i, m) \in Seq(Items)
  <2>1. PICK j : j = m + 1
    OBVIOUS
  <2>2. Cut(p, i, m, j, l)
    BY <1>1, <1>2, <1>3, <2>1 DEF Cut
  <2>3. /\ Between(p, i, l) = Between(p, i, m) \o Between(p, j, l)
        /\ Between(p, i, m) \in Seq(Items)
    BY <2>2, BetweenCut
  <2> QED BY <2>1, <2>3
<1>5. Between(p, i, m) = Between(q, i, m)
  BY <1>1, <1>2, <1>3, BetweenOnly
<1>6. PICK u : u = SubSeq(p, m + 1, l)
  OBVIOUS
<1>7. u \in Seq(Items) /\ Len(u) = l - m /\ \A k \in 1..(l - m) : u[k] = p[m + k]
  BY <1>1, <1>2, <1>6
<1>8. ASSUME NEW k \in 1..Len(u) PROVE ~IsMessage(u[k])
  <2>1. PICK j : j = m + k
    OBVIOUS
  <2>2. k \in 1..(l - m) /\ j \in (m + 1)..l
    BY <1>2, <1>7, <2>1
  <2>3. u[k] = p[j] /\ p[j].type = "label"
    BY <1>2, <1>7, <2>1, <2>2
  <2> QED BY <2>3 DEF IsMessage
<1>9. Between(p, m + 1, l) = <<>>
  BY <1>6, <1>7, <1>8, MessagesAre DEF Between
<1>10. PICK v : v = Between(p, i, m)
  OBVIOUS
<1>11. v \o <<>> = v
  BY <1>4, <1>10
<1> QED
  BY <1>1, <1>4, <1>5, <1>9, <1>10, <1>11

\* Labels at the end of a path change nothing of what the model is sent.
LEMMA ContextOfLabelled ==
  ASSUME NEW q, NEW p, LabelsBelow(q, p)
  PROVE  ContextOf(p) = ContextOf(q)
<1>1. PICK m, l, c, d : m = Len(q) /\ l = Len(p) /\ c = LastCompaction(q) /\ d = LastCompaction(p)
  OBVIOUS
<1>2. /\ q \in Seq(Items) /\ p \in Seq(Items) /\ m \in Nat /\ l \in Nat /\ m <= l
      /\ (\A k \in 1..m : p[k] = q[k]) /\ \A k \in (m + 1)..l : p[k].type = "label"
  BY <1>1 DEF LabelsBelow
<1>3. /\ c \in 0..m /\ (c # 0 => q[c].type = "compaction")
      /\ \A j \in 1..m : q[j].type = "compaction" => j <= c
  BY <1>1, <1>2, LastCompactionIs
<1>4. /\ d \in 0..l /\ (d # 0 => p[d].type = "compaction")
      /\ \A j \in 1..l : p[j].type = "compaction" => j <= d
  BY <1>1, <1>2, LastCompactionIs
<1>5. c = d
  <2>1. d \in 0..m
    <3>1. d \notin (m + 1)..l
      <4> SUFFICES ASSUME d \in (m + 1)..l PROVE FALSE
        OBVIOUS
      <4>1. p[d].type = "label" /\ d # 0
        BY <1>2
      <4> QED BY <1>4, <4>1
    <3> QED BY <1>2, <1>4, <3>1
  <2>2. d <= c
    <3>1. CASE d = 0
      BY <1>3, <3>1
    <3>2. CASE d # 0
      <4>1. d \in 1..m
        BY <2>1, <3>2
      <4>2. q[d].type = "compaction"
        BY <1>2, <1>4, <3>2, <4>1
      <4> QED BY <1>3, <4>1, <4>2
    <3> QED BY <3>1, <3>2
  <2>3. c <= d
    <3>1. CASE c = 0
      BY <1>4, <3>1
    <3>2. CASE c # 0
      <4>1. c \in 1..m /\ c \in 1..l
        BY <1>2, <1>3, <3>2
      <4>2. p[c].type = "compaction"
        BY <1>2, <1>3, <3>2, <4>1
      <4> QED BY <1>4, <4>1, <4>2
    <3> QED BY <3>1, <3>2
  <2> QED BY <1>3, <1>4, <2>2, <2>3
<1>6. CASE c = 0
  <2>1. ContextOf(p) = MessagesOf(p) /\ ContextOf(q) = MessagesOf(q)
    BY <1>1, <1>5, <1>6, ContextIs
  <2>2. SubSeq(p, 1, l) = p /\ SubSeq(q, 1, m) = q
    BY <1>1, <1>2
  <2>3. 1 \in 1..(Len(q) + 1)
    BY <1>1, <1>2
  <2>4. Between(p, 1, Len(p)) = Between(q, 1, Len(q))
    BY <2>3, BetweenLabels
  <2> QED BY <1>1, <2>1, <2>2, <2>4 DEF Between
<1>7. CASE c # 0
  <2>1. c \in 1..m /\ c - 1 \in Nat /\ c - 1 <= m /\ c - 1 <= l
    BY <1>2, <1>3, <1>7
  <2>2. p[c] = q[c]
    BY <1>2, <2>1
  <2>3. SubSeq(p, 1, c - 1) = SubSeq(q, 1, c - 1)
    <3>1. PICK u, v, w : u = SubSeq(p, 1, c - 1) /\ v = SubSeq(q, 1, c - 1) /\ w = c - 1
      OBVIOUS
    <3>2. u \in Seq(Items) /\ Len(u) = w /\ \A k \in 1..w : u[k] = p[k]
      BY <1>1, <1>2, <2>1, <3>1
    <3>3. v \in Seq(Items) /\ Len(v) = w /\ \A k \in 1..w : v[k] = q[k]
      BY <1>1, <1>2, <2>1, <3>1
    <3>4. ASSUME NEW k \in 1..w PROVE u[k] = v[k]
      <4>1. k \in 1..m
        BY <1>2, <2>1, <3>1
      <4> QED BY <1>2, <3>2, <3>3, <4>1
    <3>5. u = v
      BY <3>2, <3>3, <3>4
    <3> QED BY <3>1, <3>5
  <2>4. PICK k : k = Position(SubSeq(q, 1, c - 1), q[c].ref)
    OBVIOUS
  <2>5. k = Position(SubSeq(p, 1, c - 1), p[c].ref)
    BY <2>2, <2>3, <2>4
  <2>6. Between(p, c + 1, l) = Between(q, c + 1, m)
    <3>1. c + 1 \in 1..(Len(q) + 1)
      BY <1>1, <1>2, <2>1
    <3> QED BY <1>1, <3>1, BetweenLabels
  <2>7. k # 0 => Between(p, k, c - 1) = Between(q, k, c - 1)
    <3>1. k \in Nat
      <4>1. PICK u, x : u = SubSeq(q, 1, c - 1) /\ x = q[c].ref
        OBVIOUS
      <4>2. CASE x \in IdsOf(u)
        <5>1. u \in Seq(Items)
          BY <1>1, <1>2, <2>1, <4>1
        <5>2. \E j \in DOMAIN u : u[j].id = x
          BY <4>2 DEF IdsOf
        <5>3. k = CHOOSE j \in DOMAIN u : u[j].id = x
          BY <2>4, <4>1, <4>2 DEF Position
        <5> QED BY <5>1, <5>2, <5>3
      <4>3. CASE x \notin IdsOf(u)
        BY <2>4, <4>1, <4>3, PositionNone
      <4> QED BY <4>2, <4>3
    <3> SUFFICES ASSUME k # 0 PROVE Between(p, k, c - 1) = Between(q, k, c - 1)
      OBVIOUS
    <3>2. PICK w : w = c - 1
      OBVIOUS
    <3>3. k \in Nat \ {0} /\ w \in Nat /\ w <= Len(p) /\ w <= Len(q) /\ \A j \in 1..w : p[j] = q[j]
      BY <1>1, <1>2, <2>1, <3>1, <3>2
    <3> QED BY <1>2, <3>2, <3>3, BetweenOnly
  <2>8. CASE k = 0
    <3>1. ContextOf(p) = <<p[c]>> \o <<>> \o Between(p, c + 1, l)
      BY <1>1, <1>5, <1>7, <2>5, <2>8, ContextIs
    <3>2. ContextOf(q) = <<q[c]>> \o <<>> \o Between(q, c + 1, m)
      BY <1>1, <1>5, <1>7, <2>4, <2>8, ContextIs
    <3> QED BY <2>2, <2>6, <3>1, <3>2
  <2>9. CASE k # 0
    <3>1. ContextOf(p) = <<p[c]>> \o Between(p, k, c - 1) \o Between(p, c + 1, l)
      BY <1>1, <1>5, <1>7, <2>5, <2>9, ContextIs
    <3>2. ContextOf(q) = <<q[c]>> \o Between(q, k, c - 1) \o Between(q, c + 1, m)
      BY <1>1, <1>5, <1>7, <2>4, <2>9, ContextIs
    <3> QED BY <2>2, <2>6, <2>7, <2>9, <3>1, <3>2
  <2> QED BY <2>8, <2>9
<1> QED
  BY <1>6, <1>7

\* The labels of entries among which every label is set are those they name.
AllSet(s) ==
  s \in Seq(Items) /\ \A i \in 1..Len(s) : s[i].type = "label" => s[i].set = TRUE

Named(s) == {s[i].ref : i \in {j \in DOMAIN s : s[j].type = "label"}}

LEMMA NamedMore ==
  ASSUME NEW s \in Seq(Items), NEW e \in Items
  PROVE  Named(Append(s, e)) = IF e.type = "label" THEN Named(s) \union {e.ref} ELSE Named(s)
<1>1. PICK n, r : n = Len(s) /\ r = Append(s, e)
  OBVIOUS
<1>2. /\ n \in Nat /\ DOMAIN s = 1..n /\ DOMAIN r = 1..(n + 1) /\ r[n + 1] = e
      /\ \A i \in 1..n : r[i] = s[i]
  BY <1>1
<1>3. 1..(n + 1) = 1..n \union {n + 1} /\ n + 1 \notin 1..n
  BY <1>2
<1>4. Named(s) = {s[i].ref : i \in {j \in 1..n : s[j].type = "label"}}
  BY <1>2 DEF Named
<1>5. Named(r) = {r[i].ref : i \in {j \in 1..(n + 1) : r[j].type = "label"}}
  BY <1>2 DEF Named
<1>6. {j \in 1..(n + 1) : r[j].type = "label"}
        = {j \in 1..n : s[j].type = "label"} \union (IF e.type = "label" THEN {n + 1} ELSE {})
  BY <1>2, <1>3
<1>7. CASE e.type = "label"
  BY <1>1, <1>2, <1>3, <1>4, <1>5, <1>6, <1>7
<1>8. CASE e.type # "label"
  BY <1>1, <1>2, <1>3, <1>4, <1>5, <1>6, <1>8
<1> QED
  BY <1>7, <1>8

LEMMA ElementsAfter ==
  ASSUME NEW L \in Seq(Nat), NEW e \in Items, e.type = "label" => e.set = TRUE
  PROVE  /\ LabelsAfter(L, e) \in Seq(Nat)
         /\ Elements(LabelsAfter(L, e)) =
              IF e.type = "label" THEN Elements(L) \union {e.ref} ELSE Elements(L)
<1>1. LabelsAfter(L, e) \in Seq(Nat)
  BY LabelsAfterAreIds
<1>2. CASE e.type # "label"
  BY <1>1, <1>2 DEF LabelsAfter
<1>3. CASE e.type = "label" /\ \E i \in DOMAIN L : L[i] = e.ref
  <2>1. LabelsAfter(L, e) = L
    BY <1>3 DEF LabelsAfter
  <2>2. e.ref \in Elements(L)
    BY <1>3 DEF Elements
  <2> QED BY <1>1, <1>3, <2>1, <2>2
<1>4. CASE e.type = "label" /\ ~\E i \in DOMAIN L : L[i] = e.ref
  <2>1. PICK x, r, n : x = e.ref /\ r = Append(L, x) /\ n = Len(L)
    OBVIOUS
  <2>2. LabelsAfter(L, e) = r
    BY <1>4, <2>1 DEF LabelsAfter
  <2>3. x \in Nat
    BY <2>1, ItemsAre
  <2>4. /\ n \in Nat /\ DOMAIN L = 1..n /\ DOMAIN r = 1..(n + 1) /\ r[n + 1] = x
        /\ \A i \in 1..n : r[i] = L[i]
    BY <2>1, <2>3
  <2>5. 1..(n + 1) = 1..n \union {n + 1}
    BY <2>4
  <2>6. {r[i] : i \in 1..(n + 1)} = {L[i] : i \in 1..n} \union {x}
    BY <2>4, <2>5
  <2>7. Elements(r) = Elements(L) \union {x}
    BY <2>4, <2>6 DEF Elements
  <2> QED BY <1>1, <1>4, <2>1, <2>2, <2>7
<1> QED
  BY <1>2, <1>3, <1>4

LEMMA LabelsOfSet ==
  ASSUME NEW s, AllSet(s)
  PROVE  Elements(LabelsOf(s)) = Named(s)
<1>1. PICK l, z : l = Len(s) /\ z = <<>>
  OBVIOUS
<1>2. /\ s \in Seq(Items) /\ l \in Nat /\ SubSeq(s, 1, l) = s /\ SubSeq(s, 1, 0) = z
      /\ z \in Seq(Items) /\ Len(z) = 0 /\ DOMAIN z = {}
      /\ \A i \in 1..l : s[i] \in Items /\ (s[i].type = "label" => s[i].set = TRUE)
  BY <1>1 DEF AllSet
<1> DEFINE K == {k \in Nat : k <= l =>
                   Elements(LabelsOf(SubSeq(s, 1, k))) = Named(SubSeq(s, 1, k))}
<1>3. 0 \in K
  <2>1. PICK f : LabelledBy(f, z, Len(z)) /\ LabelsOf(z) = f[Len(z)]
    BY <1>2, LabelsOfIs
  <2>2. LabelsOf(z) = z
    <3>1. 0 \in Nat /\ LabelledBy(f, z, 0)
      BY <1>2, <2>1
    <3>2. f[0] = <<>>
      BY <3>1, LabelledAt
    <3> QED BY <1>1, <1>2, <2>1, <3>2
  <2>3. Elements(z) = {} /\ Named(z) = {}
    BY <1>2 DEF Elements, Named
  <2> QED BY <1>2, <2>2, <2>3
<1>4. ASSUME NEW k \in Nat, k + 1 <= l, NEW p, p = SubSeq(s, 1, k),
             Elements(LabelsOf(p)) = Named(p)
      PROVE  Elements(LabelsOf(SubSeq(s, 1, k + 1))) = Named(SubSeq(s, 1, k + 1))
  <2>1. PICK e : e = s[k + 1]
    OBVIOUS
  <2>2. e \in Items /\ (e.type = "label" => e.set = TRUE)
    <3>1. k + 1 \in 1..l
      BY <1>2, <1>4
    <3> QED BY <1>2, <2>1, <3>1
  <2>3. p \in Seq(Items)
    BY <1>1, <1>2, <1>4
  <2>4. SubSeq(s, 1, k + 1) = Append(p, e)
    BY <1>1, <1>2, <1>4, <2>1, SubMore
  <2>5. LabelsOf(Append(p, e)) = LabelsAfter(LabelsOf(p), e) /\ LabelsOf(p) \in Seq(Nat)
    BY <2>2, <2>3, LabelsOfMore, LabelsAreIds
  <2>6. PICK L : L = LabelsOf(p)
    OBVIOUS
  <2>7. L \in Seq(Nat) /\ Elements(L) = Named(p)
    BY <1>4, <2>5, <2>6
  <2>8. Elements(LabelsAfter(L, e)) =
          IF e.type = "label" THEN Elements(L) \union {e.ref} ELSE Elements(L)
    BY <2>2, <2>7, ElementsAfter
  <2>9. Named(Append(p, e)) =
          IF e.type = "label" THEN Named(p) \union {e.ref} ELSE Named(p)
    BY <2>2, <2>3, NamedMore
  <2> QED BY <2>4, <2>5, <2>6, <2>7, <2>8, <2>9
<1>5. ASSUME NEW k \in K PROVE k + 1 \in K
  <2>1. k \in Nat
    OBVIOUS
  <2>2. PICK p : p = SubSeq(s, 1, k)
    OBVIOUS
  <2>3. k <= l => Elements(LabelsOf(p)) = Named(p)
    BY <2>2
  <2>4. k + 1 <= l => k <= l
    BY <1>2, <2>1
  <2>5. k + 1 <= l =>
          Elements(LabelsOf(SubSeq(s, 1, k + 1))) = Named(SubSeq(s, 1, k + 1))
    BY <1>4, <2>1, <2>2, <2>3, <2>4
  <2> QED BY <2>1, <2>5
<1>6. K \in SUBSET Nat
  OBVIOUS
<1>7. l \in K
  <2> HIDE DEF K
  <2> QED BY <1>2, <1>3, <1>5, <1>6, CountUp
<1>8. Elements(LabelsOf(SubSeq(s, 1, l))) = Named(SubSeq(s, 1, l))
  BY <1>2, <1>7
<1> QED
  BY <1>2, <1>8

\* What a sequence followed by another one holds.
Join(b, s, t, q, m) ==
  /\ q \in Nat /\ m \in Nat
  /\ b \in Seq(Items) /\ Len(b) = q + m /\ DOMAIN b = 1..(q + m)
  /\ \A i \in 1..q : b[i] = s[i]
  /\ \A i \in 1..m : b[q + i] = t[i]

LEMMA JoinIs ==
  ASSUME NEW s \in Seq(Items), NEW t \in Seq(Items)
  PROVE  Join(s \o t, s, t, Len(s), Len(t))
<1>1. /\ Len(s) \in Nat /\ Len(t) \in Nat
      /\ s \o t \in Seq(Items) /\ Len(s \o t) = Len(s) + Len(t)
      /\ \A i \in 1..Len(s) : (s \o t)[i] = s[i]
  OBVIOUS
<1>2. \A i \in 1..Len(t) : (s \o t)[Len(s) + i] = t[i]
  OBVIOUS
<1>3. DOMAIN (s \o t) = 1..(Len(s) + Len(t))
  BY <1>1
<1> QED
  BY <1>1, <1>2, <1>3 DEF Join

\* A branch is one path: its labels are a chain below the last entry.
LEMMA BranchIsChained ==
  ASSUME NEW n \in Nat, NEW way, Tree(way, n), Chained(way), NEW r, NEW L,
         LabelChain(r, L, way, n), NEW b, b = way \o r
  PROVE  /\ Chained(b) /\ b \in Seq(Items)
         /\ LabelsBelow(way, b)
         /\ (\A i \in 1..Len(way) : way[i].type # "label") =>
              AllSet(b) /\ Named(b) = Elements(L)
<1>1. PICK q, m : q = Len(way) /\ m = Len(L)
  OBVIOUS
<1>2. /\ way \in Seq(Items) /\ q \in Nat /\ m \in Nat /\ r \in Seq(Items) /\ Len(r) = m
      /\ DOMAIN L = 1..m
      /\ \A i \in 2..q : way[i].parentId = way[i - 1].id
  BY <1>1 DEF Tree, Chained, LabelChain
<1>3. \A i \in 1..m :
        /\ r[i].type = "label" /\ r[i].set = TRUE /\ r[i].ref = L[i]
        /\ r[i].id = n + i
        /\ r[i].parentId = IF i = 1 THEN LastId(way) ELSE n + i - 1
  BY <1>1 DEF LabelChain
<1>4. /\ b \in Seq(Items) /\ Len(b) = q + m /\ DOMAIN b = 1..(q + m)
      /\ (\A i \in 1..q : b[i] = way[i]) /\ (\A i \in 1..m : b[q + i] = r[i])
  <2>1. Join(way \o r, way, r, Len(way), Len(r))
    BY <1>2, JoinIs
  <2>2. Join(b, way, r, q, m)
    BY <1>1, <1>2, <2>1
  <2> QED BY <2>2 DEF Join
<1>5. \A i \in 1..(q + m) : i \in 1..q \/ \E j \in 1..m : i = q + j
  <2> SUFFICES ASSUME NEW i \in 1..(q + m), i \notin 1..q PROVE \E j \in 1..m : i = q + j
    OBVIOUS
  <2>1. i - q \in 1..m /\ i = q + (i - q)
    BY <1>2
  <2> QED BY <2>1
<1>6. ASSUME NEW i \in 2..(q + m) PROVE b[i].parentId = b[i - 1].id
  <2>1. CASE i \in 1..q
    <3>1. i \in 2..q /\ i - 1 \in 1..q
      BY <1>2, <2>1
    <3> QED BY <1>2, <1>4, <2>1, <3>1
  <2>2. CASE i \notin 1..q
    <3>1. PICK j \in 1..m : i = q + j
      BY <1>5, <2>2
    <3>2. b[i] = r[j]
      BY <1>4, <3>1
    <3>3. CASE j = 1
      <4>1. i - 1 = q /\ q \in 1..q
        BY <1>2, <3>1, <3>3
      <4>2. LastId(way) = way[q].id
        <5>1. way # <<>>
          BY <1>1, <1>2, <4>1
        <5> QED BY <1>1, <5>1 DEF LastId
      <4>3. r[j].parentId = LastId(way)
        BY <1>3, <3>3
      <4> QED BY <1>4, <3>2, <4>1, <4>2, <4>3
    <3>4. CASE j # 1
      <4>1. j - 1 \in 1..m /\ i - 1 = q + (j - 1) /\ n + (j - 1) = n + j - 1
        BY <1>2, <3>1, <3>4
      <4>2. b[i - 1] = r[j - 1]
        BY <1>4, <4>1
      <4>3. r[j].parentId = n + j - 1 /\ r[j - 1].id = n + (j - 1)
        BY <1>3, <3>4, <4>1
      <4> QED BY <3>2, <4>1, <4>2, <4>3
    <3> QED BY <3>3, <3>4
  <2> QED BY <2>1, <2>2
<1>7. Chained(b)
  BY <1>4, <1>6 DEF Chained
<1>8. LabelsBelow(way, b)
  <2>1. ASSUME NEW i \in (q + 1)..(q + m) PROVE b[i].type = "label"
    <3>1. i \in 1..(q + m) /\ i \notin 1..q
      BY <1>2
    <3>2. PICK j \in 1..m : i = q + j
      BY <1>5, <3>1
    <3>3. b[i] = r[j] /\ r[j].type = "label"
      BY <1>3, <1>4, <3>2
    <3> QED BY <3>3
  <2>2. q <= q + m
    BY <1>2
  <2> QED BY <1>1, <1>2, <1>4, <2>1, <2>2 DEF LabelsBelow
<1>9. ASSUME \A i \in 1..q : way[i].type # "label"
      PROVE  AllSet(b) /\ Named(b) = Elements(L)
  <2>1. ASSUME NEW i \in 1..(q + m), i \in 1..q PROVE b[i].type # "label"
    BY <1>4, <1>9, <2>1
  <2>2. ASSUME NEW i \in 1..(q + m), i \notin 1..q
        PROVE  \E j \in 1..m : b[i].set = TRUE /\ b[i].ref = L[j]
    <3>1. PICK j \in 1..m : i = q + j
      BY <1>5, <2>2
    <3>2. b[i] = r[j] /\ r[j].set = TRUE /\ r[j].ref = L[j]
      BY <1>3, <1>4, <3>1
    <3> QED BY <3>2
  <2>3. AllSet(b)
    <3>1. \A i \in 1..(q + m) : b[i].type = "label" => b[i].set = TRUE
      BY <2>1, <2>2
    <3> QED BY <1>4, <3>1 DEF AllSet
  <2>4. ASSUME NEW j \in 1..m
        PROVE  \E i \in 1..(q + m) : b[i].type = "label" /\ b[i].ref = L[j]
    <3>1. q + j \in 1..(q + m)
      BY <1>2
    <3>2. b[q + j] = r[j] /\ r[j].type = "label" /\ r[j].ref = L[j]
      BY <1>3, <1>4
    <3> QED BY <3>1, <3>2
  <2>5. ASSUME NEW i \in 1..(q + m), b[i].type = "label" PROVE \E j \in 1..m : b[i].ref = L[j]
    BY <2>1, <2>2, <2>5
  <2>6. PICK N, E : N = Named(b) /\ E = Elements(L)
    OBVIOUS
  <2>7. N = {b[i].ref : i \in {k \in 1..(q + m) : b[k].type = "label"}}
        /\ E = {L[j] : j \in 1..m}
    BY <1>2, <1>4, <2>6 DEF Named, Elements
  <2>8. ASSUME NEW x \in N PROVE x \in E
    <3>1. PICK i \in 1..(q + m) : b[i].type = "label" /\ x = b[i].ref
      BY <2>7, <2>8
    <3> QED BY <2>5, <2>7, <3>1
  <2>9. ASSUME NEW x \in E PROVE x \in N
    <3>1. PICK j \in 1..m : x = L[j]
      BY <2>7, <2>9
    <3>2. PICK i \in 1..(q + m) : b[i].type = "label" /\ b[i].ref = L[j]
      BY <2>4
    <3> QED BY <2>7, <3>1, <3>2
  <2>10. N = E
    BY <2>8, <2>9
  <2> QED BY <2>3, <2>6, <2>10
<1> QED
  BY <1>1, <1>4, <1>7, <1>8, <1>9

BranchOf(b, s, way) ==
  \E r, L : /\ b = way \o r /\ LabelChain(r, L, way, drawn)
            /\ Elements(L) = {x \in Elements(LabelsOf(s)) : x \in IdsOf(way)}

LEMMA BranchedFrom ==
  ASSUME drawn \in Nat, NEW s, Tree(s, drawn), NEW id
  PROVE  BranchOf(Branched(s, id), s, NoLabels(PathTo(s, id)))
<1>1. PICK way : way = NoLabels(PathTo(s, id))
  OBVIOUS
<1>2. \E r, L : /\ Branched(s, id) = way \o r /\ LabelChain(r, L, way, drawn)
                /\ Elements(L) = {x \in Elements(LabelsOf(s)) : x \in IdsOf(way)}
  BY <1>1, BranchedIs
<1>3. BranchOf(Branched(s, id), s, way)
  BY <1>2 DEF BranchOf
<1> QED
  BY <1>1, <1>3

LEMMA PathOfNone ==
  ASSUME NEW z, z = <<>>
  PROVE  PathTo(z, LastId(z)) = z
<1>1. Tree(z, 0) /\ IdsOf(z) = {}
  BY NoneIsTree DEF IdsOf
<1>2. PICK f : f[0] = <<>> /\ \A id : PathTo(z, id) = f[Position(z, id)]
  BY <1>1, PathsAre
<1>3. PICK id : id = LastId(z)
  OBVIOUS
<1>4. Position(z, id) = 0
  BY <1>1, PositionNone
<1> QED
  BY <1>2, <1>3, <1>4

LEMMA ForkServes ==
  ASSUME NEW id, Forked(id), sessionFile' # sessionFile, open',
         NEW b, b = Branched(Tail(Loaded(disk[sessionFile])), id)
  PROVE  fileEntries' = b /\ leafId' = LastId(b) /\ labels' = LabelsOf(b)
BY DEF Forked, Serving, ThrownOrEnded, Forgotten, memory

LEMMA ForkStep ==
  ASSUME SessionsInv, NEW id, Forked(id), sessionFile' # sessionFile, open',
         LabelsLast(PathTo(Tail(Loaded(disk[sessionFile])), id))
  PROVE  KeepsContext(id)
<1>1. PICK s, t, way, n : /\ s = Tail(Loaded(disk[sessionFile])) /\ t = PathTo(s, id)
                          /\ way = NoLabels(t) /\ n = drawn
  OBVIOUS
<1>2. Loaded(disk[sessionFile]) # <<>> /\ id \in IdsOf(s) /\ open
  BY <1>1 DEF Forked
<1>3. n \in Nat /\ sessionFile \in 1..named /\ ~Old(disk[sessionFile])
  BY <1>1, <1>2 DEF SessionsInv, Disk, Tables, Mind, Memory
<1>4. Tree(s, n)
  BY <1>1, <1>2, <1>3, ReadIsTree
<1>5. Tree(t, n) /\ Chained(t)
  BY <1>1, <1>2, <1>3, <1>4, PathIsTree, PathIsChain
<1>6. PICK m \in 0..Len(t) :
        /\ way = SubSeq(t, 1, m)
        /\ \A i \in 1..m : t[i].type # "label"
        /\ \A i \in (m + 1)..Len(t) : t[i].type = "label"
  BY <1>1, <1>5, LabelsAreCutOff
<1>7. /\ Tree(way, n) /\ Len(way) = m /\ m \in Nat /\ t \in Seq(Items) /\ way \in Seq(Items)
      /\ \A i \in 1..m : way[i] = t[i]
  <2>1. Tree(way, n) /\ Len(way) = m /\ \A i \in 1..m : way[i] = t[i]
    BY <1>5, <1>6, PrefixIsTree
  <2> QED BY <1>5, <2>1 DEF Tree
<1>8. Chained(way)
  <2> SUFFICES ASSUME NEW i \in 2..m PROVE way[i].parentId = way[i - 1].id
    BY <1>7 DEF Chained
  <2>1. i \in 2..Len(t) /\ i \in 1..m /\ i - 1 \in 1..m
    BY <1>7
  <2> QED BY <1>5, <1>7, <2>1 DEF Chained
<1>9. PICK b : b = Branched(s, id)
  OBVIOUS
<1>10. PICK r, L : /\ b = way \o r /\ LabelChain(r, L, way, n)
                   /\ Elements(L) = {x \in Elements(LabelsOf(s)) : x \in IdsOf(way)}
  <2>1. drawn \in Nat /\ Tree(s, drawn) /\ way = NoLabels(PathTo(s, id))
    BY <1>1, <1>3, <1>4
  <2>2. PICK r, L : /\ Branched(s, id) = way \o r /\ LabelChain(r, L, way, drawn)
                    /\ Elements(L) = {x \in Elements(LabelsOf(s)) : x \in IdsOf(way)}
    BY <2>1, BranchedFrom DEF BranchOf
  <2>3. b = way \o r /\ LabelChain(r, L, way, n)
    BY <1>1, <1>9, <2>2
  <2> QED BY <2>2, <2>3
<1>11. /\ Chained(b) /\ b \in Seq(Items) /\ LabelsBelow(way, b)
       /\ AllSet(b) /\ Named(b) = Elements(L)
  <2>1. \A i \in 1..Len(way) : way[i].type # "label"
    BY <1>6, <1>7
  <2>2. b = way \o r /\ LabelChain(r, L, way, n) /\ Tree(way, n) /\ n \in Nat
    BY <1>3, <1>7, <1>10
  <2> QED BY <1>8, <2>1, <2>2, BranchIsChained
<1>12. Elements(LabelsOf(b)) = Elements(L)
  BY <1>11, LabelsOfSet
<1>13. LabelsBelow(way, t)
  BY <1>6, <1>7 DEF LabelsBelow
<1>14. ContextOf(b) = ContextOf(t)
  <2>1. ContextOf(b) = ContextOf(way)
    BY <1>11, ContextOfLabelled
  <2>2. ContextOf(t) = ContextOf(way)
    BY <1>13, ContextOfLabelled
  <2> QED BY <2>1, <2>2
<1>15. PathTo(b, LastId(b)) = b
  <2>1. CASE b = <<>>
    BY <2>1, PathOfNone
  <2>2. CASE b # <<>>
    <3>1. PICK k : k = Cardinality({i \in DOMAIN b : b[i].id > drawn})
      OBVIOUS
    <3>2. Tree(b, drawn + k)
      BY <1>1, <1>3, <1>4, <1>9, <3>1, BranchedIsTree
    <3> QED BY <1>11, <2>2, <3>2, PathOfChain
  <2> QED BY <2>1, <2>2
<1>16. fileEntries' = b /\ leafId' = LastId(b) /\ labels' = LabelsOf(b)
  BY <1>1, <1>9, ForkServes
<1>17. NewContext = ContextOf(t)
  <2>1. PICK s1, id1 : s1 = fileEntries' /\ id1 = leafId'
    OBVIOUS
  <2>2. PathTo(s1, id1) = b
    BY <1>15, <1>16, <2>1
  <2> QED BY <1>14, <2>1, <2>2 DEF NewContext
<1>18. {labels'[i] : i \in DOMAIN labels'} = {x \in Elements(LabelsOf(s)) : x \in IdsOf(way)}
  <2>1. PICK L1 : L1 = labels'
    OBVIOUS
  <2>2. Elements(L1) = {x \in Elements(LabelsOf(s)) : x \in IdsOf(way)}
    BY <1>10, <1>12, <1>16, <2>1
  <2> QED BY <2>1, <2>2 DEF Elements
<1> QED
  BY <1>1, <1>17, <1>18 DEF KeepsContext, Elements

\* A fork sends the model what the session sent at the entry it is made at, and
\* keeps the labels of the path, when labels are only at the end of it, for any
\* session (createBranchedSession).
THEOREM ForksKeepTheContext == SessionsSpec => ForkKeepsContext
<1>1. SessionsInv =>
        [\A id \in IdsOf(fileEntries) :
           sessionFile' # sessionFile /\ open' /\ Forked(id)
             /\ LabelsLast(PathTo(Tail(Loaded(disk[sessionFile])), id))
           => KeepsContext(id)]_sessionsVars
  BY ForkStep
<1> QED
  BY <1>1, SessionsStaySound, PTL DEF ForkKeepsContext

=============================================================================
