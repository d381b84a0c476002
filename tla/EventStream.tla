---------------------------- MODULE EventStream ----------------------------
(***************************************************************************)
(* The stream that carries provider and agent events from a producer to    *)
(* the consumers that iterate over it (ai/src/utils/event-stream.ts).      *)
(*                                                                         *)
(* Events are numbered in the order in which the stream takes them.  A     *)
(* consumer is one iterator: it asks for the next event, finds one in the  *)
(* queue, or leaves a waiter.  A waiter that is called hands its value     *)
(* over at once, but the consumer resumes in a later microtask: `hand`     *)
(* holds the value meanwhile.                                              *)
(*                                                                         *)
(* The producer (a provider, or agentLoop) pushes events, marks completion *)
(* with an event for which isComplete holds, and ends the stream.          *)
(*                                                                         *)
(* A definition that nothing uses, just before another of the same         *)
(* parameters, is a faulty variant of it: what the properties must reject. *)
(***************************************************************************)
EXTENDS Naturals, Sequences, FiniteSets

CONSTANTS
  Consumers,   \* the iterators of the stream
  MaxEvents    \* bound: events the producer pushes

ASSUME EventsAssumption == MaxEvents \in Nat

Unresolved == 0              \* finalResultPromise is pending
Given == MaxEvents + 1       \* ... was resolved by end(result)
Nothing == 0                 \* no value in hand
EndOfStream == MaxEvents + 1 \* { done: true } in hand

VARIABLES
  queue,    \* this.queue
  waiting,  \* this.waiting
  done,     \* this.done
  result,   \* the event the final result was extracted from
  at,       \* what each consumer is doing
  hand,     \* the value each consumer was woken with
  last,     \* the last event each consumer was given
  sent,     \* events taken by the stream
  taken,    \* the events each consumer was given
  ended     \* TRUE once end() was called

streamVars == <<queue, waiting, done, result>>
consumerVars == <<at, hand, last, taken>>
vars == <<streamVars, consumerVars, sent, ended>>

Places == {"asking", "waiting", "woken", "returned"}

TypeOK ==
  /\ queue \in Seq(1..MaxEvents)
  /\ waiting \in Seq(Consumers)
  /\ done \in BOOLEAN
  /\ result \in Nat
  /\ at \in [Consumers -> Places]
  /\ hand \in [Consumers -> 0..(MaxEvents + 1)]
  /\ last \in [Consumers -> 0..MaxEvents]
  /\ taken \in [Consumers -> SUBSET Nat]
  /\ sent \in 0..MaxEvents
  /\ ended \in BOOLEAN

Init ==
  /\ queue = <<>>
  /\ waiting = <<>>
  /\ done = FALSE
  /\ result = Unresolved
  /\ at = [c \in Consumers |-> "asking"]
  /\ hand = [c \in Consumers |-> Nothing]
  /\ last = [c \in Consumers |-> 0]
  /\ taken = [c \in Consumers |-> {}]
  /\ sent = 0
  /\ ended = FALSE

Resolve(r) == result' = IF result = Unresolved THEN r ELSE result

\* Consumer c is handed the value v and will resume with it.
Wake(c, v) ==
  /\ at' = [at EXCEPT ![c] = "woken"]
  /\ hand' = [hand EXCEPT ![c] = v]

\* The longest waiting consumer gets the event, or else it is queued.
HandOverNewest(e) ==
  \/ /\ waiting # <<>>
     /\ Wake(Head(waiting), e)
     /\ waiting' = Tail(waiting)
     /\ UNCHANGED queue
  \/ /\ waiting = <<>>
     /\ queue' = <<e>> \o queue
     /\ UNCHANGED <<waiting, at, hand>>

HandOver(e) ==
  \/ /\ waiting # <<>>
     /\ Wake(Head(waiting), e)
     /\ waiting' = Tail(waiting)
     /\ UNCHANGED queue
  \/ /\ waiting = <<>>
     /\ queue' = Append(queue, e)
     /\ UNCHANGED <<waiting, at, hand>>

Push ==
  /\ sent < MaxEvents
  /\ ~done
  /\ sent' = sent + 1
  /\ HandOver(sent')
  /\ UNCHANGED <<done, result, last, taken, ended>>

\* push() of an event for which isComplete holds.
PushComplete ==
  /\ sent < MaxEvents
  /\ ~done
  /\ sent' = sent + 1
  /\ done' = TRUE
  /\ Resolve(sent')
  /\ HandOver(sent')
  /\ UNCHANGED <<last, taken, ended>>

\* end(), with or without a result; every waiter learns of it.
EndUnseen ==
  /\ ~ended
  /\ ended' = TRUE
  /\ done' = TRUE
  /\ \/ Resolve(Given)
     \/ UNCHANGED result
  /\ UNCHANGED <<queue, waiting, consumerVars, sent>>

End ==
  /\ ~ended
  /\ ended' = TRUE
  /\ done' = TRUE
  /\ \/ Resolve(Given)
     \/ UNCHANGED result
  /\ waiting' = <<>>
  /\ at' = [c \in Consumers |->
              IF at[c] = "waiting" THEN "woken" ELSE at[c]]
  /\ hand' = [c \in Consumers |->
                IF at[c] = "waiting" THEN EndOfStream ELSE hand[c]]
  /\ UNCHANGED <<queue, last, taken, sent>>

\* The iterator yields event e to consumer c, who then asks for the next one.
Yield(c, e) ==
  /\ at' = [at EXCEPT ![c] = "asking"]
  /\ last' = [last EXCEPT ![c] = e]
  /\ taken' = [taken EXCEPT ![c] = @ \union {e}]

TakeQueued(c) ==
  /\ at[c] = "asking"
  /\ queue # <<>>
  /\ Yield(c, Head(queue))
  /\ queue' = Tail(queue)
  /\ UNCHANGED <<waiting, done, result, hand, sent, ended>>

Wait(c) ==
  /\ at[c] = "asking"
  /\ queue = <<>>
  /\ ~done
  /\ at' = [at EXCEPT ![c] = "waiting"]
  /\ waiting' = Append(waiting, c)
  /\ UNCHANGED <<queue, done, result, hand, last, taken, sent, ended>>

Resume(c) ==
  /\ at[c] = "woken"
  /\ hand[c] # EndOfStream
  /\ Yield(c, hand[c])
  /\ hand' = [hand EXCEPT ![c] = Nothing]
  /\ UNCHANGED <<streamVars, sent, ended>>

\* The iteration is over: the queue is drained, or the waiter was told.
Return(c) ==
  /\ \/ at[c] = "asking" /\ queue = <<>> /\ done
     \/ at[c] = "woken" /\ hand[c] = EndOfStream
  /\ at' = [at EXCEPT ![c] = "returned"]
  /\ hand' = [hand EXCEPT ![c] = Nothing]
  /\ UNCHANGED <<streamVars, last, taken, sent, ended>>

\* The consumer breaks out of its loop while it holds an event.
Leave(c) ==
  /\ at[c] = "asking"
  /\ last[c] # 0
  /\ at' = [at EXCEPT ![c] = "returned"]
  /\ UNCHANGED <<streamVars, hand, last, taken, sent, ended>>

Consume(c) == TakeQueued(c) \/ Wait(c) \/ Resume(c) \/ Return(c)

Next ==
  \/ Push \/ PushComplete \/ End
  \/ \E c \in Consumers : Consume(c) \/ Leave(c)

Spec == Init /\ [][Next]_vars

\* An iterator that can go on does; the producer owes nothing.
FairSpec == Spec /\ \A c \in Consumers : WF_vars(Consume(c))

-----------------------------------------------------------------------------
(* Properties *)

InHand == {c \in Consumers : at[c] = "woken" /\ hand[c] # EndOfStream}

Queued == {queue[i] : i \in 1..Len(queue)}

\* An event the stream took is in one place: queued, in the hand of one
\* consumer, or given to one consumer.  None is lost, none is seen twice, and
\* nobody waits while there is one to be had.
ExactlyOnce ==
  /\ queue # <<>> => waiting = <<>>
  /\ 1..sent = Queued \union {hand[c] : c \in InHand}
                 \union UNION {taken[c] : c \in Consumers}
  /\ \A c \in InHand : hand[c] \notin Queued
  /\ \A c \in InHand, d \in Consumers :
       /\ hand[c] \notin taken[d]
       /\ d \in InHand /\ c # d => hand[c] # hand[d]
  /\ \A c, d \in Consumers :
       /\ taken[c] \intersect Queued = {}
       /\ c # d => taken[c] \intersect taken[d] = {}

\* Each consumer sees events in the order they were pushed, although one may
\* be woken late and another take newer events from the queue meanwhile.
InOrder ==
  \A c \in Consumers :
    /\ \A i \in 1..Len(queue) : last[c] < queue[i]
    /\ c \in InHand =>
         last[c] < hand[c] /\ \A i \in 1..Len(queue) : hand[c] < queue[i]

\* The event the final result comes from is the last one any consumer gets.
ResultIsLast ==
  result \notin {Unresolved, Given} => done /\ result = sent

\* What the consumers of a stream get: every event once, in order, and the
\* result with the last of them (push, end and the iterator).
Delivery == ExactlyOnce /\ InOrder /\ ResultIsLast

Finished == \A c \in Consumers : at[c] = "returned"

\* When end() was called every iteration ends, however many wait.  After the
\* completing event every iterator ends that is not asleep when it arrives, or
\* that this event wakes, although end() may never be called (push calls one
\* waiter, and an iterator that finds the queue empty looks at done).
IterationsEnd ==
  /\ ended ~> Finished
  /\ \A c \in Consumers : done /\ at[c] # "waiting" ~> at[c] = "returned"
=============================================================================
