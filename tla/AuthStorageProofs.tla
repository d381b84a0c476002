-------------------------- MODULE AuthStorageProofs --------------------------
(***************************************************************************)
(* Proofs about AuthStorage, for any processes, providers and bounds: no   *)
(* credential is overwritten by what a process read before, and, as long   *)
(* as no lock and no answer is lost, no refresh token is presented a       *)
(* second time and the one in the file is taken.                           *)
(*                                                                         *)
(* The invariant follows who may write.  As long as nothing was harmed, a  *)
(* process that writes a change, or that refreshes and still has its lock, *)
(* is the holder of the lock, and only in one of the two ways (Locking);   *)
(* so nobody else writes, and what it has read is what the file holds      *)
(* (Pending).                                                              *)
(*                                                                         *)
(* For the tokens: one that is set and waits for the lock is nowhere else  *)
(* (Fresh), so nobody presents it before it is written.  Who holds the     *)
(* lock alone writes or asks (Alone); so what was read with the lock is    *)
(* still good for every other provider when the answer comes               *)
(* (RequestIsGood).                                                        *)
(***************************************************************************)
EXTENDS AuthStorage, TLAPS

Credentials == [Providers -> Nat]
Files == [state : {"absent", "good", "empty", "broken"}, content : Credentials]
Places == {"start", "idle", "create", "lock", "write"}
Jobs ==
  [kind : {"none", "load", "ensure", "change", "refresh"}, provider : Providers,
   value : Nat, next : Credentials]
Calls ==
  [at : {"idle", "locking", "asking", "served", "refused", "saving"},
   provider : Providers, current : Credentials, answer : Nat,
   hold : {"kept", "lost", "known"}]

Types ==
  /\ file \in Files
  /\ lock \in Processes \union {Nobody}
  /\ data \in [Processes -> Credentials]
  /\ pc \in [Processes -> Places]
  /\ job \in [Processes -> Jobs]
  /\ call \in [Processes -> Calls]
  /\ issued \in Nat
  /\ latest \in Credentials
  /\ harmed \in BOOLEAN

\* withLock and getApiKey of one process meet only when a refresh is saved.
Steps(p) ==
  /\ call[p].at \in {"idle", "locking"} => call[p].hold = "kept"
  /\ call[p].at = "saving" <=> pc[p] = "write" /\ job[p].kind = "refresh"
  /\ call[p].at = "saving" => call[p].hold # "known"
  /\ pc[p] = "create" => job[p].kind \in {"load", "ensure", "change"}
  /\ pc[p] = "lock" => job[p].kind \in {"load", "change"}
  /\ pc[p] = "write" => job[p].kind \in {"change", "refresh"}

Shape == Types /\ \A p \in Processes : Steps(p)

Changing(p) == pc[p] = "write" /\ job[p].kind = "change"
Refreshing(p) ==
  call[p].at \in {"asking", "served", "refused", "saving"} /\ call[p].hold = "kept"

Locking ==
  \A p \in Processes :
    /\ Changing(p) \/ Refreshing(p) => lock = p
    /\ ~(Changing(p) /\ Refreshing(p))

PendingAt(p) ==
  /\ pc[p] = "write" /\ (Changing(p) \/ Refreshing(p)) =>
       job[p].next = [latest EXCEPT ![job[p].provider] = job[p].value]
  /\ Refreshing(p) /\ call[p].at # "saving" => call[p].current = latest

Whole ==
  /\ file.state \in {"absent", "good"}
  /\ Content = latest

Safe == ~harmed => Whole /\ Locking /\ \A p \in Processes : PendingAt(p)

IInv == Shape /\ Safe

-----------------------------------------------------------------------------
(* Typed values *)

LEMMA NoneType == None \in Credentials /\ NoProvider \in Providers
<1>1. None \in Credentials
  BY DEF None, Credentials
<1>2. NoProvider \in Providers
  <2>1. Providers # {}
    BY AuthBounds
  <2>2. \E v \in Providers : TRUE
    BY <2>1, Zenon
  <2> QED
    BY <2>2 DEF NoProvider
<1> QED
  BY <1>1, <1>2

LEMMA JobType ==
  ASSUME NEW kind \in {"none", "load", "ensure", "change", "refresh"},
         NEW v \in Providers, NEW n \in Nat, NEW c \in Credentials
  PROVE  Job(kind, v, n, c) \in Jobs /\ Job(kind, v, n, c).kind = kind
BY DEF Job, Jobs

LEMMA JobsType ==
  /\ NoJob \in Jobs /\ NoJob.kind = "none"
  /\ Load \in Jobs /\ Load.kind = "load"
  /\ EnsureFile \in Jobs /\ EnsureFile.kind = "ensure"
BY NoneType, JobType DEF NoJob, Load, EnsureFile

LEMMA CallType ==
  /\ \A v \in Providers :
       /\ Call("locking", v) \in Calls
       /\ Call("locking", v).at = "locking" /\ Call("locking", v).hold = "kept"
  /\ NoCall \in Calls /\ NoCall.at = "idle" /\ NoCall.hold = "kept"
BY NoneType DEF Call, NoCall, Calls

LEMMA ContentType ==
  ASSUME Types
  PROVE  Content \in Credentials
BY NoneType DEF Content, Types, Files

-----------------------------------------------------------------------------
(* How an operation begins and ends *)

LEMMA BeginStep ==
  ASSUME Types, NEW p \in Processes, NEW what \in Jobs, Begin(p, what)
  PROVE  /\ job' = [job EXCEPT ![p] = what] /\ job' \in [Processes -> Jobs]
         /\ pc' \in [Processes -> Places] /\ pc'[p] \in {"create", "lock"}
         /\ \A q \in Processes : q # p => pc'[q] = pc[q]
BY DEF Begin, Types, Places

LEMMA EndsStep ==
  ASSUME Types, NEW p \in Processes, Ends(p)
  PROVE  /\ job' = [job EXCEPT ![p] = NoJob] /\ job' \in [Processes -> Jobs]
         /\ pc' = [pc EXCEPT ![p] = "idle"] /\ pc' \in [Processes -> Places]
BY JobsType DEF Ends, Types, Places

LEMMA ReleaseStep ==
  ASSUME Types, NEW p \in Processes, NEW held \in BOOLEAN, Release(p, held)
  PROVE  lock' \in Processes \union {Nobody}
BY DEF Release, Types

LEMMA FailsStep ==
  ASSUME Types, NEW p \in Processes, Fails(p)
  PROVE  Ends(p) /\ data' = data
BY DEF Fails

LEMMA RescueStep ==
  ASSUME Types, NEW p \in Processes, NEW held \in BOOLEAN, Rescue(p, held)
  PROVE  /\ job' = [job EXCEPT ![p] = Load] /\ job' \in [Processes -> Jobs]
         /\ pc' \in [Processes -> Places] /\ pc'[p] \in {"create", "lock"}
         /\ \A q \in Processes : q # p => pc'[q] = pc[q]
         /\ call' = [call EXCEPT ![p] = NoCall] /\ call' \in [Processes -> Calls]
         /\ lock' \in Processes \union {Nobody}
         /\ file' = file
         /\ harmed' = (harmed \/ (held /\ Unaware(p))) /\ harmed' \in BOOLEAN
<1>1. Begin(p, Load) /\ Release(p, held)
  BY DEF Rescue
<1>2. call' \in [Processes -> Calls] /\ harmed' \in BOOLEAN
  BY CallType DEF Rescue, Types
<1> QED
  BY <1>1, <1>2, BeginStep, ReleaseStep, JobsType DEF Rescue

LEMMA MergedType ==
  ASSUME Types, NEW p \in Processes
  PROVE  /\ Merged(p) \in Credentials
         /\ call[p].provider \in Providers /\ call[p].answer \in Nat
BY DEF Merged, Types, Calls, Credentials

-----------------------------------------------------------------------------
(* Types and places *)

LEMMA InitShape == Init => Shape
<1> SUFFICES ASSUME Init PROVE Shape
  OBVIOUS
<1>1. PICK state \in InitialStates :
        file = File(state, IF state = "good" THEN [v \in Providers |-> 1] ELSE None)
  BY DEF Init
<1>2. [v \in Providers |-> 1] \in Credentials
  BY DEF Credentials
<1>3. file \in Files /\ latest \in Credentials
  BY <1>1, <1>2, NoneType, AuthBounds DEF Init, File, Files
<1>4. Types
  BY <1>3, NoneType, JobsType, CallType DEF Init, Types, Of, Places
<1> QED
  BY <1>4, CallType, JobsType DEF Init, Shape, Steps, Of

LEMMA CreateShape ==
  ASSUME Shape, NEW p \in Processes, Create(p)
  PROVE  Shape'
<1>1. file' \in Files /\ harmed' \in BOOLEAN
  BY NoneType DEF Create, File, Files, Shape, Types
<1>2. job' \in [Processes -> Jobs] /\ pc' \in [Processes -> Places]
  BY EndsStep DEF Create, Shape, Types, Places
<1>3. Types'
  BY <1>1, <1>2 DEF Create, memory, remote, Shape, Types
<1>4. ASSUME NEW q \in Processes PROVE Steps(q)'
  BY EndsStep DEF Create, Shape, Types, Steps
<1> QED
  BY <1>3, <1>4 DEF Shape

LEMMA TakeShape ==
  ASSUME Shape, NEW p \in Processes, Take(p)
  PROVE  Shape'
<1>1. Types
  BY DEF Shape
<1>2. CASE file.state = "broken"
  <2>1. Ends(p) /\ lock' = lock /\ data' = data
    BY <1>2 DEF Take, Fails
  <2>2. Types'
    BY <1>1, <2>1, EndsStep DEF Take, remote, history, Types
  <2>3. ASSUME NEW q \in Processes PROVE Steps(q)'
    BY <1>1, <2>1, EndsStep DEF Take, Shape, Types, Steps
  <2> QED
    BY <2>2, <2>3 DEF Shape
<1>3. CASE file.state # "broken" /\ job[p].kind = "load"
  <2>1. Ends(p) /\ lock' = lock /\ data' = [data EXCEPT ![p] = Content]
    BY <1>3 DEF Take
  <2>2. Types'
    BY <1>1, <2>1, EndsStep, ContentType DEF Take, remote, history, Types
  <2>3. ASSUME NEW q \in Processes PROVE Steps(q)'
    BY <1>1, <2>1, EndsStep DEF Take, Shape, Types, Steps
  <2> QED
    BY <2>2, <2>3 DEF Shape
<1>4. CASE file.state # "broken" /\ job[p].kind # "load"
  <2>1. job[p].kind = "change"
    BY <1>4 DEF Take, Shape, Steps
  <2> DEFINE next == [Content EXCEPT ![job[p].provider] = job[p].value]
  <2>2. next \in Credentials
    BY <1>1, ContentType DEF Credentials, Types, Jobs
  <2>3. /\ lock' = p /\ data' = data
        /\ job' = [job EXCEPT ![p].next = next]
        /\ pc' = [pc EXCEPT ![p] = "write"]
    BY <1>4 DEF Take, memory
  <2>4. job' \in [Processes -> Jobs] /\ job'[p].kind = "change"
    BY <1>1, <2>1, <2>2, <2>3 DEF Types, Jobs
  <2>5. Types'
    BY <1>1, <2>3, <2>4 DEF Take, remote, history, Types, Places
  <2>6. ASSUME NEW q \in Processes PROVE Steps(q)'
    BY <1>1, <2>3, <2>4 DEF Take, Shape, Types, Steps
  <2> QED
    BY <2>5, <2>6 DEF Shape
<1> QED
  BY <1>2, <1>3, <1>4

LEMMA TakeFailsShape ==
  ASSUME Shape, NEW p \in Processes, TakeFails(p)
  PROVE  Shape'
<1>1. Ends(p) /\ data' = data
  BY DEF TakeFails, Fails
<1>2. Types'
  BY <1>1, EndsStep DEF TakeFails, storage, remote, history, Shape, Types
<1>3. ASSUME NEW q \in Processes PROVE Steps(q)'
  BY <1>1, EndsStep DEF TakeFails, Shape, Types, Steps
<1> QED
  BY <1>2, <1>3 DEF Shape

LEMMA WriteShape ==
  ASSUME Shape, NEW p \in Processes, Write(p)
  PROVE  Shape'
<1>1. Types
  BY DEF Shape
<1>2. /\ Ends(p) /\ data' = data /\ issued' = issued
      /\ file' = File("good", job[p].next)
      /\ latest' = [latest EXCEPT ![job[p].provider] = job[p].value]
  BY DEF Write, remote
<1>3. file' \in Files /\ latest' \in Credentials
  BY <1>1, <1>2 DEF File, Files, Types, Jobs, Credentials
<1>4. CASE job[p].kind = "refresh"
  <2>1. /\ lock' \in Processes \union {Nobody}
        /\ call' = [call EXCEPT ![p] = NoCall] /\ call' \in [Processes -> Calls]
        /\ harmed' \in BOOLEAN
    BY <1>1, <1>4, ReleaseStep, CallType DEF Write, Types
  <2>2. Types'
    BY <1>1, <1>2, <1>3, <2>1, EndsStep DEF Types
  <2>3. ASSUME NEW q \in Processes PROVE Steps(q)'
    BY <1>1, <1>2, <2>1, EndsStep, CallType DEF Shape, Types, Steps
  <2> QED
    BY <2>2, <2>3 DEF Shape
<1>5. CASE job[p].kind # "refresh"
  <2>1. /\ lock' \in Processes \union {Nobody}
        /\ call' = call /\ harmed' = harmed
    BY <1>1, <1>5 DEF Write, Types
  <2>2. Types'
    BY <1>1, <1>2, <1>3, <2>1, EndsStep DEF Types
  <2>3. ASSUME NEW q \in Processes PROVE Steps(q)'
    BY <1>1, <1>2, <1>5, <2>1, EndsStep DEF Shape, Types, Steps
  <2> QED
    BY <2>2, <2>3 DEF Shape
<1> QED
  BY <1>4, <1>5

LEMMA ChangeShape ==
  ASSUME Shape, NEW p \in Processes, NEW v \in Providers, NEW n \in Nat,
         Change(p, v, n), issued' \in Nat
  PROVE  Shape'
<1>1. Types
  BY DEF Shape
<1> DEFINE what == Job("change", v, n, None)
<1>2. what \in Jobs /\ what.kind = "change"
  BY NoneType, JobType
<1>3. data' = [data EXCEPT ![p][v] = n] /\ pc[p] = "idle" /\ call' = call
  BY DEF Change
<1>4. data' \in [Processes -> Credentials]
  BY <1>1, <1>3 DEF Types, Credentials
<1>5. \/ Begin(p, what)
      \/ pc' = pc /\ job' = job
  BY DEF Change, steps
<1>6. Types'
  BY <1>1, <1>2, <1>4, <1>5, BeginStep DEF Change, storage, history, Types
<1>7. ASSUME NEW q \in Processes PROVE Steps(q)'
  BY <1>1, <1>2, <1>3, <1>5, BeginStep DEF Shape, Types, Steps
<1> QED
  BY <1>6, <1>7 DEF Shape

LEMMA UserShape ==
  ASSUME Shape, NEW p \in Processes, NEW v \in Providers, Set(p, v) \/ Remove(p, v)
  PROVE  Shape'
<1>1. issued \in Nat
  BY DEF Shape, Types
<1>2. CASE Set(p, v)
  <2>1. issued' = issued + 1 /\ Change(p, v, issued')
    BY <1>2 DEF Set
  <2>2. issued' \in Nat
    BY <1>1, <2>1
  <2> QED
    BY <2>1, <2>2, ChangeShape
<1>3. CASE Remove(p, v)
  <2>1. issued' = issued /\ Change(p, v, 0)
    BY <1>3 DEF Remove
  <2> QED
    BY <1>1, <2>1, ChangeShape
<1> QED
  BY <1>2, <1>3

LEMMA StartShape ==
  ASSUME Shape, NEW p \in Processes, Start(p)
  PROVE  Shape'
<1>1. Begin(p, Load) /\ pc[p] = "start"
  BY DEF Start
<1>2. Types'
  BY <1>1, BeginStep, JobsType DEF Start, storage, memory, remote, history, Shape, Types
<1>3. ASSUME NEW q \in Processes PROVE Steps(q)'
  BY <1>1, BeginStep, JobsType DEF Start, Shape, Types, Steps
<1> QED
  BY <1>2, <1>3 DEF Shape

LEMMA AskShape ==
  ASSUME Shape, NEW p \in Processes, NEW v \in Providers, Ask(p, v)
  PROVE  Shape'
<1>1. /\ call' = [call EXCEPT ![p] = Call("locking", v)]
      /\ pc[p] = "idle"
      /\ \/ Begin(p, EnsureFile) /\ file.state = "absent"
         \/ pc' = pc /\ job' = job
  BY DEF Ask, steps
<1>2. call' \in [Processes -> Calls]
  BY <1>1, CallType DEF Shape, Types
<1>3. Types'
  BY <1>1, <1>2, BeginStep, JobsType DEF Ask, storage, memory, remote, history, Shape, Types
<1>4. ASSUME NEW q \in Processes PROVE Steps(q)'
  BY <1>1, BeginStep, JobsType, CallType DEF Begin, Shape, Types, Steps
<1> QED
  BY <1>3, <1>4 DEF Shape

\* A request that fails begins to load the file.
LEMMA RescueShape ==
  ASSUME Shape, NEW p \in Processes, NEW held \in BOOLEAN, Rescue(p, held),
         pc[p] = "idle", data' \in [Processes -> Credentials], issued' = issued,
         latest' = latest
  PROVE  Shape'
<1>1. Types
  BY DEF Shape
<1>2. Types'
  BY <1>1, RescueStep DEF Types
<1>3. ASSUME NEW q \in Processes PROVE Steps(q)'
  BY <1>1, RescueStep, JobsType, CallType DEF Shape, Types, Steps
<1> QED
  BY <1>2, <1>3 DEF Shape

LEMMA FailedAskShape ==
  ASSUME Shape, NEW p \in Processes, AskFails(p) \/ AskingFails(p)
  PROVE  Shape'
BY RescueShape DEF AskFails, AskingFails, remote, Shape, Types

LEMMA RefreshShape ==
  ASSUME Shape, NEW p \in Processes, Refresh(p)
  PROVE  Shape'
<1>1. Types /\ pc[p] = "idle" /\ call[p].at = "locking"
  BY DEF Shape, Refresh
<1>2. CASE file.state = "broken"
  BY <1>1, <1>2, RescueShape DEF Refresh, remote, Types
<1>3. CASE file.state # "broken" /\ Expired(Content[call[p].provider])
  <2>1. /\ lock' = p /\ data' = [data EXCEPT ![p] = Content]
        /\ call' = [call EXCEPT ![p].at = "asking", ![p].current = Content]
        /\ file' = file /\ pc' = pc /\ job' = job /\ harmed' = harmed
        /\ latest' = latest /\ issued' = issued
    BY <1>3 DEF Refresh, steps, remote
  <2>2. data' \in [Processes -> Credentials] /\ call' \in [Processes -> Calls]
    BY <1>1, <2>1, ContentType DEF Types, Calls
  <2>3. Types'
    BY <1>1, <2>1, <2>2 DEF Types
  <2>4. ASSUME NEW q \in Processes PROVE Steps(q)'
    BY <1>1, <2>1, <2>2 DEF Shape, Types, Steps, Calls
  <2> QED
    BY <2>3, <2>4 DEF Shape
<1>4. CASE file.state # "broken" /\ ~Expired(Content[call[p].provider])
  <2>1. /\ lock' = lock /\ data' = [data EXCEPT ![p] = Content]
        /\ call' = [call EXCEPT ![p] = NoCall]
        /\ file' = file /\ pc' = pc /\ job' = job /\ harmed' = harmed
        /\ latest' = latest /\ issued' = issued
    BY <1>4 DEF Refresh, steps, remote
  <2>2. data' \in [Processes -> Credentials] /\ call' \in [Processes -> Calls]
    BY <1>1, <2>1, ContentType, CallType DEF Types
  <2>3. Types'
    BY <1>1, <2>1, <2>2 DEF Types
  <2>4. ASSUME NEW q \in Processes PROVE Steps(q)'
    BY <1>1, <2>1, CallType DEF Shape, Types, Steps
  <2> QED
    BY <2>3, <2>4 DEF Shape
<1> QED
  BY <1>2, <1>3, <1>4

LEMMA AnswerShape ==
  ASSUME Shape, NEW p \in Processes, Answer(p)
  PROVE  Shape'
<1>1. Types /\ pc[p] = "idle" /\ call[p].at = "served"
  BY DEF Shape, Answer
<1>2. data' \in [Processes -> Credentials] /\ issued' = issued /\ latest' = latest
  BY <1>1, MergedType DEF Answer, remote, Types
<1>3. CASE call[p].hold = "known"
  BY <1>1, <1>2, <1>3, RescueShape DEF Answer
<1>4. CASE call[p].hold # "known"
  <2> DEFINE what == Job("refresh", call[p].provider, call[p].answer, Merged(p))
  <2>1. what \in Jobs /\ what.kind = "refresh"
    BY <1>1, MergedType, JobType
  <2>2. /\ pc' = [pc EXCEPT ![p] = "write"] /\ job' = [job EXCEPT ![p] = what]
        /\ call' = [call EXCEPT ![p].at = "saving"]
        /\ file' = file /\ lock' = lock /\ harmed' = harmed
    BY <1>4 DEF Answer, storage
  <2>3. call' \in [Processes -> Calls]
    BY <1>1, <2>2 DEF Types, Calls
  <2>4. Types'
    BY <1>1, <1>2, <2>1, <2>2, <2>3 DEF Types, Places
  <2>5. ASSUME NEW q \in Processes PROVE Steps(q)'
    BY <1>1, <1>4, <2>1, <2>2, <2>3 DEF Shape, Types, Steps, Calls
  <2> QED
    BY <2>4, <2>5 DEF Shape
<1> QED
  BY <1>3, <1>4

\* What the surroundings do to one request.
Requested(p, new) ==
  /\ call' = [call EXCEPT ![p] = new]
  /\ call[p].at \in {"asking", "served"} /\ new.at \in {"asking", "served", "refused"}
  /\ new.current = call[p].current
  /\ new.hold \in {call[p].hold, "lost", "known"}

Surroundings(p) ==
  Serve(p) \/ RequestFails(p) \/ AnswerIsLost(p) \/ LoseLock(p) \/ Notice(p)

LEMMA RequestStep ==
  ASSUME Shape, NEW p \in Processes, Surroundings(p)
  PROVE  \E new \in Calls : Requested(p, new)
<1>1. call[p] \in Calls /\ issued \in Nat
  BY DEF Shape, Types
<1>2. CASE Serve(p)
  <2>1. CASE Presented(p) \in valid[call[p].provider]
    <3> DEFINE new == [call[p] EXCEPT !.at = "served", !.answer = issued']
    <3> HIDE DEF new
    <3>0. issued' = issued + 1 /\ issued' \in Nat
      BY <1>1, <1>2, <2>1 DEF Serve
    <3>1. new \in Calls
      BY <1>1, <3>0 DEF Calls, new
    <3>2. Requested(p, new)
      BY <1>1, <1>2, <2>1 DEF Serve, Requested, Calls, new
    <3> QED
      BY <3>1, <3>2
  <2>2. CASE Presented(p) \notin valid[call[p].provider]
    <3> DEFINE new == [call[p] EXCEPT !.at = "refused"]
    <3>1. new \in Calls
      BY <1>1 DEF Calls
    <3>2. Requested(p, new)
      BY <1>1, <1>2, <2>2 DEF Serve, Requested, Calls
    <3> QED
      BY <3>1, <3>2
  <2> QED
    BY <2>1, <2>2
<1>3. CASE RequestFails(p) \/ AnswerIsLost(p)
  <2> DEFINE new == [call[p] EXCEPT !.at = "refused"]
  <2>1. new \in Calls
    BY <1>1 DEF Calls
  <2>2. Requested(p, new)
    BY <1>1, <1>3 DEF RequestFails, AnswerIsLost, Requested, Calls
  <2> QED
    BY <2>1, <2>2
<1>4. CASE LoseLock(p)
  <2> DEFINE new == [call[p] EXCEPT !.hold = "lost"]
  <2>1. new \in Calls
    BY <1>1 DEF Calls
  <2>2. Requested(p, new)
    BY <1>1, <1>4 DEF LoseLock, Requested, Calls
  <2> QED
    BY <2>1, <2>2
<1>5. CASE Notice(p)
  <2> DEFINE new == [call[p] EXCEPT !.hold = "known"]
  <2>1. new \in Calls
    BY <1>1 DEF Calls
  <2>2. Requested(p, new)
    BY <1>1, <1>5 DEF Notice, Requested, Calls
  <2> QED
    BY <2>1, <2>2
<1> QED
  BY <1>2, <1>3, <1>4, <1>5 DEF Surroundings

\* Nothing else changes, but the lock is free if it is lost.
LEMMA RequestKeeps ==
  ASSUME Shape, NEW p \in Processes, Surroundings(p)
  PROVE  /\ file' = file /\ pc' = pc /\ job' = job /\ data' = data
         /\ latest' = latest /\ harmed' = harmed /\ issued' \in Nat
         /\ lock' = lock \/ (LoseLock(p) /\ lock' = Nobody /\ lock = p)
<1>1. issued \in Nat
  BY DEF Shape, Types
<1>2. CASE Serve(p)
  BY <1>1, <1>2 DEF Serve, storage, memory, steps, history
<1>3. CASE RequestFails(p) \/ AnswerIsLost(p)
  BY <1>1, <1>3 DEF RequestFails, AnswerIsLost, storage, memory, steps, remote, history
<1>4. CASE LoseLock(p) \/ Notice(p)
  BY <1>1, <1>4 DEF LoseLock, Notice, storage, memory, steps, remote, history
<1> QED
  BY <1>2, <1>3, <1>4 DEF Surroundings

LEMMA RequestShape ==
  ASSUME Shape, NEW p \in Processes, Surroundings(p)
  PROVE  Shape'
<1>1. PICK new \in Calls : Requested(p, new)
  BY RequestStep
<1>2. Types'
  BY <1>1, RequestKeeps DEF Requested, Shape, Types
<1>3. ASSUME NEW q \in Processes PROVE Steps(q)'
  BY <1>1, RequestKeeps DEF Requested, Shape, Types, Steps
<1> QED
  BY <1>2, <1>3 DEF Shape

LEMMA CrashShape ==
  ASSUME Shape, NEW p \in Processes, Crash(p)
  PROVE  Shape'
<1>1. Types
  BY DEF Shape
<1>2. /\ job' = [job EXCEPT ![p] = NoJob] /\ pc' = [pc EXCEPT ![p] = "start"]
      /\ call' = [call EXCEPT ![p] = NoCall] /\ data' = [data EXCEPT ![p] = None]
      /\ lock' \in {lock, Nobody} /\ latest' = latest /\ issued' = issued
  BY DEF Crash
<1>3. file' \in Files /\ harmed' \in BOOLEAN
  <2>1. CASE pc[p] = "write"
    BY <1>1, <2>1, NoneType DEF Crash, File, Files
  <2>2. CASE pc[p] # "write"
    BY <1>1, <2>2 DEF Crash, Types
  <2> QED
    BY <2>1, <2>2
<1>4. Types'
  BY <1>1, <1>2, <1>3, NoneType, JobsType, CallType DEF Types, Places
<1>5. ASSUME NEW q \in Processes PROVE Steps(q)'
  BY <1>1, <1>2, JobsType, CallType DEF Shape, Types, Steps
<1> QED
  BY <1>4, <1>5 DEF Shape

LEMMA NextShape == Shape /\ [Next]_vars => Shape'
<1> SUFFICES ASSUME Shape, [Next]_vars PROVE Shape'
  OBVIOUS
<1>1. ASSUME NEW p \in Processes,
             Start(p) \/ Create(p) \/ Take(p) \/ TakeFails(p) \/ Write(p)
      PROVE  Shape'
  BY <1>1, StartShape, CreateShape, TakeShape, TakeFailsShape, WriteShape
<1>2. ASSUME NEW p \in Processes,
             AskFails(p) \/ Refresh(p) \/ AskingFails(p) \/ Answer(p)
      PROVE  Shape'
  BY <1>2, FailedAskShape, RefreshShape, AnswerShape
<1>3. ASSUME NEW p \in Processes, Surroundings(p) \/ Crash(p)
      PROVE  Shape'
  BY <1>3, RequestShape, CrashShape
<1>4. ASSUME NEW p \in Processes, NEW v \in Providers,
             Set(p, v) \/ Remove(p, v) \/ Ask(p, v)
      PROVE  Shape'
  BY <1>4, UserShape, AskShape
<1>5. CASE Expire \/ UNCHANGED vars
  BY <1>5 DEF Expire, vars, storage, memory, steps, remote, history, Shape, Types, Steps
<1> QED
  BY <1>1, <1>2, <1>3, <1>4, <1>5 DEF Next, Rest, Surroundings

-----------------------------------------------------------------------------
(* Who writes holds the lock and has read what is there *)

LEMMA InitSafe == Init => Safe
<1> SUFFICES ASSUME Init PROVE Safe
  OBVIOUS
<1>1. PICK state \in InitialStates :
        file = File(state, IF state = "good" THEN [v \in Providers |-> 1] ELSE None)
  BY DEF Init
<1>2. Whole
  BY <1>1, AuthBounds DEF Init, File, Whole, Content
<1>3. ASSUME NEW p \in Processes
      PROVE  ~Changing(p) /\ ~Refreshing(p)
  BY CallType DEF Init, Of, Changing, Refreshing
<1> QED
  BY <1>2, <1>3 DEF Safe, Locking, PendingAt

LEMMA CreateSafe ==
  ASSUME IInv, NEW p \in Processes, Create(p)
  PROVE  Safe'
<1> SUFFICES ASSUME ~harmed' PROVE Whole' /\ Locking' /\ \A q \in Processes : PendingAt(q)'
  BY DEF Safe
<1>1. Types /\ ~harmed /\ file.state = "absent"
  BY DEF IInv, Shape, Types, Create
<1>2. /\ file' = File("good", None) /\ lock' = lock /\ call' = call /\ latest' = latest
      /\ Ends(p) \/ (pc' = [pc EXCEPT ![p] = "lock"] /\ job' = job)
      /\ pc[p] = "create"
  BY DEF Create
<1>3. Whole'
  BY <1>1, <1>2 DEF IInv, Safe, Whole, Content, File
<1>4. ASSUME NEW q \in Processes
      PROVE  /\ Changing(q)' => Changing(q) /\ q # p
             /\ Refreshing(q)' = Refreshing(q)
             /\ (pc[q] = "write")' => pc[q] = "write" /\ job'[q] = job[q]
  BY <1>1, <1>2, EndsStep DEF Changing, Refreshing, Types
<1> QED
  BY <1>1, <1>2, <1>3, <1>4 DEF IInv, Safe, Locking, PendingAt

\* A step that changes neither the file nor the lock, and after which a
\* process neither writes nor refreshes that did not before.
LEMMA StillSafe ==
  ASSUME IInv, file' = file, lock' = lock, latest' = latest, harmed' = harmed,
         \A q \in Processes :
           /\ Changing(q)' => Changing(q)
           /\ Refreshing(q)' => Refreshing(q) /\ call'[q].current = call[q].current
           /\ (call[q].at = "saving" /\ Refreshing(q))' => call[q].at = "saving"
           /\ (Refreshing(q) /\ call[q].at # "saving")' => call[q].at # "saving"
           /\ (pc[q] = "write")' => pc[q] = "write" /\ job'[q] = job[q]
  PROVE  Safe'
BY DEF IInv, Safe, Whole, Content, Locking, PendingAt

LEMMA TakeSafe ==
  ASSUME IInv, NEW p \in Processes, Take(p)
  PROVE  Safe'
<1>1. Types /\ Steps(p) /\ pc[p] = "lock" /\ lock = Nobody /\ p # Nobody
  BY AuthBounds DEF IInv, Shape, Take
<1>2. /\ file' = file /\ call' = call /\ latest' = latest /\ harmed' = harmed
  BY DEF Take, history
<1>3. CASE file.state = "broken" \/ job[p].kind = "load"
  <2>1. Ends(p) /\ lock' = lock
    BY <1>3 DEF Take, Fails
  <2>2. ASSUME NEW q \in Processes
        PROVE  /\ Changing(q)' => Changing(q)
               /\ (pc[q] = "write")' => pc[q] = "write" /\ job'[q] = job[q]
    BY <1>1, <2>1, EndsStep DEF Changing, Types
  <2> QED
    BY <1>2, <2>1, <2>2, StillSafe DEF Refreshing
<1>4. CASE file.state # "broken" /\ job[p].kind # "load"
  <2> SUFFICES ASSUME ~harmed' PROVE Whole' /\ Locking' /\ \A q \in Processes : PendingAt(q)'
    BY DEF Safe
  <2> DEFINE next == [Content EXCEPT ![job[p].provider] = job[p].value]
  <2>1. /\ lock' = p
        /\ job' = [job EXCEPT ![p].next = next]
        /\ pc' = [pc EXCEPT ![p] = "write"]
    BY <1>4 DEF Take
  <2>2. Whole /\ Locking /\ ~harmed
    BY <1>2 DEF IInv, Safe
  <2>3. Whole'
    BY <1>2, <2>2 DEF Whole, Content
  <2>4. \A q \in Processes : ~Changing(q) /\ ~Refreshing(q)
    BY <1>1, <2>2, AuthBounds DEF Locking
  <2>5. job[p].kind = "change"
    BY <1>1, <1>4 DEF Steps
  <2>6. job[p] \in Jobs
    BY <1>1 DEF Types
  <2>7. /\ job'[p].next = next /\ job'[p].provider = job[p].provider
        /\ job'[p].value = job[p].value /\ job'[p].kind = "change"
        /\ pc'[p] = "write"
        /\ \A q \in Processes : q # p => job'[q] = job[q] /\ pc'[q] = pc[q]
    BY <1>1, <2>1, <2>5, <2>6 DEF Types, Jobs
  <2>8. next = [latest EXCEPT ![job[p].provider] = job[p].value]
    BY <2>2 DEF Whole
  <2>9. ASSUME NEW q \in Processes
        PROVE  /\ ~Refreshing(q)'
               /\ Changing(q)' => q = p
    BY <1>2, <2>4, <2>7 DEF Changing, Refreshing
  <2>10. Locking'
    BY <2>1, <2>9 DEF Locking
  <2>11. ASSUME NEW q \in Processes PROVE PendingAt(q)'
    BY <1>2, <2>7, <2>8, <2>9 DEF PendingAt
  <2> QED
    BY <2>3, <2>10, <2>11
<1> QED
  BY <1>3, <1>4

LEMMA TakeFailsSafe ==
  ASSUME IInv, NEW p \in Processes, TakeFails(p)
  PROVE  Safe'
<1>1. Types /\ Ends(p)
  BY DEF IInv, Shape, TakeFails, Fails
<1>2. /\ file' = file /\ lock' = lock /\ call' = call /\ latest' = latest
      /\ harmed' = harmed
  BY DEF TakeFails, storage, history
<1>3. ASSUME NEW q \in Processes
      PROVE  /\ Changing(q)' => Changing(q)
             /\ (pc[q] = "write")' => pc[q] = "write" /\ job'[q] = job[q]
  BY <1>1, EndsStep DEF Changing, Types
<1> QED
  BY <1>2, <1>3, StillSafe DEF Refreshing

\* What is written is the last write of every provider, and nobody else is
\* about to write.
LEMMA WriteSafe ==
  ASSUME IInv, NEW p \in Processes, Write(p)
  PROVE  Safe'
<1> SUFFICES ASSUME ~harmed' PROVE Whole' /\ Locking' /\ \A q \in Processes : PendingAt(q)'
  BY DEF Safe
<1>1. Types /\ Steps(p) /\ pc[p] = "write" /\ p # Nobody
  BY AuthBounds DEF IInv, Shape, Write
<1>2. /\ Ends(p)
      /\ file' = File("good", job[p].next)
      /\ latest' = [latest EXCEPT ![job[p].provider] = job[p].value]
  BY DEF Write
<1>3. ~harmed
  BY <1>1 DEF Write, Types
<1>4. Whole /\ Locking /\ \A q \in Processes : PendingAt(q)
  BY <1>3 DEF IInv, Safe
<1>5. Changing(p) \/ Refreshing(p)
  <2>1. CASE job[p].kind = "change"
    BY <1>1, <2>1 DEF Changing
  <2>2. CASE job[p].kind = "refresh"
    <3>1. call[p].at = "saving" /\ call[p].hold # "known"
      BY <1>1, <2>2 DEF Steps
    <3>2. call[p].hold # "lost"
      BY <2>2, <1>1 DEF Write, Unaware, Types
    <3>3. call[p].hold \in {"kept", "lost", "known"}
      BY <1>1 DEF Types, Calls
    <3> QED
      BY <3>1, <3>2, <3>3 DEF Refreshing
  <2> QED
    BY <1>1, <2>1, <2>2 DEF Steps
<1>6. lock = p
  BY <1>4, <1>5 DEF Locking
<1>7. file'.state = "good" /\ file'.content = latest'
  BY <1>1, <1>2, <1>4, <1>5 DEF PendingAt, File
<1>8. Whole'
  BY <1>7 DEF Whole, Content
<1>9. \A q \in Processes : q # p => ~Changing(q) /\ ~Refreshing(q)
  BY <1>4, <1>6 DEF Locking
<1>10. /\ ~Changing(p)' /\ ~Refreshing(p)'
       /\ \A q \in Processes : q # p =>
            pc'[q] = pc[q] /\ job'[q] = job[q] /\ call'[q] = call[q]
  <2>1. pc'[p] = "idle"
    BY <1>1, <1>2, EndsStep DEF Types
  <2>2. \A q \in Processes : q # p =>
          pc'[q] = pc[q] /\ job'[q] = job[q] /\ call'[q] = call[q]
    BY <1>1, <1>2, EndsStep DEF Write, Types
  <2>3. CASE job[p].kind = "refresh"
    BY <1>1, <2>1, <2>2, <2>3, CallType DEF Write, Types, Changing, Refreshing
  <2>4. CASE job[p].kind # "refresh"
    <3>1. Changing(p)
      BY <1>1, <2>4 DEF Steps, Changing
    <3>2. ~Refreshing(p) /\ call' = call
      BY <1>4, <2>4, <3>1 DEF Locking, Write
    <3> QED
      BY <2>1, <2>2, <3>2 DEF Changing, Refreshing
  <2> QED
    BY <2>3, <2>4
<1>11. ASSUME NEW q \in Processes PROVE ~Changing(q)' /\ ~Refreshing(q)'
  BY <1>9, <1>10 DEF Changing, Refreshing
<1> QED
  BY <1>8, <1>11 DEF Locking, PendingAt

LEMMA UserSafe ==
  ASSUME IInv, NEW p \in Processes, NEW v \in Providers,
         Set(p, v) \/ Remove(p, v) \/ Ask(p, v) \/ Start(p)
  PROVE  Safe'
<1>1. Types /\ pc[p] \in {"idle", "start"}
  BY DEF IInv, Shape, Set, Remove, Change, Ask, Start
<1> DEFINE Calm ==
      /\ file' = file /\ lock' = lock /\ latest' = latest /\ harmed' = harmed
      /\ \/ \E what \in Jobs : Begin(p, what)
         \/ pc' = pc /\ job' = job
<1>2. Calm
  <2>1. CASE Start(p)
    BY <2>1, JobsType DEF Start, storage, history
  <2>2. CASE Ask(p, v)
    BY <2>2, JobsType DEF Ask, storage, history, steps
  <2>3. ASSUME NEW n \in Nat, Change(p, v, n)
        PROVE  Calm
    BY <2>3, NoneType, JobType DEF Change, storage, history, steps
  <2>4. issued \in Nat /\ issued + 1 \in Nat /\ 0 \in Nat
    BY <1>1 DEF Types
  <2> QED
    BY <2>1, <2>2, <2>3, <2>4 DEF Set, Remove
<1>3. ASSUME NEW q \in Processes
      PROVE  /\ Changing(q)' => Changing(q)
             /\ (pc[q] = "write")' => pc[q] = "write" /\ job'[q] = job[q]
  BY <1>1, <1>2, BeginStep DEF Changing, Types
<1>4. CASE Ask(p, v)
  <2>1. call' = [call EXCEPT ![p] = Call("locking", v)]
    BY <1>4 DEF Ask
  <2>2. ASSUME NEW q \in Processes
        PROVE  Refreshing(q)' => Refreshing(q) /\ call'[q] = call[q]
    BY <1>1, <2>1, CallType DEF Refreshing, Types
  <2> QED
    BY <1>2, <1>3, <2>2, StillSafe
<1>5. CASE ~Ask(p, v)
  <2>1. call' = call
    BY <1>5 DEF Set, Remove, Change, Start
  <2> QED
    BY <1>2, <1>3, <2>1, StillSafe DEF Refreshing
<1> QED
  BY <1>4, <1>5

\* A request that fails gives back the lock it has, or does harm.
LEMMA RescueSafe ==
  ASSUME IInv, NEW p \in Processes, NEW held \in BOOLEAN, Rescue(p, held),
         pc[p] = "idle", latest' = latest,
         held => call[p].at \in {"asking", "served", "refused"}
  PROVE  Safe'
<1> SUFFICES ASSUME ~harmed' PROVE Whole' /\ Locking' /\ \A q \in Processes : PendingAt(q)'
  BY DEF Safe
<1>1. Types /\ p # Nobody
  BY AuthBounds DEF IInv, Shape
<1>2. ~harmed /\ (held => call[p].hold \in {"kept", "known"}) /\ file' = file
  BY <1>1, RescueStep DEF Unaware, Types, Calls
<1>3. Whole /\ Locking /\ \A q \in Processes : PendingAt(q)
  BY <1>2 DEF IInv, Safe
<1>4. ASSUME NEW q \in Processes
      PROVE  /\ Changing(q)' => Changing(q) /\ q # p
             /\ Refreshing(q)' => Refreshing(q) /\ q # p
             /\ q # p => pc'[q] = pc[q] /\ job'[q] = job[q] /\ call'[q] = call[q]
             /\ (pc[q] = "write")' => q # p
  BY <1>1, RescueStep, CallType DEF Changing, Refreshing, Types
<1>5. ASSUME NEW q \in Processes, q # p, lock = q PROVE lock' = q
  <2>1. CASE held /\ call[p].hold = "kept"
    <3>1. lock = p
      BY <1>3, <2>1 DEF Locking, Refreshing
    <3> QED
      BY <1>5, <3>1
  <2>2. CASE ~held \/ call[p].hold = "known"
    BY <2>2, <1>5 DEF Rescue, Release
  <2> QED
    BY <1>2, <2>1, <2>2
<1>6. Whole'
  BY <1>2, <1>3 DEF Whole, Content
<1>7. Locking'
  BY <1>3, <1>4, <1>5 DEF Locking
<1>8. ASSUME NEW q \in Processes PROVE PendingAt(q)'
  BY <1>3, <1>4 DEF PendingAt, Changing, Refreshing
<1> QED
  BY <1>6, <1>7, <1>8

LEMMA FailedAskSafe ==
  ASSUME IInv, NEW p \in Processes, AskFails(p) \/ AskingFails(p)
  PROVE  Safe'
<1>1. CASE AskFails(p)
  BY <1>1, RescueSafe DEF AskFails
<1>2. CASE AskingFails(p)
  BY <1>2, RescueSafe DEF AskingFails
<1> QED
  BY <1>1, <1>2

LEMMA RefreshSafe ==
  ASSUME IInv, NEW p \in Processes, Refresh(p)
  PROVE  Safe'
<1>1. /\ Types /\ Steps(p) /\ pc[p] = "idle" /\ call[p].at = "locking"
      /\ lock = Nobody /\ p # Nobody /\ latest' = latest
  BY AuthBounds DEF IInv, Shape, Refresh
<1>2. CASE file.state = "broken"
  BY <1>1, <1>2, RescueSafe DEF Refresh
<1>3. CASE file.state # "broken" /\ ~Expired(Content[call[p].provider])
  <2>1. /\ file' = file /\ lock' = lock /\ harmed' = harmed
        /\ pc' = pc /\ job' = job /\ call' = [call EXCEPT ![p] = NoCall]
    BY <1>3 DEF Refresh, steps
  <2>2. ASSUME NEW q \in Processes
        PROVE  Refreshing(q)' => Refreshing(q) /\ call'[q] = call[q]
    BY <1>1, <2>1, CallType DEF Refreshing, Types
  <2> QED
    BY <1>1, <2>1, <2>2, StillSafe DEF Changing
<1>4. CASE file.state # "broken" /\ Expired(Content[call[p].provider])
  <2> SUFFICES ASSUME ~harmed' PROVE Whole' /\ Locking' /\ \A q \in Processes : PendingAt(q)'
    BY DEF Safe
  <2>1. /\ lock' = p /\ file' = file /\ harmed' = harmed /\ pc' = pc /\ job' = job
        /\ call' = [call EXCEPT ![p].at = "asking", ![p].current = Content]
    BY <1>4 DEF Refresh, steps
  <2>2. Whole /\ Locking
    BY <2>1 DEF IInv, Safe
  <2>3. \A q \in Processes : ~Changing(q) /\ ~Refreshing(q)
    BY <1>1, <2>2, AuthBounds DEF Locking
  <2>4. /\ call'[p].current = latest /\ call'[p].at = "asking"
        /\ \A q \in Processes : q # p => call'[q] = call[q]
    BY <1>1, <2>1, <2>2 DEF Whole, Types, Calls
  <2>5. Whole'
    BY <1>1, <2>1, <2>2 DEF Whole, Content
  <2>6. ASSUME NEW q \in Processes
        PROVE  ~Changing(q)' /\ (Refreshing(q)' => q = p)
    BY <2>1, <2>3, <2>4 DEF Changing, Refreshing
  <2>7. pc'[p] # "write"
    BY <1>1, <2>1
  <2> QED
    BY <1>1, <2>1, <2>4, <2>5, <2>6, <2>7 DEF Locking, PendingAt
<1> QED
  BY <1>2, <1>3, <1>4

LEMMA AnswerSafe ==
  ASSUME IInv, NEW p \in Processes, Answer(p)
  PROVE  Safe'
<1>1. /\ Types /\ pc[p] = "idle" /\ call[p].at = "served" /\ latest' = latest
  BY DEF IInv, Shape, Answer
<1>2. CASE call[p].hold = "known"
  BY <1>1, <1>2, RescueSafe DEF Answer
<1>3. CASE call[p].hold # "known"
  <2> SUFFICES ASSUME ~harmed' PROVE Whole' /\ Locking' /\ \A q \in Processes : PendingAt(q)'
    BY DEF Safe
  <2> DEFINE what == Job("refresh", call[p].provider, call[p].answer, Merged(p))
  <2>1. /\ lock' = lock /\ file' = file /\ harmed' = harmed
        /\ pc' = [pc EXCEPT ![p] = "write"] /\ job' = [job EXCEPT ![p] = what]
        /\ call' = [call EXCEPT ![p].at = "saving"]
    BY <1>3 DEF Answer, storage
  <2>2. Whole /\ Locking /\ \A q \in Processes : PendingAt(q)
    BY <2>1 DEF IInv, Safe
  <2>3. Whole'
    BY <1>1, <2>1, <2>2 DEF Whole, Content
  <2>4. /\ call'[p].at = "saving" /\ call'[p].hold = call[p].hold
        /\ \A q \in Processes : q # p => call'[q] = call[q]
    BY <1>1, <2>1 DEF Types, Calls
  <2>5. /\ what.kind = "refresh" /\ what.next = Merged(p)
        /\ what.provider = call[p].provider /\ what.value = call[p].answer
    BY DEF Job
  <2> HIDE DEF what
  <2>6. /\ job'[p] = what /\ pc'[p] = "write"
        /\ \A q \in Processes : q # p => job'[q] = job[q] /\ pc'[q] = pc[q]
    BY <1>1, <2>1 DEF Types
  <2>7. ASSUME NEW q \in Processes
        PROVE  /\ Changing(q)' => Changing(q) /\ q # p
               /\ Refreshing(q)' => Refreshing(q)
    BY <1>1, <2>4, <2>5, <2>6 DEF Changing, Refreshing
  <2>8. Locking'
    BY <2>1, <2>2, <2>7 DEF Locking
  <2>9. PendingAt(p)'
    <3>1. Refreshing(p)' => what.next = [latest EXCEPT ![what.provider] = what.value]
      BY <1>1, <2>2, <2>5, <2>7 DEF PendingAt, Merged
    <3> QED
      BY <1>1, <2>4, <2>6, <2>7, <3>1 DEF PendingAt
  <2>10. ASSUME NEW q \in Processes, q # p PROVE PendingAt(q)'
    BY <1>1, <2>2, <2>4, <2>6, <2>7, <2>10 DEF PendingAt
  <2> QED
    BY <2>3, <2>8, <2>9, <2>10
<1> QED
  BY <1>2, <1>3

LEMMA RequestSafe ==
  ASSUME IInv, NEW p \in Processes, Surroundings(p)
  PROVE  Safe'
<1> SUFFICES ASSUME ~harmed' PROVE Whole' /\ Locking' /\ \A q \in Processes : PendingAt(q)'
  BY DEF Safe
<1>1. Types
  BY DEF IInv, Shape
<1>2. PICK new \in Calls : Requested(p, new)
  BY RequestStep DEF IInv
<1>3. /\ file' = file /\ pc' = pc /\ job' = job /\ latest' = latest /\ harmed' = harmed
      /\ lock' = lock \/ (LoseLock(p) /\ lock' = Nobody /\ lock = p)
  BY RequestKeeps DEF IInv
<1>4. Whole /\ Locking /\ \A q \in Processes : PendingAt(q)
  BY <1>3 DEF IInv, Safe
<1>5. ASSUME NEW q \in Processes
      PROVE  /\ Changing(q)' = Changing(q)
             /\ Refreshing(q)' => Refreshing(q)
             /\ call'[q].current = call[q].current
             /\ call[q].at = "saving" <=> call'[q].at = "saving"
  BY <1>1, <1>2, <1>3 DEF Requested, Changing, Refreshing, Types
<1>6. ASSUME LoseLock(p) PROVE ~Refreshing(p)' /\ ~Changing(p)
  <2>1. Refreshing(p) /\ call' = [call EXCEPT ![p].hold = "lost"]
    BY <1>6 DEF LoseLock, Refreshing
  <2>2. call'[p].hold = "lost"
    BY <1>1, <2>1 DEF Types, Calls
  <2> QED
    BY <1>4, <2>1, <2>2 DEF Locking, Refreshing
<1>7. Whole'
  BY <1>3, <1>4 DEF Whole, Content
<1>8. Locking'
  BY <1>3, <1>4, <1>5, <1>6 DEF Locking
<1>9. ASSUME NEW q \in Processes PROVE PendingAt(q)'
  BY <1>3, <1>4, <1>5 DEF PendingAt
<1> QED
  BY <1>7, <1>8, <1>9

LEMMA CrashSafe ==
  ASSUME IInv, NEW p \in Processes, Crash(p)
  PROVE  Safe'
<1> SUFFICES ASSUME ~harmed' PROVE Whole' /\ Locking' /\ \A q \in Processes : PendingAt(q)'
  BY DEF Safe
<1>1. /\ Types /\ latest' = latest /\ job' = [job EXCEPT ![p] = NoJob]
      /\ pc' = [pc EXCEPT ![p] = "start"] /\ call' = [call EXCEPT ![p] = NoCall]
      /\ lock' = IF lock = p THEN Nobody ELSE lock
  BY DEF IInv, Shape, Crash
<1>2. pc[p] # "write" /\ ~harmed /\ file' = file
  BY DEF Crash
<1>3. Whole /\ Locking /\ \A q \in Processes : PendingAt(q)
  BY <1>2 DEF IInv, Safe
<1>4. ASSUME NEW q \in Processes
      PROVE  /\ Changing(q)' => Changing(q) /\ q # p
             /\ Refreshing(q)' => Refreshing(q) /\ q # p
             /\ (pc[q] = "write")' => q # p
             /\ q # p => pc'[q] = pc[q] /\ job'[q] = job[q] /\ call'[q] = call[q]
  BY <1>1, CallType DEF Changing, Refreshing, Types
<1>5. Whole'
  BY <1>1, <1>2, <1>3 DEF Whole, Content
<1>6. Locking'
  BY <1>1, <1>3, <1>4 DEF Locking
<1>7. ASSUME NEW q \in Processes PROVE PendingAt(q)'
  BY <1>1, <1>3, <1>4 DEF PendingAt, Changing, Refreshing
<1> QED
  BY <1>5, <1>6, <1>7

LEMMA NextSafe == IInv /\ [Next]_vars => Safe'
<1> SUFFICES ASSUME IInv, [Next]_vars PROVE Safe'
  OBVIOUS
<1>1. ASSUME NEW p \in Processes,
             Create(p) \/ Take(p) \/ TakeFails(p) \/ Write(p)
      PROVE  Safe'
  BY <1>1, CreateSafe, TakeSafe, TakeFailsSafe, WriteSafe
<1>2. ASSUME NEW p \in Processes,
             AskFails(p) \/ Refresh(p) \/ AskingFails(p) \/ Answer(p)
      PROVE  Safe'
  BY <1>2, FailedAskSafe, RefreshSafe, AnswerSafe
<1>3. ASSUME NEW p \in Processes, Surroundings(p) \/ Crash(p)
      PROVE  Safe'
  BY <1>3, RequestSafe, CrashSafe
<1>4. ASSUME NEW p \in Processes, Start(p) PROVE Safe'
  BY <1>4, UserSafe, NoneType
<1>5. ASSUME NEW p \in Processes, NEW v \in Providers,
             Set(p, v) \/ Remove(p, v) \/ Ask(p, v)
      PROVE  Safe'
  BY <1>5, UserSafe
<1>6. CASE Expire \/ UNCHANGED vars
  <2>1. /\ file' = file /\ lock' = lock /\ latest' = latest /\ harmed' = harmed
        /\ pc' = pc /\ job' = job /\ call' = call
    BY <1>6 DEF Expire, vars, storage, memory, steps, remote, history
  <2> QED
    BY <2>1, StillSafe DEF Changing, Refreshing
<1> QED
  BY <1>1, <1>2, <1>3, <1>4, <1>5, <1>6 DEF Next, Rest, Surroundings

-----------------------------------------------------------------------------
(* A change is saved, or the process knows that it was not *)

Saving(p, v) ==
  pc[p] \in {"create", "lock", "write"} /\ job[p].kind = "change" /\ job[p].provider = v

MemoryTypes ==
  /\ failed \in [Processes -> BOOLEAN]
  /\ loadError \in [Processes -> BOOLEAN]
  /\ unsaved \in [Processes -> SUBSET Providers]

Accounted(p) ==
  /\ loadError[p] => failed[p]
  /\ \A v \in unsaved[p] : failed[p] \/ Saving(p, v)

UInv == Shape /\ MemoryTypes /\ \A p \in Processes : Accounted(p)

LEMMA InitSaved == Init => UInv
BY InitShape DEF Init, Of, UInv, MemoryTypes, Accounted

\* The step of one process, after which what it has not saved is accounted for.
LEMMA OneStaysSaved ==
  ASSUME UInv, Shape', MemoryTypes', NEW p \in Processes,
         \A q \in Processes : q # p =>
           /\ pc'[q] = pc[q] /\ job'[q] = job[q] /\ failed'[q] = failed[q]
           /\ loadError'[q] = loadError[q] /\ unsaved'[q] = unsaved[q],
         Accounted(p)'
  PROVE  UInv'
<1>1. ASSUME NEW q \in Processes, q # p PROVE Accounted(q)'
  BY <1>1 DEF UInv, Accounted, Saving
<1> QED
  BY <1>1 DEF UInv

LEMMA LockSaved ==
  ASSUME UInv, NEW p \in Processes, Create(p) \/ Take(p) \/ TakeFails(p) \/ Write(p)
  PROVE  UInv'
<1>1. Types /\ Steps(p) /\ Shape' /\ Accounted(p) /\ MemoryTypes
  BY CreateShape, TakeShape, TakeFailsShape, WriteShape DEF UInv, Shape
<1>2. CASE Create(p)
  <2>1. /\ failed' = failed /\ loadError' = loadError /\ unsaved' = unsaved
        /\ \/ Ends(p) /\ job[p].kind = "ensure"
           \/ pc' = [pc EXCEPT ![p] = "lock"] /\ job' = job
    BY <1>2 DEF Create, memory
  <2>2. /\ \A q \in Processes : q # p => pc'[q] = pc[q] /\ job'[q] = job[q]
        /\ \/ job[p].kind = "ensure"
           \/ pc'[p] = "lock" /\ job'[p] = job[p]
    BY <1>1, <2>1, EndsStep DEF Types
  <2>3. Accounted(p)'
    BY <1>1, <2>1, <2>2 DEF Accounted, Saving
  <2> QED
    BY <1>1, <2>1, <2>2, <2>3, OneStaysSaved DEF MemoryTypes
<1>3. CASE (Take(p) /\ file.state = "broken") \/ TakeFails(p)
  <2>1. Fails(p)
    BY <1>3 DEF Take, TakeFails
  <2>2. /\ Ends(p) /\ failed' = [failed EXCEPT ![p] = TRUE] /\ unsaved' = unsaved
        /\ loadError' = [loadError EXCEPT ![p] = @ \/ job[p].kind = "load"]
    BY <2>1 DEF Fails
  <2>3. MemoryTypes'
    BY <1>1, <2>2, Zenon DEF MemoryTypes
  <2>4. Accounted(p)'
    BY <1>1, <2>2 DEF Accounted, MemoryTypes
  <2>5. \A q \in Processes : q # p =>
          /\ pc'[q] = pc[q] /\ job'[q] = job[q] /\ failed'[q] = failed[q]
          /\ loadError'[q] = loadError[q]
    BY <1>1, <2>2, EndsStep DEF Types, MemoryTypes
  <2> QED
    BY <1>1, <2>2, <2>3, <2>4, <2>5, OneStaysSaved
<1>4. CASE Take(p) /\ file.state # "broken" /\ job[p].kind = "load"
  <2>1. /\ Ends(p) /\ failed' = failed /\ unsaved' = unsaved
        /\ loadError' = [loadError EXCEPT ![p] = FALSE]
    BY <1>4 DEF Take
  <2>2. MemoryTypes'
    BY <1>1, <2>1 DEF MemoryTypes
  <2>3. \A v \in Providers : ~Saving(p, v)
    BY <1>4 DEF Saving
  <2>4. Accounted(p)'
    BY <1>1, <2>1, <2>3 DEF Accounted, MemoryTypes
  <2>5. \A q \in Processes : q # p =>
          /\ pc'[q] = pc[q] /\ job'[q] = job[q] /\ loadError'[q] = loadError[q]
    BY <1>1, <2>1, EndsStep DEF Types, MemoryTypes
  <2> QED
    BY <1>1, <2>1, <2>2, <2>4, <2>5, OneStaysSaved
<1>5. CASE Take(p) /\ file.state # "broken" /\ job[p].kind # "load"
  <2>1. /\ failed' = failed /\ loadError' = loadError /\ unsaved' = unsaved
        /\ pc' = [pc EXCEPT ![p] = "write"]
        /\ job' = [job EXCEPT ![p].next =
                     [Content EXCEPT ![job[p].provider] = job[p].value]]
    BY <1>5 DEF Take, memory
  <2>2. /\ \A q \in Processes : q # p => pc'[q] = pc[q] /\ job'[q] = job[q]
        /\ pc'[p] = "write" /\ job'[p].kind = job[p].kind
        /\ job'[p].provider = job[p].provider
    BY <1>1, <2>1 DEF Types, Jobs
  <2>3. Accounted(p)'
    BY <1>1, <2>1, <2>2 DEF Accounted, Saving
  <2> QED
    BY <1>1, <2>1, <2>2, <2>3, OneStaysSaved DEF MemoryTypes
<1>6. CASE Write(p)
  <2>1. /\ Ends(p) /\ failed' = failed /\ loadError' = loadError /\ pc[p] = "write"
        /\ \/ job[p].kind = "refresh" /\ unsaved' = unsaved
           \/ unsaved' = [unsaved EXCEPT ![p] = @ \ {job[p].provider}]
    BY <1>6 DEF Write
  <2>2. MemoryTypes'
    BY <1>1, <2>1 DEF MemoryTypes
  <2>3. Accounted(p)'
    <3>1. \A v \in unsaved'[p] : v \in unsaved[p] /\ ~Saving(p, v)
      BY <1>1, <2>1 DEF MemoryTypes, Saving, Accounted
    <3> QED
      BY <1>1, <2>1, <3>1 DEF Accounted
  <2>4. \A q \in Processes : q # p =>
          pc'[q] = pc[q] /\ job'[q] = job[q] /\ unsaved'[q] = unsaved[q]
    BY <1>1, <2>1, EndsStep DEF Types, MemoryTypes
  <2> QED
    BY <1>1, <2>1, <2>2, <2>3, <2>4, OneStaysSaved
<1> QED
  BY <1>2, <1>3, <1>4, <1>5, <1>6

\* A change goes on to be saved, unless the process could not load the file,
\* which it has recorded.
LEMMA ChangeSaved ==
  ASSUME UInv, NEW p \in Processes, NEW v \in Providers, NEW n \in Nat, Change(p, v, n),
         Shape'
  PROVE  UInv'
<1> DEFINE what == Job("change", v, n, None)
<1>1. /\ Types /\ Accounted(p) /\ MemoryTypes /\ pc[p] = "idle"
      /\ failed' = failed /\ loadError' = loadError
      /\ unsaved' = [unsaved EXCEPT ![p] = @ \union {v}]
      /\ \/ loadError[p] /\ pc' = pc /\ job' = job
         \/ Begin(p, what)
  BY DEF UInv, Shape, Change, steps
<1>2. what \in Jobs /\ what.kind = "change" /\ what.provider = v
  BY NoneType, JobType DEF Job
<1> HIDE DEF what
<1>3. MemoryTypes'
  BY <1>1 DEF MemoryTypes
<1>4. /\ \A q \in Processes : q # p =>
           pc'[q] = pc[q] /\ job'[q] = job[q] /\ unsaved'[q] = unsaved[q]
      /\ \/ loadError[p]
         \/ pc'[p] \in {"create", "lock"} /\ job'[p] = what
  BY <1>1, <1>2, BeginStep DEF Types, MemoryTypes
<1>5. Accounted(p)'
  BY <1>1, <1>2, <1>4 DEF Accounted, Saving, MemoryTypes
<1> QED
  BY <1>1, <1>3, <1>4, <1>5, OneStaysSaved

\* A step that begins while nothing is being saved and changes no credentials.
LEMMA IdleSaved ==
  ASSUME UInv, NEW p \in Processes, pc[p] \in {"start", "idle"}, Shape',
         unsaved' = unsaved, failed' \in {failed, [failed EXCEPT ![p] = TRUE]},
         loadError' \in {loadError, [loadError EXCEPT ![p] = FALSE]},
         \A q \in Processes : q # p => pc'[q] = pc[q] /\ job'[q] = job[q]
  PROVE  UInv'
<1>1. Accounted(p) /\ MemoryTypes
  BY DEF UInv
<1>2. /\ MemoryTypes'
      /\ \A q \in Processes : q # p =>
           failed'[q] = failed[q] /\ loadError'[q] = loadError[q]
      /\ failed[p] => failed'[p]
      /\ loadError'[p] => loadError[p]
  BY <1>1 DEF MemoryTypes
<1>3. Accounted(p)'
  BY <1>1, <1>2 DEF Accounted, Saving
<1> QED
  BY <1>2, <1>3, OneStaysSaved

LEMMA CallSaved ==
  ASSUME UInv, NEW p \in Processes,
         \/ Start(p) \/ AskFails(p) \/ AskingFails(p) \/ Refresh(p) \/ Answer(p)
         \/ \E v \in Providers : Ask(p, v)
  PROVE  UInv'
<1>1. /\ Types /\ Shape' /\ unsaved' = unsaved /\ pc[p] \in {"start", "idle"}
      /\ failed' \in {failed, [failed EXCEPT ![p] = TRUE]}
      /\ loadError' \in {loadError, [loadError EXCEPT ![p] = FALSE]}
  BY StartShape, FailedAskShape, RefreshShape, AnswerShape, AskShape
     DEF UInv, Shape, Start, AskFails, AskingFails, Refresh, Answer, Ask, Rescue, memory
<1>2. \/ \E what \in Jobs : Begin(p, what)
      \/ pc' = pc /\ job' = job
      \/ /\ pc' = [pc EXCEPT ![p] = "write"]
         /\ \E what \in Jobs : job' = [job EXCEPT ![p] = what]
  <2>1. CASE Answer(p)
    BY <1>1, <2>1, JobsType, MergedType, JobType DEF Answer, Rescue
  <2>2. CASE ~Answer(p)
    BY <2>2, JobsType DEF Start, AskFails, AskingFails, Refresh, Ask, Rescue, steps
  <2> QED
    BY <2>1, <2>2
<1>3. \A q \in Processes : q # p => pc'[q] = pc[q] /\ job'[q] = job[q]
  BY <1>1, <1>2, BeginStep DEF Types
<1> QED
  BY <1>1, <1>3, IdleSaved

LEMMA CrashSaved ==
  ASSUME UInv, NEW p \in Processes, Crash(p)
  PROVE  UInv'
<1>1. /\ Types /\ Shape' /\ MemoryTypes
      /\ job' = [job EXCEPT ![p] = NoJob] /\ pc' = [pc EXCEPT ![p] = "start"]
      /\ unsaved' = [unsaved EXCEPT ![p] = {}]
      /\ loadError' = [loadError EXCEPT ![p] = FALSE]
      /\ failed' = [failed EXCEPT ![p] = FALSE]
  BY CrashShape DEF UInv, Shape, Crash
<1>2. /\ MemoryTypes' /\ unsaved'[p] = {} /\ ~loadError'[p]
      /\ \A q \in Processes : q # p =>
           /\ pc'[q] = pc[q] /\ job'[q] = job[q] /\ failed'[q] = failed[q]
           /\ loadError'[q] = loadError[q] /\ unsaved'[q] = unsaved[q]
  BY <1>1 DEF Types, MemoryTypes
<1> QED
  BY <1>1, <1>2, OneStaysSaved DEF Accounted

LEMMA NextSaved == UInv /\ [Next]_vars => UInv'
<1> SUFFICES ASSUME UInv, [Next]_vars PROVE UInv'
  OBVIOUS
<1>1. ASSUME NEW p \in Processes,
             \/ Create(p) \/ Take(p) \/ TakeFails(p) \/ Write(p) \/ Crash(p)
             \/ Start(p) \/ AskFails(p) \/ AskingFails(p) \/ Refresh(p) \/ Answer(p)
             \/ \E v \in Providers : Ask(p, v)
      PROVE  UInv'
  BY <1>1, LockSaved, CallSaved, CrashSaved
<1>2. ASSUME NEW p \in Processes, NEW v \in Providers, Set(p, v) \/ Remove(p, v)
      PROVE  UInv'
  <2>1. Shape' /\ issued + 1 \in Nat
    BY <1>2, UserShape DEF UInv, Shape, Types
  <2> QED
    BY <1>2, <2>1, ChangeSaved DEF Set, Remove
<1>3. CASE \/ UNCHANGED vars \/ Expire
           \/ \E p \in Processes : Surroundings(p)
  <2>1. Shape'
    BY NextShape DEF UInv
  <2>2. /\ pc' = pc /\ job' = job /\ failed' = failed /\ loadError' = loadError
        /\ unsaved' = unsaved
    BY <1>3 DEF vars, Expire, Surroundings, Serve, RequestFails, AnswerIsLost, LoseLock,
                Notice, memory, steps
  <2> QED
    BY <2>1, <2>2 DEF UInv, MemoryTypes, Accounted, Saving
<1> QED
  BY <1>1, <1>2, <1>3 DEF Next, Rest, Surroundings

-----------------------------------------------------------------------------
(* Theorems *)

\* Types, and where withLock and getApiKey of a process can be together
\* (FileAuthStorageBackend, refreshOAuthTokenWithLock).
THEOREM ShapeHolds == Spec => []Shape
<1>1. Init => Shape
  BY InitShape
<1>2. Shape /\ [Next]_vars => Shape'
  BY NextShape
<1> QED
  BY <1>1, <1>2, PTL DEF Spec

THEOREM IInvHolds == Spec => []IInv
<1>1. Init => IInv
  BY InitShape, InitSafe DEF IInv
<1>2. IInv /\ [Next]_vars => IInv'
  BY NextShape, NextSafe DEF IInv
<1> QED
  BY <1>1, <1>2, PTL DEF Spec

\* auth.json holds each provider's credential by the last write, for any
\* number of processes that change and refresh (withLock, withLockAsync).
THEOREM CredentialsAreKept == Spec => []NoLostCredential
<1>1. IInv => NoLostCredential
  BY DEF IInv, Safe, Whole, Content, NoLostCredential
<1> QED
  BY <1>1, IInvHolds, PTL

\* What the user changed comes into auth.json or an error is recorded
\* (set, remove, persistProviderChange, recordError).
THEOREM ChangesAreSaved == Spec => []ChangeIsSaved
<1>1. Init => UInv
  BY InitSaved
<1>2. UInv /\ [Next]_vars => UInv'
  BY NextSaved
<1>3. UInv => ChangeIsSaved
  BY DEF UInv, MemoryTypes, Accounted, Saving, Quiet, ChangeIsSaved
<1> QED
  BY <1>1, <1>2, <1>3, PTL DEF Spec

-----------------------------------------------------------------------------
(* Tokens *)

TokenTypes == valid \in [Providers -> SUBSET Nat] /\ dead \subseteq Providers

\* Where a token of a provider is, besides the change that waits to be written.
InUse(v, token) ==
  \/ file.content[v] = token
  \/ \E q \in Processes :
       \/ call[q].current[v] = token
       \/ call[q].answer = token
       \/ job[q].next[v] = token

Bounded ==
  /\ \A v \in Providers, token \in Nat : InUse(v, token) => token <= issued
  /\ \A q \in Processes : job[q].value <= issued

\* A change with a token that waits for the lock.
Waiting(p) ==
  pc[p] \in {"create", "lock"} /\ job[p].kind = "change" /\ job[p].value # 0

FreshAt(p) ==
  Waiting(p) =>
    /\ job[p].value \in valid[job[p].provider]
    /\ ~InUse(job[p].provider, job[p].value)
    /\ \A q \in Processes \ {p} : Waiting(q) => job[q].value # job[p].value

Fresh == \A p \in Processes : FreshAt(p)

FInv == Shape /\ TokenTypes /\ Bounded /\ Fresh

-----------------------------------------------------------------------------
Live == Providers \ dead
Good(v, token) == token = 0 \/ token \in valid[v]
Answered(p, v) == call[p].at \in {"served", "saving"} /\ call[p].provider = v

Alone ==
  \A p \in Processes :
    /\ call[p].hold = "kept"
    /\ Changing(p) \/ Refreshing(p) => lock = p
    /\ ~(Changing(p) /\ Refreshing(p))

FileIsGood ==
  \A v \in Live :
    Good(v, file.content[v]) \/ \E p \in Processes : Answered(p, v)

RequestIsGood(p) ==
  /\ call[p].at = "asking" =>
       Presented(p) # 0 /\ \A v \in Live : Good(v, call[p].current[v])
  /\ call[p].at \in {"served", "saving"} =>
       \A v \in Live : Good(v, Merged(p)[v])
  /\ call[p].at = "saving" => job[p].next = Merged(p)

ChangeIsGood(p) == Changing(p) => \A v \in Live : Good(v, job[p].next[v])

Orderly ==
  /\ Alone
  /\ FileIsGood
  /\ \A p \in Processes : RequestIsGood(p) /\ ChangeIsGood(p)

TInv == FInv /\ (~robbed => Orderly)

-----------------------------------------------------------------------------
(* Where tokens come from *)

LEMMA NoTokens ==
  /\ \A v \in Providers : None[v] = 0
  /\ NoJob.next = None /\ NoJob.value = 0 /\ NoJob.kind = "none"
  /\ Load.next = None /\ Load.value = 0 /\ Load.kind = "load"
  /\ EnsureFile.next = None /\ EnsureFile.value = 0 /\ EnsureFile.kind = "ensure"
  /\ NoCall.current = None /\ NoCall.answer = 0
  /\ \A v \in Providers :
       Call("locking", v).current = None /\ Call("locking", v).answer = 0
BY DEF None, NoJob, Load, EnsureFile, Job, NoCall, Call

LEMMA CredentialTypes ==
  ASSUME Types, NEW q \in Processes, NEW v \in Providers
  PROVE  /\ file.content[v] \in Nat /\ issued \in Nat
         /\ call[q].current[v] \in Nat /\ call[q].answer \in Nat
         /\ job[q].next[v] \in Nat /\ job[q].value \in Nat
         /\ job[q].provider \in Providers /\ call[q].provider \in Providers
BY DEF Types, Files, Calls, Jobs, Credentials

\* A token that may be somewhere after a step: it was there before, or it does
\* not wait to be written.
Comes(v, token) ==
  \/ InUse(v, token)
  \/ token <= issued' /\ \A q \in Processes : Waiting(q)' => job'[q].value # token

LEMMA ZeroComes ==
  ASSUME issued' \in Nat, NEW v \in Providers
  PROVE  Comes(v, 0)
BY DEF Comes, Waiting

LEMMA OldComes ==
  ASSUME NEW q \in Processes, NEW v \in Providers
  PROVE  /\ Comes(v, file.content[v])
         /\ Comes(v, call[q].current[v]) /\ Comes(v, call[q].answer)
         /\ Comes(v, job[q].next[v])
BY DEF Comes, InUse

LEMMA StaysFresh ==
  ASSUME FInv, Shape', TokenTypes', NEW p \in Processes, issued' >= issued,
         \A v \in Providers :
           /\ Comes(v, file'.content[v])
           /\ \A q \in Processes :
                /\ Comes(v, call'[q].current[v]) /\ Comes(v, call'[q].answer)
                /\ Comes(v, job'[q].next[v])
           /\ \A token \in valid[v] : ~InUse(v, token) => token \in valid'[v],
         \A q \in Processes :
           /\ job'[q].value <= issued'
           /\ Waiting(q)' =>
                \/ Waiting(q) /\ job'[q].value = job[q].value
                   /\ job'[q].provider = job[q].provider
                \/ q = p /\ job'[q].value > issued
                   /\ job'[q].value \in valid'[job'[q].provider]
  PROVE  FInv'
<1>1. Types /\ Types' /\ Bounded /\ Fresh /\ issued \in Nat /\ issued' \in Nat
  BY DEF FInv, Shape, Types
<1>2. \A v \in Providers, token \in Nat : InUse(v, token)' => Comes(v, token)
  BY DEF InUse
<1>3. \A v \in Providers, token \in Nat : InUse(v, token)' => token <= issued'
  BY <1>1, <1>2 DEF Comes, Bounded
<1>4. Bounded'
  BY <1>3 DEF Bounded
<1>5. ASSUME NEW q \in Processes, Waiting(q)' PROVE FreshAt(q)'
  <2>0. job'[q].provider \in Providers /\ job'[q].value \in Nat
    BY <1>1 DEF Types, Jobs
  <2>1. PICK v \in Providers, token \in Nat :
          v = job'[q].provider /\ token = job'[q].value
    BY <2>0
  <2>2. ~InUse(v, token) /\ token \in valid'[v]
    <3>1. CASE Waiting(q) /\ token = job[q].value /\ v = job[q].provider
      BY <1>1, <3>1, <2>1 DEF Fresh, FreshAt
    <3>2. CASE q = p /\ token > issued /\ token \in valid'[v]
      BY <1>1, <3>2, <2>1 DEF Bounded
    <3> QED
      BY <1>5, <2>1, <3>1, <3>2
  <2>3. ~InUse(v, token)'
    BY <1>2, <1>5, <2>1, <2>2 DEF Comes
  <2>4. ASSUME NEW r \in Processes \ {q}, Waiting(r)' PROVE job'[r].value # token
    <3>1. job[r].value <= issued /\ job[q].value <= issued
          /\ job[r].value \in Nat /\ job[q].value \in Nat
      BY <1>1 DEF Bounded, Types, Jobs
    <3>2. CASE Waiting(q) /\ Waiting(r)
               /\ token = job[q].value /\ job'[r].value = job[r].value
      BY <1>1, <3>2 DEF Fresh, FreshAt
    <3>3. CASE r = p /\ job'[r].value > issued
      <4>1. token = job[q].value
        BY <1>5, <2>1, <2>4, <3>3
      <4> QED
        BY <1>1, <3>1, <3>3, <4>1
    <3>4. CASE q = p /\ token > issued
      <4>1. job'[r].value = job[r].value
        BY <2>4, <3>4
      <4> QED
        BY <1>1, <3>1, <3>4, <4>1
    <3> QED
      BY <1>5, <2>1, <2>4, <3>2, <3>3, <3>4
  <2> QED
    BY <2>1, <2>2, <2>3, <2>4 DEF FreshAt
<1>6. Fresh'
  BY <1>5 DEF Fresh, FreshAt
<1> QED
  BY <1>4, <1>6 DEF FInv

LEMMA InitFresh == Init => FInv
<1> SUFFICES ASSUME Init PROVE FInv
  OBVIOUS
<1>1. PICK state \in InitialStates :
        file = File(state, IF state = "good" THEN [v \in Providers |-> 1] ELSE None)
  BY DEF Init
<1>2. Shape /\ TokenTypes
  BY InitShape DEF Init, TokenTypes
<1>3. /\ \A v \in Providers : file.content[v] \in {0, 1}
      /\ \A q \in Processes, v \in Providers :
           /\ call[q].current[v] = 0 /\ call[q].answer = 0
           /\ job[q].next[v] = 0 /\ job[q].value = 0
  BY <1>1, NoTokens DEF Init, File, Of
<1>4. issued = 1 /\ Bounded
  <2>1. issued = 1
    BY DEF Init
  <2>2. ASSUME NEW v \in Providers, NEW token \in Nat, InUse(v, token)
        PROVE  token <= 1
    <3>1. CASE file.content[v] = token
      BY <1>3, <3>1
    <3>2. CASE file.content[v] # token
      BY <1>3, <2>2, <3>2 DEF InUse
    <3> QED
      BY <3>1, <3>2
  <2>3. ASSUME NEW q \in Processes PROVE job[q].value = 0
    BY <1>3, AuthBounds
  <2> QED
    BY <2>1, <2>2, <2>3 DEF Bounded
<1>5. Fresh
  BY DEF Fresh, FreshAt, Waiting, Init, Of
<1> QED
  BY <1>2, <1>4, <1>5 DEF FInv

\* A step of one process, after which a token that waits did so before or is new.
LEMMA OneStaysFresh ==
  ASSUME FInv, Shape', TokenTypes', NEW p \in Processes, issued' >= issued,
         \A q \in Processes : q # p =>
           call'[q] = call[q] /\ job'[q] = job[q] /\ pc'[q] = pc[q],
         \A v \in Providers :
           /\ Comes(v, file'.content[v])
           /\ Comes(v, call'[p].current[v]) /\ Comes(v, call'[p].answer)
           /\ Comes(v, job'[p].next[v])
           /\ \A token \in valid[v] : ~InUse(v, token) => token \in valid'[v],
         job'[p].value <= issued',
         Waiting(p)' =>
           \/ Waiting(p) /\ job'[p].value = job[p].value
              /\ job'[p].provider = job[p].provider
           \/ job'[p].value > issued
              /\ job'[p].value \in valid'[job'[p].provider]
  PROVE  FInv'
<1>1. \A q \in Processes : job[q].value <= issued /\ job[q].value \in Nat
  BY CredentialTypes DEF FInv, Shape, Types, Bounded, Jobs
<1>2. issued \in Nat /\ issued' \in Nat
  BY DEF FInv, Shape, Types
<1>3. ASSUME NEW v \in Providers, NEW q \in Processes
      PROVE  /\ Comes(v, call'[q].current[v]) /\ Comes(v, call'[q].answer)
             /\ Comes(v, job'[q].next[v])
  <2>1. CASE q = p
    BY <2>1
  <2>2. CASE q # p
    BY <2>2, OldComes
  <2> QED
    BY <2>1, <2>2
<1>4. ASSUME NEW q \in Processes
      PROVE  /\ job'[q].value <= issued'
             /\ Waiting(q)' =>
                  \/ Waiting(q) /\ job'[q].value = job[q].value
                     /\ job'[q].provider = job[q].provider
                  \/ q = p /\ job'[q].value > issued
                     /\ job'[q].value \in valid'[job'[q].provider]
  <2>1. CASE q = p
    BY <2>1
  <2>2. CASE q # p
    BY <1>1, <1>2, <2>2 DEF Waiting
  <2> QED
    BY <2>1, <2>2
<1> QED
  BY <1>3, <1>4, StaysFresh

\* A step of one process that puts no token anywhere and waits with none.
LEMMA NoNewTokens ==
  ASSUME FInv, Shape', TokenTypes', NEW p \in Processes, issued' >= issued,
         \A q \in Processes : q # p =>
           call'[q] = call[q] /\ job'[q] = job[q] /\ pc'[q] = pc[q],
         \A v \in Providers : \A token \in valid[v] :
           ~InUse(v, token) => token \in valid'[v],
         file'.content \in {file.content, None},
         \/ call'[p].current = call[p].current /\ call'[p].answer = call[p].answer
         \/ call'[p].current = None /\ call'[p].answer = 0,
         \/ job'[p] = job[p] /\ (Waiting(p)' => Waiting(p))
         \/ job'[p].next = None /\ job'[p].value = 0
  PROVE  FInv'
<1>1. issued \in Nat /\ issued' \in Nat /\ job[p].value <= issued /\ job[p].value \in Nat
  BY DEF FInv, Shape, Types, Bounded, Jobs
<1>2. ASSUME NEW v \in Providers
      PROVE  /\ Comes(v, file'.content[v])
             /\ Comes(v, call'[p].current[v]) /\ Comes(v, call'[p].answer)
             /\ Comes(v, job'[p].next[v])
  BY <1>1, ZeroComes, OldComes, NoTokens
<1>3. job'[p].value <= issued'
  BY <1>1
<1>4. Waiting(p)' => Waiting(p) /\ job'[p] = job[p]
  BY DEF Waiting
<1> QED
  BY <1>2, <1>3, <1>4, OneStaysFresh

-----------------------------------------------------------------------------
(* A token that waits to be written is nowhere else *)

LEMMA CreateFresh ==
  ASSUME FInv, NEW p \in Processes, Create(p)
  PROVE  FInv'
<1>1. Types /\ Shape'
  BY CreateShape DEF FInv, Shape
<1>2. /\ file'.content = None /\ call' = call /\ valid' = valid /\ issued' = issued
      /\ dead' = dead /\ pc[p] = "create" /\ issued \in Nat
      /\ Ends(p) \/ (pc' = [pc EXCEPT ![p] = "lock"] /\ job' = job)
  BY <1>1 DEF Create, File, remote, Types
<1>3. TokenTypes'
  BY <1>2 DEF FInv, TokenTypes
<1>4. /\ \A q \in Processes : q # p => job'[q] = job[q] /\ pc'[q] = pc[q]
      /\ \/ job'[p] = job[p]
         \/ job'[p] = NoJob
  BY <1>1, <1>2, EndsStep DEF Types
<1>5. job'[p] = job[p] => (Waiting(p)' => Waiting(p))
  BY <1>2 DEF Waiting
<1> QED
  BY <1>1, <1>2, <1>3, <1>4, <1>5, NoTokens, NoNewTokens

LEMMA EndsFresh ==
  ASSUME FInv, NEW p \in Processes, Ends(p), Shape', file' = file, call' = call,
         valid' = valid, issued' = issued, dead' = dead
  PROVE  FInv'
<1>1. Types /\ issued \in Nat
  BY DEF FInv, Shape, Types
<1>2. TokenTypes'
  BY DEF FInv, TokenTypes
<1>3. /\ \A q \in Processes : q # p => job'[q] = job[q] /\ pc'[q] = pc[q]
      /\ job'[p] = NoJob
  BY <1>1, EndsStep DEF Types
<1> QED
  BY <1>1, <1>2, <1>3, NoTokens, NoNewTokens

LEMMA TakeFresh ==
  ASSUME FInv, NEW p \in Processes, Take(p) \/ TakeFails(p)
  PROVE  FInv'
<1>1. /\ Shape' /\ file' = file /\ call' = call /\ valid' = valid
      /\ issued' = issued /\ dead' = dead /\ Types /\ pc[p] = "lock" /\ Steps(p)
  BY TakeShape, TakeFailsShape
     DEF FInv, Shape, Take, TakeFails, storage, remote, history
<1>2. CASE TakeFails(p) \/ file.state = "broken" \/ job[p].kind = "load"
  <2>1. Ends(p)
    BY <1>2 DEF Take, TakeFails, Fails
  <2> QED
    BY <1>1, <2>1, EndsFresh
<1>3. CASE Take(p) /\ file.state # "broken" /\ job[p].kind # "load"
  <2> DEFINE next == [Content EXCEPT ![job[p].provider] = job[p].value]
  <2>1. /\ job' = [job EXCEPT ![p].next = next]
        /\ pc' = [pc EXCEPT ![p] = "write"]
        /\ job[p].kind = "change"
    BY <1>1, <1>3 DEF Take, Steps
  <2>2. job[p] \in Jobs
    BY <1>1 DEF Types
  <2>3. /\ job'[p].next = next /\ job'[p].value = job[p].value /\ pc'[p] = "write"
        /\ \A q \in Processes : q # p => job'[q] = job[q] /\ pc'[q] = pc[q]
    BY <1>1, <2>1, <2>2 DEF Types, Jobs
  <2>4. ASSUME NEW v \in Providers PROVE Comes(v, job'[p].next[v])
    <3>1. next[v] = IF v = job[p].provider THEN job[p].value ELSE Content[v]
      BY <1>1, ContentType DEF Credentials
    <3>2. CASE v = job[p].provider
      <4>1. ASSUME NEW q \in Processes, Waiting(q)' PROVE job'[q].value # job[p].value
        <5>1. q # p /\ Waiting(q) /\ job'[q] = job[q] /\ job[q].value # 0
          BY <2>3, <4>1 DEF Waiting
        <5>2. job[p].value # 0 => Waiting(p)
          BY <1>1, <2>1 DEF Waiting
        <5> QED
          BY <5>1, <5>2 DEF FInv, Fresh, FreshAt
      <4>2. job[p].value <= issued'
        BY <1>1 DEF FInv, Bounded
      <4> QED
        BY <2>3, <3>1, <3>2, <4>1, <4>2 DEF Comes
    <3>3. CASE v # job[p].provider
      <4>1. Content[v] \in {0, file.content[v]}
        BY NoTokens DEF Content
      <4> QED
        BY <1>1, <2>3, <3>1, <3>3, <4>1, ZeroComes, OldComes DEF Types
    <3> QED
      BY <3>2, <3>3
  <2>5. TokenTypes' /\ issued \in Nat /\ job[p].value <= issued
    BY <1>1 DEF FInv, TokenTypes, Types, Bounded
  <2>6. ~Waiting(p)'
    BY <2>3 DEF Waiting
  <2>7. ASSUME NEW v \in Providers
        PROVE  /\ Comes(v, file'.content[v])
               /\ Comes(v, call'[p].current[v]) /\ Comes(v, call'[p].answer)
    BY <1>1, OldComes
  <2>8. issued' >= issued /\ job'[p].value <= issued'
    BY <1>1, <2>3, <2>5
  <2> QED
    BY <1>1, <2>3, <2>4, <2>5, <2>6, <2>7, <2>8, OneStaysFresh
<1> QED
  BY <1>2, <1>3

LEMMA WriteFresh ==
  ASSUME FInv, NEW p \in Processes, Write(p)
  PROVE  FInv'
<1>1. /\ Types /\ Shape' /\ issued \in Nat /\ Ends(p) /\ TokenTypes'
      /\ valid' = valid /\ issued' = issued /\ file'.content = job[p].next
  BY WriteShape DEF FInv, Shape, Types, TokenTypes, Write, remote, File
<1>2. /\ \A q \in Processes : q # p =>
           call'[q] = call[q] /\ job'[q] = job[q] /\ pc'[q] = pc[q]
      /\ job'[p] = NoJob
      /\ call'[p] \in {call[p], NoCall}
  BY <1>1, EndsStep DEF Write, Types
<1>3. ASSUME NEW v \in Providers
      PROVE  /\ Comes(v, file'.content[v])
             /\ Comes(v, call'[p].current[v]) /\ Comes(v, call'[p].answer)
             /\ Comes(v, job'[p].next[v])
  BY <1>1, <1>2, NoTokens, OldComes, ZeroComes
<1>4. issued' >= issued /\ job'[p].value <= issued' /\ ~Waiting(p)'
  BY <1>1, <1>2, NoTokens DEF Waiting
<1> QED
  BY <1>1, <1>2, <1>3, <1>4, OneStaysFresh

\* A new token, or none, waits for the lock if the process saves changes.
LEMMA ChangeFresh ==
  ASSUME FInv, NEW p \in Processes, NEW v \in Providers, NEW n \in Nat, Change(p, v, n),
         Shape', TokenTypes', issued' >= issued, n <= issued',
         (n > issued /\ n \in valid'[v]) \/ n = 0,
         \A w \in Providers : valid[w] \subseteq valid'[w]
  PROVE  FInv'
<1> DEFINE what == Job("change", v, n, None)
<1>1. /\ what \in Jobs /\ what.kind = "change" /\ what.value = n
      /\ what.provider = v /\ what.next = None
  BY NoneType, JobType DEF Job
<1> HIDE DEF what
<1>2. Types /\ file' = file /\ call' = call /\ pc[p] = "idle" /\ issued \in Nat
      /\ issued' \in Nat
  BY DEF FInv, Shape, Types, Change, storage
<1>3. CASE pc' = pc /\ job' = job
  BY <1>2, <1>3, NoNewTokens DEF Waiting
<1>4. CASE Begin(p, what)
  <2>1. /\ job'[p] = what
        /\ \A q \in Processes : q # p =>
             call'[q] = call[q] /\ job'[q] = job[q] /\ pc'[q] = pc[q]
    BY <1>1, <1>2, <1>4, BeginStep DEF Types
  <2>2. ASSUME NEW w \in Providers
        PROVE  /\ Comes(w, file'.content[w])
               /\ Comes(w, call'[p].current[w]) /\ Comes(w, call'[p].answer)
               /\ Comes(w, job'[p].next[w])
    BY <1>1, <1>2, <2>1, NoTokens, OldComes, ZeroComes
  <2>3. Waiting(p)' =>
          job'[p].value > issued /\ job'[p].value \in valid'[job'[p].provider]
    BY <1>1, <2>1 DEF Waiting
  <2>4. job'[p].value <= issued'
    BY <1>1, <2>1
  <2> QED
    BY <2>1, <2>2, <2>3, <2>4, OneStaysFresh
<1>5. Begin(p, what) \/ (pc' = pc /\ job' = job)
  BY DEF Change, steps, what
<1> QED
  BY <1>3, <1>4, <1>5

LEMMA UserFresh ==
  ASSUME FInv, NEW p \in Processes, NEW v \in Providers, Set(p, v) \/ Remove(p, v)
  PROVE  FInv'
<1>1. Shape' /\ issued \in Nat /\ valid \in [Providers -> SUBSET Nat] /\ dead' = dead
  BY UserShape DEF FInv, Shape, Types, TokenTypes, Set, Remove, Change, history
<1>2. CASE Set(p, v)
  <2>1. /\ issued' = issued + 1 /\ issued' \in Nat /\ Change(p, v, issued')
        /\ valid' = [valid EXCEPT ![v] = @ \union {issued'}]
    BY <1>1, <1>2 DEF Set
  <2>2. /\ valid' \in [Providers -> SUBSET Nat]
        /\ issued' \in valid'[v] /\ \A w \in Providers : valid[w] \subseteq valid'[w]
    BY <1>1, <2>1
  <2>3. TokenTypes'
    BY <1>1, <2>2 DEF FInv, TokenTypes
  <2>4. PICK n \in Nat : n = issued'
    BY <2>1
  <2>5. Change(p, v, n)
    BY <2>1, <2>4
  <2>6. issued' >= issued /\ n <= issued' /\ n > issued /\ n \in valid'[v]
    BY <1>1, <2>1, <2>2, <2>4
  <2> QED
    BY <1>1, <2>2, <2>3, <2>5, <2>6, ChangeFresh
<1>3. CASE Remove(p, v)
  <2>1. issued' = issued /\ valid' = valid /\ Change(p, v, 0)
    BY <1>3 DEF Remove
  <2>2. TokenTypes' /\ issued' >= issued /\ 0 <= issued'
    BY <1>1, <2>1 DEF FInv, TokenTypes
  <2> QED
    BY <1>1, <2>1, <2>2, ChangeFresh
<1> QED
  BY <1>2, <1>3

LEMMA StartFresh ==
  ASSUME FInv, NEW p \in Processes, Start(p)
  PROVE  FInv'
<1>1. /\ Types /\ Shape' /\ TokenTypes' /\ issued \in Nat /\ Begin(p, Load)
      /\ file' = file /\ call' = call /\ valid' = valid /\ issued' = issued
  BY StartShape DEF FInv, Shape, Types, TokenTypes, Start, storage, remote, history
<1>2. /\ job'[p] = Load
      /\ \A q \in Processes : q # p => job'[q] = job[q] /\ pc'[q] = pc[q]
  BY <1>1, BeginStep, JobsType DEF Types
<1> QED
  BY <1>1, <1>2, NoTokens, NoNewTokens

LEMMA AskFresh ==
  ASSUME FInv, NEW p \in Processes, NEW v \in Providers, Ask(p, v)
  PROVE  FInv'
<1>1. /\ Types /\ Shape' /\ TokenTypes' /\ issued \in Nat
      /\ file' = file /\ valid' = valid /\ issued' = issued
      /\ call' = [call EXCEPT ![p] = Call("locking", v)]
      /\ Begin(p, EnsureFile) \/ (pc' = pc /\ job' = job)
  BY AskShape DEF FInv, Shape, Types, TokenTypes, Ask, storage, remote, steps, history
<1>2. /\ \/ job'[p] = EnsureFile
         \/ job'[p] = job[p] /\ (Waiting(p)' => Waiting(p))
      /\ \A q \in Processes : q # p =>
           call'[q] = call[q] /\ job'[q] = job[q] /\ pc'[q] = pc[q]
  BY <1>1, BeginStep, JobsType DEF Types, Waiting
<1>3. call'[p] = Call("locking", v)
  BY <1>1 DEF Types
<1> QED
  BY <1>1, <1>2, <1>3, NoTokens, NoNewTokens

LEMMA RescueFresh ==
  ASSUME FInv, NEW p \in Processes, NEW held \in BOOLEAN, Rescue(p, held), Shape',
         valid' = valid, issued' = issued, dead' \subseteq Providers
  PROVE  FInv'
<1>1. Types /\ TokenTypes' /\ issued \in Nat
  BY DEF FInv, Shape, Types, TokenTypes
<1>2. /\ file' = file /\ call'[p] = NoCall /\ job'[p] = Load
      /\ \A q \in Processes : q # p =>
           call'[q] = call[q] /\ job'[q] = job[q] /\ pc'[q] = pc[q]
  BY <1>1, RescueStep DEF Types
<1> QED
  BY <1>1, <1>2, NoTokens, NoNewTokens

LEMMA FailedAskFresh ==
  ASSUME FInv, NEW p \in Processes, AskFails(p) \/ AskingFails(p)
  PROVE  FInv'
<1>1. Shape' /\ valid' = valid /\ issued' = issued /\ dead' \subseteq Providers
  BY FailedAskShape DEF FInv, TokenTypes, AskFails, AskingFails, remote
<1> QED
  BY <1>1, RescueFresh DEF AskFails, AskingFails

LEMMA RefreshFresh ==
  ASSUME FInv, NEW p \in Processes, Refresh(p)
  PROVE  FInv'
<1>1. /\ Types /\ Shape' /\ TokenTypes' /\ issued \in Nat
      /\ valid' = valid /\ issued' = issued /\ dead' \subseteq Providers
  BY RefreshShape DEF FInv, Shape, Types, TokenTypes, Refresh, remote
<1>2. CASE file.state = "broken"
  BY <1>1, <1>2, RescueFresh DEF Refresh
<1>3. CASE file.state # "broken" /\ ~Expired(Content[call[p].provider])
  <2>1. /\ file' = file /\ pc' = pc /\ job' = job
        /\ call' = [call EXCEPT ![p] = NoCall]
    BY <1>3 DEF Refresh, steps
  <2>2. call'[p] = NoCall /\ \A q \in Processes : q # p => call'[q] = call[q]
    BY <1>1, <2>1 DEF Types
  <2>3. Waiting(p)' => Waiting(p)
    BY <2>1 DEF Waiting
  <2> QED
    BY <1>1, <2>1, <2>2, <2>3, NoTokens, NoNewTokens
<1>4. CASE file.state # "broken" /\ Expired(Content[call[p].provider])
  <2>1. /\ file' = file /\ pc' = pc /\ job' = job
        /\ call' = [call EXCEPT ![p].at = "asking", ![p].current = Content]
    BY <1>4 DEF Refresh, steps
  <2>2. /\ call'[p].current = Content /\ call'[p].answer = call[p].answer
        /\ \A q \in Processes : q # p => call'[q] = call[q]
    BY <1>1, <2>1 DEF Types, Calls
  <2>3. ASSUME NEW v \in Providers
        PROVE  /\ Comes(v, file'.content[v])
               /\ Comes(v, call'[p].current[v]) /\ Comes(v, call'[p].answer)
               /\ Comes(v, job'[p].next[v])
    <3>1. Content[v] \in {0, file.content[v]}
      BY NoTokens DEF Content
    <3> QED
      BY <1>1, <2>1, <2>2, <3>1, OldComes, ZeroComes
  <2>4. /\ issued' >= issued /\ job'[p].value <= issued'
        /\ Waiting(p)' => Waiting(p)
    BY <1>1, <2>1 DEF FInv, Bounded, Waiting
  <2> QED
    BY <1>1, <2>1, <2>2, <2>3, <2>4, OneStaysFresh
<1> QED
  BY <1>2, <1>3, <1>4

LEMMA AnswerFresh ==
  ASSUME FInv, NEW p \in Processes, Answer(p)
  PROVE  FInv'
<1>1. /\ Types /\ Shape' /\ issued \in Nat /\ valid' = valid /\ issued' = issued
      /\ dead \subseteq Providers /\ call[p].provider \in Providers
  BY AnswerShape, MergedType DEF FInv, Shape, Types, TokenTypes, Answer, remote
<1>2. CASE call[p].hold = "known"
  BY <1>1, <1>2, RescueFresh DEF Answer
<1>3. CASE call[p].hold # "known"
  <2> DEFINE what == Job("refresh", call[p].provider, call[p].answer, Merged(p))
  <2>1. /\ file' = file /\ dead' = dead
        /\ pc' = [pc EXCEPT ![p] = "write"] /\ job' = [job EXCEPT ![p] = what]
        /\ call' = [call EXCEPT ![p].at = "saving"]
    BY <1>3 DEF Answer, storage
  <2>2. what.next = Merged(p) /\ what.value = call[p].answer
    BY DEF Job
  <2> HIDE DEF what
  <2>3. /\ job'[p] = what /\ pc'[p] = "write"
        /\ call'[p].current = call[p].current /\ call'[p].answer = call[p].answer
        /\ \A q \in Processes : q # p =>
             call'[q] = call[q] /\ job'[q] = job[q] /\ pc'[q] = pc[q]
    BY <1>1, <2>1 DEF Types, Calls
  <2>4. ASSUME NEW v \in Providers
        PROVE  /\ Comes(v, file'.content[v])
               /\ Comes(v, call'[p].current[v]) /\ Comes(v, call'[p].answer)
               /\ Comes(v, job'[p].next[v])
    <3>1. Merged(p)[v] \in {call[p].answer, call[p].current[v]}
      BY <1>1 DEF Merged, Types, Calls, Credentials
    <3> QED
      BY <2>1, <2>2, <2>3, <3>1, OldComes
  <2>5. call[p].answer <= issued
    <3>1. InUse(call[p].provider, call[p].answer)
      BY DEF InUse
    <3> QED
      BY <1>1, <3>1, MergedType DEF FInv, Bounded
  <2>6. /\ TokenTypes' /\ issued' >= issued /\ job'[p].value <= issued'
        /\ ~Waiting(p)'
    BY <1>1, <2>1, <2>2, <2>3, <2>5 DEF FInv, TokenTypes, Waiting
  <2> QED
    BY <1>1, <2>3, <2>4, <2>6, OneStaysFresh
<1> QED
  BY <1>2, <1>3

\* The token presented is in use; the one that replaces it is new.
LEMMA ServeFresh ==
  ASSUME FInv, NEW p \in Processes, Serve(p), Presented(p) \in valid[call[p].provider]
  PROVE  FInv'
<1> DEFINE v == call[p].provider
<1>1. /\ Types /\ Shape' /\ issued \in Nat /\ v \in Providers
      /\ valid \in [Providers -> SUBSET Nat]
  BY RequestShape, MergedType DEF FInv, Shape, Types, TokenTypes, Surroundings
<1>2. /\ issued' = issued + 1 /\ file' = file /\ pc' = pc /\ job' = job /\ dead' = dead
      /\ valid' = [valid EXCEPT ![v] = (@ \ {Presented(p)}) \union {issued'}]
      /\ call' = [call EXCEPT ![p].at = "served", ![p].answer = issued']
  BY DEF Serve, storage, steps, history
<1>3. TokenTypes'
  BY <1>1, <1>2 DEF FInv, TokenTypes
<1>4. /\ call'[p].current = call[p].current /\ call'[p].answer = issued'
      /\ \A q \in Processes : q # p => call'[q] = call[q]
  BY <1>1, <1>2 DEF Types, Calls
<1>5. ASSUME NEW w \in Providers, NEW token \in valid[w], ~InUse(w, token)
      PROVE  token \in valid'[w]
  <2>1. InUse(v, Presented(p))
    BY DEF InUse, Presented
  <2> QED
    BY <1>1, <1>2, <1>5, <2>1
<1>6. ASSUME NEW q \in Processes
      PROVE  /\ job[q].value <= issued /\ job[q].value \in Nat
             /\ job'[q].value = job[q].value /\ job'[q].value # issued'
  BY <1>1, <1>2 DEF FInv, Bounded, Types, Jobs
<1>7. ASSUME NEW w \in Providers
      PROVE  /\ Comes(w, file'.content[w])
             /\ Comes(w, call'[p].current[w]) /\ Comes(w, call'[p].answer)
             /\ Comes(w, job'[p].next[w])
  <2>1. Comes(w, issued')
    BY <1>1, <1>2, <1>6 DEF Comes
  <2> QED
    BY <1>2, <1>4, <2>1, OldComes
<1>8. /\ issued' >= issued /\ job'[p].value <= issued'
      /\ Waiting(p)' => Waiting(p)
  BY <1>1, <1>2, <1>6 DEF Waiting
<1> QED
  BY <1>1, <1>2, <1>3, <1>4, <1>5, <1>7, <1>8, OneStaysFresh

LEMMA RequestFresh ==
  ASSUME FInv, NEW p \in Processes, Surroundings(p)
  PROVE  FInv'
<1>1. CASE Serve(p) /\ Presented(p) \in valid[call[p].provider]
  BY <1>1, ServeFresh
<1>2. CASE ~(Serve(p) /\ Presented(p) \in valid[call[p].provider])
  <2>1. PICK new \in Calls : Requested(p, new)
    BY RequestStep DEF FInv
  <2>2. /\ Types /\ Shape' /\ issued \in Nat /\ call[p].provider \in Providers
        /\ file' = file /\ pc' = pc /\ job' = job
    BY RequestShape, RequestKeeps, MergedType DEF FInv, Shape, Types
  <2>3. /\ valid' = valid /\ issued' = issued
        /\ dead' \in {dead, dead \union {call[p].provider}}
    BY <1>2 DEF Surroundings, Serve, RequestFails, AnswerIsLost, LoseLock, Notice,
                remote, history
  <2>4. TokenTypes'
    BY <2>2, <2>3 DEF FInv, TokenTypes
  <2>5. /\ call'[p].current = call[p].current /\ call'[p].answer = call[p].answer
        /\ \A q \in Processes : q # p => call'[q] = call[q]
    <3>1. call'[p].answer = call[p].answer
      BY <1>2, <2>2 DEF Surroundings, Serve, RequestFails, AnswerIsLost, LoseLock,
                        Notice, Types, Calls
    <3> QED
      BY <2>1, <2>2, <3>1 DEF Requested, Types
  <2>6. Waiting(p)' => Waiting(p)
    BY <2>2 DEF Waiting
  <2> QED
    BY <2>2, <2>3, <2>4, <2>5, <2>6, NoNewTokens
<1> QED
  BY <1>1, <1>2

LEMMA CrashFresh ==
  ASSUME FInv, NEW p \in Processes, Crash(p)
  PROVE  FInv'
<1>1. /\ Types /\ Shape' /\ issued \in Nat /\ call[p].provider \in Providers
      /\ valid \in [Providers -> SUBSET Nat] /\ dead \subseteq Providers
  BY CrashShape, MergedType DEF FInv, Shape, Types, TokenTypes
<1>2. /\ job' = [job EXCEPT ![p] = NoJob] /\ pc' = [pc EXCEPT ![p] = "start"]
      /\ call' = [call EXCEPT ![p] = NoCall] /\ issued' = issued
      /\ dead' \in {dead, dead \union {call[p].provider}}
      /\ valid' \in {valid, [valid EXCEPT ![call[p].provider] = @ \ {Presented(p)}]}
  BY DEF Crash
<1>3. file'.content \in {file.content, None}
  BY DEF Crash, File
<1>4. TokenTypes'
  BY <1>1, <1>2 DEF TokenTypes
<1>5. /\ job'[p] = NoJob /\ call'[p] = NoCall
      /\ \A q \in Processes : q # p =>
           call'[q] = call[q] /\ job'[q] = job[q] /\ pc'[q] = pc[q]
  BY <1>1, <1>2 DEF Types
<1>6. ASSUME NEW w \in Providers, NEW token \in valid[w], ~InUse(w, token)
      PROVE  token \in valid'[w]
  <2>1. InUse(call[p].provider, Presented(p))
    BY DEF InUse, Presented
  <2> QED
    BY <1>1, <1>2, <1>6, <2>1
<1> QED
  BY <1>1, <1>2, <1>3, <1>4, <1>5, <1>6, NoTokens, NoNewTokens

LEMMA NextFresh == FInv /\ [Next]_vars => FInv'
<1> SUFFICES ASSUME FInv, [Next]_vars PROVE FInv'
  OBVIOUS
<1>1. ASSUME NEW p \in Processes,
             Start(p) \/ Create(p) \/ Take(p) \/ TakeFails(p) \/ Write(p)
      PROVE  FInv'
  BY <1>1, StartFresh, CreateFresh, TakeFresh, WriteFresh
<1>2. ASSUME NEW p \in Processes,
             AskFails(p) \/ Refresh(p) \/ AskingFails(p) \/ Answer(p)
      PROVE  FInv'
  BY <1>2, FailedAskFresh, RefreshFresh, AnswerFresh
<1>3. ASSUME NEW p \in Processes, Surroundings(p) \/ Crash(p)
      PROVE  FInv'
  BY <1>3, RequestFresh, CrashFresh
<1>4. ASSUME NEW p \in Processes, NEW v \in Providers,
             Set(p, v) \/ Remove(p, v) \/ Ask(p, v)
      PROVE  FInv'
  BY <1>4, UserFresh, AskFresh
<1>5. CASE Expire \/ UNCHANGED vars
  <2>1. /\ file' = file /\ pc' = pc /\ job' = job /\ call' = call
        /\ valid' = valid /\ issued' = issued /\ dead' = dead
    BY <1>5 DEF Expire, vars, storage, memory, steps, remote, history
  <2>2. Shape'
    BY NextShape DEF FInv
  <2> QED
    BY <2>1, <2>2 DEF FInv, TokenTypes, Bounded, InUse, Fresh, FreshAt, Waiting
<1> QED
  BY <1>1, <1>2, <1>3, <1>4, <1>5 DEF Next, Rest, Surroundings

-----------------------------------------------------------------------------
(* What is read with the lock stays good until it is written *)

\* Whoever works with the file holds the lock.
LEMMA OneHolder ==
  ASSUME Alone, NEW p \in Processes, lock # p
  PROVE  /\ ~Changing(p)
         /\ call[p].at \notin {"asking", "served", "refused", "saving"}
         /\ \A v \in Providers : ~Answered(p, v)
BY DEF Alone, Refreshing, Answered

\* A step of one process that leaves its own request and the file good, and
\* takes no token of which another has read.
LEMMA OneStaysGood ==
  ASSUME Orderly, Types, dead \subseteq dead', NEW p \in Processes,
         \A q \in Processes : q # p =>
           call'[q] = call[q] /\ job'[q] = job[q] /\ pc'[q] = pc[q],
         lock = p \/ \A v \in Live' : valid[v] \subseteq valid'[v],
         \A q \in Processes : q # p /\ lock = q => lock' = q,
         call'[p].hold = "kept",
         (Changing(p) \/ Refreshing(p))' => lock' = p,
         ~(Changing(p) /\ Refreshing(p))',
         \A v \in Live' : Good(v, file.content[v])' \/ \E q \in Processes : Answered(q, v)',
         RequestIsGood(p)', ChangeIsGood(p)'
  PROVE  Orderly'
<1>1. Alone /\ Live' \subseteq Live
  BY DEF Orderly, Live
<1>2. ASSUME NEW q \in Processes, q # p
      PROVE  /\ Changing(q)' = Changing(q) /\ Refreshing(q)' = Refreshing(q)
             /\ call'[q].hold = "kept"
  BY <1>1, <1>2 DEF Changing, Refreshing, Alone
<1>3. ASSUME NEW q \in Processes
      PROVE  /\ call'[q].hold = "kept"
             /\ (Changing(q) \/ Refreshing(q))' => lock' = q
             /\ ~(Changing(q) /\ Refreshing(q))'
  <2>1. CASE q = p
    BY <2>1
  <2>2. CASE q # p
    BY <1>1, <1>2, <2>2 DEF Alone
  <2> QED
    BY <2>1, <2>2
<1>4. Alone'
  BY <1>3 DEF Alone
<1>5. FileIsGood'
  BY DEF FileIsGood
<1>6. ASSUME NEW q \in Processes, q # p
      PROVE  RequestIsGood(q)' /\ ChangeIsGood(q)'
  <2>1. CASE lock = p
    <3>1. /\ ~Changing(q)'
          /\ call'[q].at \notin {"asking", "served", "refused", "saving"}
      BY <1>1, <1>2, <1>6, <2>1, OneHolder
    <3> QED
      BY <3>1 DEF RequestIsGood, ChangeIsGood
  <2>2. CASE \A v \in Live' : valid[v] \subseteq valid'[v]
    <3>1. RequestIsGood(q) /\ ChangeIsGood(q)
      BY DEF Orderly
    <3>2. \A v \in Live' : v \in Live /\ \A token : Good(v, token) => Good(v, token)'
      BY <1>1, <2>2 DEF Good
    <3>3. call'[q] = call[q] /\ job'[q] = job[q] /\ pc'[q] = pc[q]
      BY <1>6
    <3>4. Merged(q)' = Merged(q) /\ Presented(q)' = Presented(q)
      BY <3>3 DEF Merged, Presented
    <3>5. RequestIsGood(q)'
      BY <3>1, <3>2, <3>3, <3>4 DEF RequestIsGood, Good
    <3>6. ChangeIsGood(q)'
      BY <3>1, <3>2, <3>3, <1>2, <1>6 DEF ChangeIsGood, Good
    <3> QED
      BY <3>5, <3>6
  <2> QED
    BY <2>1, <2>2
<1> QED
  BY <1>4, <1>5, <1>6 DEF Orderly

\* A step that writes nothing and asks for nothing.
LEMMA CalmStaysGood ==
  ASSUME Orderly, Types, dead \subseteq dead', NEW p \in Processes,
         \A q \in Processes : q # p =>
           call'[q] = call[q] /\ job'[q] = job[q] /\ pc'[q] = pc[q],
         \A v \in Live' : valid[v] \subseteq valid'[v],
         \A q \in Processes : q # p /\ lock = q => lock' = q,
         file'.content \in {file.content, None},
         pc'[p] # "write",
         call'[p].hold = "kept",
         \/ call'[p].at \in {"idle", "locking"}
         \/ call'[p].at = "refused" /\ lock' = p
         \/ call'[p] = call[p] /\ call[p].at # "saving" /\ (lock = p => lock' = p),
         \A v \in Live' : Answered(p, v) => Answered(p, v)'
  PROVE  Orderly'
<1>1. Alone /\ FileIsGood /\ RequestIsGood(p) /\ Live' \subseteq Live
  BY DEF Orderly, Live
<1>2. ~Changing(p)' /\ ChangeIsGood(p)'
  BY DEF Changing, ChangeIsGood
<1>3. Refreshing(p)' => lock' = p
  BY <1>1 DEF Refreshing, Alone
<1>4. RequestIsGood(p)'
  <2>1. CASE call'[p] = call[p] /\ call[p].at # "saving"
    <3>1. Merged(p)' = Merged(p) /\ Presented(p)' = Presented(p)
      BY <2>1 DEF Merged, Presented
    <3> QED
      BY <1>1, <2>1, <3>1 DEF RequestIsGood, Good
  <2>2. CASE call'[p].at \in {"idle", "locking", "refused"}
    BY <2>2 DEF RequestIsGood
  <2> QED
    BY <2>1, <2>2
<1>5. ASSUME NEW v \in Live'
      PROVE  Good(v, file.content[v])' \/ \E q \in Processes : Answered(q, v)'
  <2>1. v \in Providers /\ v \in Live
    BY <1>1, <1>5 DEF Live
  <2>2. file'.content[v] = file.content[v] \/ file'.content[v] = 0
    BY <2>1, NoTokens
  <2>3. \A q \in Processes : Answered(q, v) => Answered(q, v)'
    BY DEF Answered
  <2>4. Good(v, file.content[v]) => Good(v, file.content[v])'
    BY <2>2 DEF Good
  <2> QED
    BY <1>1, <2>1, <2>3, <2>4 DEF FileIsGood
<1> QED
  BY <1>2, <1>3, <1>4, <1>5, OneStaysGood

LEMMA InitTokens == Init => Orderly
<1> SUFFICES ASSUME Init PROVE Orderly
  OBVIOUS
<1>1. PICK state \in InitialStates :
        file = File(state, IF state = "good" THEN [v \in Providers |-> 1] ELSE None)
  BY DEF Init
<1>2. ASSUME NEW p \in Processes
      PROVE  /\ call[p].at = "idle" /\ call[p].hold = "kept"
             /\ ~Changing(p) /\ ~Refreshing(p)
  BY CallType DEF Init, Of, Changing, Refreshing
<1>3. ASSUME NEW v \in Providers PROVE Good(v, file.content[v])
  BY <1>1, NoTokens DEF Init, File, Good
<1> QED
  BY <1>2, <1>3 DEF Orderly, Alone, FileIsGood, Live, RequestIsGood, ChangeIsGood

LEMMA CreateGood ==
  ASSUME TInv, Orderly, NEW p \in Processes, Create(p)
  PROVE  Orderly'
<1>1. Types /\ Steps(p) /\ call[p].hold = "kept"
  BY DEF TInv, FInv, Shape, Orderly, Alone
<1>2. /\ file'.content = None /\ lock' = lock /\ call' = call /\ valid' = valid
      /\ dead' = dead /\ pc[p] = "create"
      /\ Ends(p) \/ (pc' = [pc EXCEPT ![p] = "lock"] /\ job' = job)
  BY DEF Create, File, remote
<1>3. /\ pc'[p] # "write" /\ call[p].at # "saving"
      /\ \A q \in Processes : q # p => job'[q] = job[q] /\ pc'[q] = pc[q]
  BY <1>1, <1>2, EndsStep DEF Types, Steps
<1> QED
  BY <1>1, <1>2, <1>3, CalmStaysGood DEF Answered

LEMMA TakeGood ==
  ASSUME TInv, Orderly, NEW p \in Processes, Take(p) \/ TakeFails(p)
  PROVE  Orderly'
<1>1. /\ Types /\ Steps(p) /\ p # Nobody /\ call[p].hold = "kept"
      /\ Alone /\ FileIsGood /\ RequestIsGood(p)
  BY AuthBounds DEF TInv, FInv, Shape, Orderly, Alone
<1>2. /\ file' = file /\ call' = call /\ valid' = valid /\ dead' = dead
      /\ pc[p] = "lock"
  BY DEF Take, TakeFails, storage, remote, history
<1>3. CASE TakeFails(p) \/ file.state = "broken" \/ job[p].kind = "load"
  <2>1. Ends(p) /\ lock' = lock
    BY <1>3 DEF Take, TakeFails, Fails, storage
  <2>2. /\ pc'[p] # "write" /\ call[p].at # "saving"
        /\ \A q \in Processes : q # p => job'[q] = job[q] /\ pc'[q] = pc[q]
    BY <1>1, <1>2, <2>1, EndsStep DEF Types, Steps
  <2> QED
    BY <1>1, <1>2, <2>1, <2>2, CalmStaysGood DEF Answered
<1>4. CASE Take(p) /\ file.state # "broken" /\ job[p].kind # "load"
  <2> DEFINE next == [Content EXCEPT ![job[p].provider] = job[p].value]
  <2>1. /\ lock = Nobody /\ lock' = p /\ job[p].kind = "change"
        /\ job' = [job EXCEPT ![p].next = next]
        /\ pc' = [pc EXCEPT ![p] = "write"]
    BY <1>1, <1>2, <1>4 DEF Take, Steps
  <2>2. job[p] \in Jobs
    BY <1>1 DEF Types
  <2>3. /\ job'[p].next = next
        /\ \A q \in Processes : q # p => job'[q] = job[q] /\ pc'[q] = pc[q]
    BY <1>1, <2>1, <2>2 DEF Types, Jobs
  <2>4. \A q \in Processes : lock # q
    BY <2>1, AuthBounds
  <2>5. \A v \in Live : Good(v, file.content[v])
    BY <1>1, <2>4, OneHolder DEF FileIsGood, Live
  <2>6. call[p].at \notin {"asking", "served", "refused", "saving"}
    BY <1>1, <2>4, OneHolder
  <2>7. ASSUME NEW v \in Live PROVE Good(v, next[v])
    <3>1. v \in Providers
      BY DEF Live
    <3>2. CASE v = job[p].provider
      <4>1. next[v] = job[p].value
        BY <1>1, <3>1, <3>2, ContentType DEF Credentials
      <4>2. job[p].value # 0 => Waiting(p)
        BY <1>2, <2>1 DEF Waiting
      <4> QED
        BY <3>2, <4>1, <4>2 DEF Good, TInv, FInv, Fresh, FreshAt
    <3>3. CASE v # job[p].provider
      <4>1. next[v] = Content[v]
        BY <1>1, <3>1, <3>3, ContentType DEF Credentials
      <4>2. Content[v] = file.content[v] \/ Content[v] = 0
        BY <3>1, NoTokens DEF Content
      <4> QED
        BY <2>5, <4>1, <4>2 DEF Good
    <3> QED
      BY <3>2, <3>3
  <2>8. /\ ChangeIsGood(p)' /\ RequestIsGood(p)' /\ ~Refreshing(p)'
    BY <1>2, <2>3, <2>6, <2>7
       DEF ChangeIsGood, RequestIsGood, Refreshing, Good, Live
  <2>9. \A v \in Live' : Good(v, file.content[v])'
    BY <1>2, <2>5 DEF Good, Live
  <2> QED
    BY <1>1, <1>2, <2>1, <2>3, <2>4, <2>8, <2>9, OneStaysGood
<1> QED
  BY <1>3, <1>4

\* What is written is good, and the lock is free again.
LEMMA WriteGood ==
  ASSUME TInv, Orderly, NEW p \in Processes, Write(p)
  PROVE  Orderly'
<1>1. /\ Types /\ Steps(p) /\ p # Nobody /\ pc[p] = "write" /\ call[p].hold = "kept"
      /\ Alone /\ RequestIsGood(p) /\ ChangeIsGood(p)
  BY AuthBounds DEF TInv, FInv, Shape, Orderly, Alone, Write
<1>2. /\ Ends(p) /\ file'.content = job[p].next /\ valid' = valid /\ dead' = dead
  BY DEF Write, File, remote
<1>3. lock = p /\ \A v \in Live : Good(v, job[p].next[v])
  <2>1. CASE job[p].kind = "change"
    <3>1. Changing(p)
      BY <1>1, <2>1 DEF Changing
    <3> QED
      BY <1>1, <3>1 DEF Alone, ChangeIsGood
  <2>2. CASE job[p].kind = "refresh"
    <3>1. call[p].at = "saving" /\ Refreshing(p)
      BY <1>1, <2>2 DEF Steps, Refreshing
    <3> QED
      BY <1>1, <3>1 DEF Alone, RequestIsGood
  <2> QED
    BY <1>1, <2>1, <2>2 DEF Steps
<1>4. /\ pc'[p] = "idle"
      /\ \A q \in Processes : q # p =>
           call'[q] = call[q] /\ job'[q] = job[q] /\ pc'[q] = pc[q]
  BY <1>1, <1>2, EndsStep DEF Write, Types
<1>5. call'[p].hold = "kept" /\ call'[p].at \notin {"asking", "served", "refused", "saving"}
  <2>1. CASE job[p].kind = "refresh"
    <3>1. call'[p] = NoCall
      BY <1>1, <2>1 DEF Write, Types
    <3> QED
      BY <3>1, CallType
  <2>2. CASE job[p].kind # "refresh"
    <3>1. Changing(p) /\ call' = call
      BY <1>1, <2>2 DEF Steps, Changing, Write
    <3> QED
      BY <1>1, <3>1 DEF Alone, Refreshing
  <2> QED
    BY <2>1, <2>2
<1>6. ~Changing(p)' /\ ~Refreshing(p)' /\ RequestIsGood(p)' /\ ChangeIsGood(p)'
  BY <1>4, <1>5 DEF Changing, Refreshing, RequestIsGood, ChangeIsGood
<1>7. \A v \in Live' : Good(v, file.content[v])'
  BY <1>2, <1>3 DEF Good, Live
<1> QED
  BY <1>1, <1>2, <1>3, <1>4, <1>5, <1>6, <1>7, OneStaysGood

LEMMA UserGood ==
  ASSUME TInv, Orderly, NEW p \in Processes, NEW v \in Providers,
         Set(p, v) \/ Remove(p, v) \/ Ask(p, v) \/ Start(p)
  PROVE  Orderly'
<1>1. /\ Types /\ Steps(p) /\ pc[p] \in {"idle", "start"} /\ call[p].hold = "kept"
      /\ valid \in [Providers -> SUBSET Nat]
  BY DEF TInv, FInv, Shape, TokenTypes, Orderly, Alone, Set, Remove, Change, Ask, Start
<1>2. /\ file' = file /\ lock' = lock /\ dead' = dead
      /\ \A w \in Providers : valid[w] \subseteq valid'[w]
  BY <1>1 DEF Set, Remove, Change, Ask, Start, storage, remote, history
<1> DEFINE Place ==
      \/ \E what \in Jobs : Begin(p, what)
      \/ pc' = pc /\ job' = job
<1>3. Place
  <2>1. CASE Start(p) \/ Ask(p, v)
    BY <2>1, JobsType DEF Start, Ask, steps
  <2>2. ASSUME NEW n \in Nat, Change(p, v, n) PROVE Place
    BY <2>2, NoneType, JobType DEF Change, steps
  <2>3. issued + 1 \in Nat /\ 0 \in Nat
    BY <1>1 DEF Types
  <2> QED
    BY <2>1, <2>2, <2>3 DEF Set, Remove
<1>4. /\ pc'[p] # "write" /\ call[p].at # "saving"
      /\ \A q \in Processes : q # p => job'[q] = job[q] /\ pc'[q] = pc[q]
  BY <1>1, <1>3, BeginStep DEF Types, Steps
<1>5. \A w \in Live' : valid[w] \subseteq valid'[w]
  BY <1>2 DEF Live
<1>6. CASE Ask(p, v)
  <2>1. /\ call'[p] = Call("locking", v) /\ call[p].at = "idle"
        /\ \A q \in Processes : q # p => call'[q] = call[q]
    BY <1>1, <1>6 DEF Ask, Types
  <2> QED
    BY <1>1, <1>2, <1>4, <1>5, <2>1, CallType, CalmStaysGood DEF Answered
<1>7. CASE ~Ask(p, v)
  <2>1. call' = call
    BY <1>7 DEF Set, Remove, Change, Start
  <2> QED
    BY <1>1, <1>2, <1>4, <1>5, <2>1, CalmStaysGood DEF Answered
<1> QED
  BY <1>6, <1>7

\* A request that fails gives back the lock it has.
LEMMA RescueGood ==
  ASSUME TInv, Orderly, NEW p \in Processes, NEW held \in BOOLEAN, Rescue(p, held),
         valid' = valid, dead \subseteq dead',
         held => call[p].at = "refused",
         ~held => lock' = lock,
         call[p].at \notin {"served", "saving"}
  PROVE  Orderly'
<1>1. Types /\ Alone /\ p # Nobody
  BY AuthBounds DEF TInv, FInv, Shape, Orderly
<1>2. /\ file' = file /\ call'[p] = NoCall /\ pc'[p] \in {"create", "lock"}
      /\ \A q \in Processes : q # p =>
           call'[q] = call[q] /\ job'[q] = job[q] /\ pc'[q] = pc[q]
  BY <1>1, RescueStep DEF Types
<1>3. ASSUME NEW q \in Processes, q # p, lock = q PROVE lock' = q
  <2>1. CASE held
    BY <1>1, <1>3, <2>1, OneHolder
  <2>2. CASE ~held
    BY <1>3, <2>2
  <2> QED
    BY <2>1, <2>2
<1> QED
  BY <1>1, <1>2, <1>3, CallType, CalmStaysGood DEF Answered

LEMMA FailedAskGood ==
  ASSUME TInv, Orderly, NEW p \in Processes, AskFails(p) \/ AskingFails(p)
  PROVE  Orderly'
<1>1. valid' = valid /\ dead' = dead
  BY DEF AskFails, AskingFails, remote
<1>2. CASE AskFails(p)
  <2>1. Rescue(p, FALSE) /\ lock' = lock /\ call[p].at = "locking"
    BY <1>2 DEF AskFails, Rescue, Release
  <2> QED
    BY <1>1, <2>1, RescueGood
<1>3. CASE AskingFails(p)
  <2>1. Rescue(p, TRUE) /\ call[p].at = "refused"
    BY <1>3 DEF AskingFails
  <2> QED
    BY <1>1, <2>1, RescueGood
<1> QED
  BY <1>2, <1>3

\* Nobody else works with the file when the lock is had, so it is good.
LEMMA RefreshGood ==
  ASSUME TInv, Orderly, NEW p \in Processes, Refresh(p)
  PROVE  Orderly'
<1>1. /\ Types /\ Alone /\ FileIsGood /\ call[p].hold = "kept"
      /\ pc[p] = "idle" /\ call[p].at = "locking" /\ lock = Nobody
      /\ valid' = valid /\ dead' = dead
  BY DEF TInv, FInv, Shape, Orderly, Alone, Refresh, remote
<1>2. CASE file.state = "broken"
  <2>1. Rescue(p, FALSE) /\ lock' = lock
    BY <1>2 DEF Refresh, Rescue, Release
  <2> QED
    BY <1>1, <2>1, RescueGood
<1>3. CASE file.state # "broken" /\ ~Expired(Content[call[p].provider])
  <2>1. /\ file' = file /\ lock' = lock /\ pc' = pc /\ job' = job
        /\ call' = [call EXCEPT ![p] = NoCall]
    BY <1>3 DEF Refresh, steps
  <2>2. call'[p] = NoCall /\ \A q \in Processes : q # p => call'[q] = call[q]
    BY <1>1, <2>1 DEF Types
  <2> QED
    BY <1>1, <2>1, <2>2, CallType, CalmStaysGood DEF Answered
<1>4. CASE file.state # "broken" /\ Expired(Content[call[p].provider])
  <2>1. /\ lock' = p /\ file' = file /\ pc' = pc /\ job' = job
        /\ call' = [call EXCEPT ![p].at = "asking", ![p].current = Content]
    BY <1>4 DEF Refresh, steps
  <2>2. /\ call'[p].current = Content /\ call'[p].at = "asking"
        /\ call'[p].hold = "kept" /\ call'[p].provider = call[p].provider
        /\ \A q \in Processes : q # p => call'[q] = call[q]
    BY <1>1, <2>1 DEF Types, Calls
  <2>3. \A q \in Processes : lock # q
    BY <1>1, AuthBounds
  <2>4. \A v \in Live : Good(v, file.content[v])
    BY <1>1, <2>3, OneHolder DEF FileIsGood, Live
  <2>5. \A v \in Live : Good(v, Content[v])
    <3>1. \A v \in Live : Content[v] = file.content[v] \/ Content[v] = 0
      BY NoTokens DEF Content, Live
    <3> QED
      BY <2>4, <3>1 DEF Good
  <2>6. Content[call[p].provider] # 0
    BY <1>4 DEF Expired
  <2>7. RequestIsGood(p)'
    <3>1. Presented(p)' = Content[call[p].provider]
      BY <2>2 DEF Presented
    <3> QED
      BY <1>1, <2>2, <2>5, <2>6, <3>1 DEF RequestIsGood, Good, Live
  <2>8. ~Changing(p)' /\ ChangeIsGood(p)'
    BY <1>1, <2>1 DEF Changing, ChangeIsGood
  <2>9. \A v \in Live' : Good(v, file.content[v])'
    BY <1>1, <2>1, <2>4 DEF Good, Live
  <2> QED
    BY <1>1, <2>1, <2>2, <2>3, <2>7, <2>8, <2>9, OneStaysGood DEF Orderly
<1> QED
  BY <1>2, <1>3, <1>4

LEMMA AnswerGood ==
  ASSUME TInv, Orderly, NEW p \in Processes, Answer(p)
  PROVE  Orderly'
<1>1. /\ Types /\ Alone /\ FileIsGood /\ RequestIsGood(p) /\ call[p].hold = "kept"
      /\ call[p].at = "served" /\ valid' = valid
  BY DEF TInv, FInv, Shape, Orderly, Alone, Answer, remote
<1> DEFINE what == Job("refresh", call[p].provider, call[p].answer, Merged(p))
<1>2. /\ file' = file /\ lock' = lock /\ dead' = dead
      /\ pc' = [pc EXCEPT ![p] = "write"] /\ job' = [job EXCEPT ![p] = what]
      /\ call' = [call EXCEPT ![p].at = "saving"]
  BY <1>1 DEF Answer, storage
<1>3. what.next = Merged(p) /\ what.kind = "refresh"
  BY DEF Job
<1> HIDE DEF what
<1>4. /\ job'[p] = what
      /\ call'[p].current = call[p].current /\ call'[p].answer = call[p].answer
      /\ call'[p].at = "saving" /\ call'[p].provider = call[p].provider
      /\ call'[p].hold = "kept"
      /\ \A q \in Processes : q # p =>
           call'[q] = call[q] /\ job'[q] = job[q] /\ pc'[q] = pc[q]
  BY <1>1, <1>2 DEF Types, Calls
<1>5. RequestIsGood(p)'
  <2>1. Merged(p)' = Merged(p)
    BY <1>4 DEF Merged
  <2> QED
    BY <1>1, <1>2, <1>3, <1>4, <2>1 DEF RequestIsGood, Good, Live
<1>6. ~Changing(p)' /\ ChangeIsGood(p)'
  BY <1>3, <1>4 DEF Changing, ChangeIsGood
<1>7. lock = p
  BY <1>1, OneHolder
<1>8. ASSUME NEW v \in Live'
      PROVE  Good(v, file.content[v])' \/ \E q \in Processes : Answered(q, v)'
  <2>1. \A q \in Processes : Answered(q, v) => Answered(q, v)'
    BY <1>4 DEF Answered
  <2> QED
    BY <1>1, <1>2, <1>8, <2>1 DEF FileIsGood, Good, Live
<1> QED
  BY <1>1, <1>2, <1>4, <1>5, <1>6, <1>7, <1>8, OneStaysGood

\* The token presented is good no longer, but nobody else has read it.
LEMMA ServeGood ==
  ASSUME TInv, Orderly, NEW p \in Processes, Serve(p),
         Presented(p) \in valid[call[p].provider]
  PROVE  Orderly'
<1> DEFINE v == call[p].provider
<1>1. /\ Types /\ Alone /\ FileIsGood /\ RequestIsGood(p) /\ call[p].hold = "kept"
      /\ call[p].at = "asking" /\ v \in Providers
      /\ valid \in [Providers -> SUBSET Nat]
  BY MergedType DEF TInv, FInv, Shape, TokenTypes, Orderly, Alone, Serve
<1>2. /\ issued' = issued + 1 /\ file' = file /\ lock' = lock /\ pc' = pc /\ job' = job
      /\ dead' = dead
      /\ valid' = [valid EXCEPT ![v] = (@ \ {Presented(p)}) \union {issued'}]
      /\ call' = [call EXCEPT ![p].at = "served", ![p].answer = issued']
  BY DEF Serve, storage, steps, history
<1>3. /\ call'[p].current = call[p].current /\ call'[p].answer = issued'
      /\ call'[p].at = "served" /\ call'[p].provider = v /\ call'[p].hold = "kept"
      /\ \A q \in Processes : q # p => call'[q] = call[q]
  BY <1>1, <1>2 DEF Types, Calls
<1>4. lock = p /\ ~Changing(p)
  BY <1>1, OneHolder DEF Alone, Refreshing
<1>5. /\ issued' \in valid'[v]
      /\ \A w \in Live' : w # v => valid'[w] = valid[w]
  BY <1>1, <1>2 DEF Live
<1>6. RequestIsGood(p)'
  <2>1. call[p].current \in Credentials
    BY <1>1 DEF Types, Calls
  <2>2. Merged(p)' = [call[p].current EXCEPT ![v] = issued']
    BY <1>3 DEF Merged
  <2>3. ASSUME NEW w \in Live'
        PROVE  Good(w, Merged(p)[w])'
    <3>1. w \in Providers /\ w \in Live
      BY <1>2, <2>3 DEF Live
    <3>2. CASE w = v
      <4>1. Merged(p)'[w] = issued'
        BY <2>1, <2>2, <3>1, <3>2 DEF Credentials
      <4> QED
        BY <1>5, <3>2, <4>1 DEF Good
    <3>3. CASE w # v
      <4>1. Merged(p)'[w] = call[p].current[w]
        BY <2>1, <2>2, <3>1, <3>3 DEF Credentials
      <4>2. Good(w, call[p].current[w])
        BY <1>1, <3>1 DEF RequestIsGood
      <4> QED
        BY <1>5, <2>3, <3>3, <4>1, <4>2 DEF Good
    <3> QED
      BY <3>2, <3>3
  <2> QED
    BY <1>3, <2>3 DEF RequestIsGood
<1>7. ~Changing(p)' /\ ChangeIsGood(p)'
  BY <1>2, <1>4 DEF Changing, ChangeIsGood
<1>8. ASSUME NEW w \in Live'
      PROVE  Good(w, file.content[w])' \/ \E q \in Processes : Answered(q, w)'
  <2>1. CASE w = v
    <3>1. Answered(p, w)'
      BY <1>3, <2>1 DEF Answered
    <3> QED
      BY <3>1
  <2>2. CASE w # v
    <3>1. w \in Live /\ w \in Providers
      BY <1>2, <1>8 DEF Live
    <3>2. \A q \in Processes : ~Answered(q, w)
      BY <1>1, <1>4, <3>1, OneHolder DEF Answered
    <3> QED
      BY <1>1, <1>2, <1>5, <1>8, <2>2, <3>1, <3>2 DEF FileIsGood, Good
  <2> QED
    BY <2>1, <2>2
<1> QED
  BY <1>1, <1>2, <1>3, <1>4, <1>6, <1>7, <1>8, OneStaysGood

LEMMA RequestGood ==
  ASSUME TInv, Orderly, NEW p \in Processes, Surroundings(p), ~robbed'
  PROVE  Orderly'
<1>1. CASE Serve(p) /\ Presented(p) \in valid[call[p].provider]
  BY <1>1, ServeGood
<1>2. CASE ~(Serve(p) /\ Presented(p) \in valid[call[p].provider])
  <2>1. /\ Types /\ Steps(p) /\ Alone /\ call[p].hold = "kept"
    BY DEF TInv, FInv, Shape, Orderly, Alone
  <2>2. ~LoseLock(p) /\ ~Notice(p)
    BY <2>1 DEF LoseLock, Notice, Unaware
  <2>3. /\ call[p].at \in {"asking", "served"}
        /\ call' = [call EXCEPT ![p].at = "refused"]
        /\ file' = file /\ lock' = lock /\ pc' = pc /\ job' = job /\ valid' = valid
        /\ dead \subseteq dead'
        /\ call[p].at = "served" => call[p].provider \in dead'
    BY <1>2, <2>2 DEF Surroundings, Serve, RequestFails, AnswerIsLost,
                      storage, steps, remote, history
  <2>4. /\ call'[p].at = "refused" /\ call'[p].hold = "kept"
        /\ \A q \in Processes : q # p => call'[q] = call[q]
    BY <2>1, <2>3 DEF Types, Calls
  <2>5. lock = p /\ pc[p] # "write"
    <3>1. lock = p /\ ~Changing(p)
      BY <2>1, <2>3, OneHolder DEF Alone, Refreshing
    <3> QED
      BY <2>1, <2>3, <3>1 DEF Steps, Changing
  <2>6. \A v \in Live' : ~Answered(p, v)
    BY <2>3 DEF Live, Answered
  <2> QED
    BY <2>1, <2>3, <2>4, <2>5, <2>6, CalmStaysGood
<1> QED
  BY <1>1, <1>2

LEMMA CrashGood ==
  ASSUME TInv, Orderly, NEW p \in Processes, Crash(p)
  PROVE  Orderly'
<1>1. /\ Types /\ p # Nobody /\ valid \in [Providers -> SUBSET Nat]
  BY AuthBounds DEF TInv, FInv, Shape, TokenTypes, Orderly
<1>2. /\ job' = [job EXCEPT ![p] = NoJob] /\ pc' = [pc EXCEPT ![p] = "start"]
      /\ call' = [call EXCEPT ![p] = NoCall]
      /\ lock' = IF lock = p THEN Nobody ELSE lock
      /\ dead \subseteq dead'
      /\ call[p].at \in {"served", "saving"} => call[p].provider \in dead'
      /\ \/ valid' = valid
         \/ /\ valid' = [valid EXCEPT ![call[p].provider] = @ \ {Presented(p)}]
            /\ call[p].provider \in dead'
  BY DEF Crash
<1>3. file'.content \in {file.content, None}
  BY DEF Crash, File
<1>4. /\ call'[p] = NoCall /\ pc'[p] = "start"
      /\ \A q \in Processes : q # p =>
           call'[q] = call[q] /\ job'[q] = job[q] /\ pc'[q] = pc[q]
  BY <1>1, <1>2 DEF Types
<1>5. ASSUME NEW v \in Live' PROVE valid[v] \subseteq valid'[v] /\ ~Answered(p, v)
  BY <1>1, <1>2 DEF Live, Answered
<1> QED
  BY <1>1, <1>2, <1>3, <1>4, <1>5, CallType, CalmStaysGood

LEMMA NextGood == TInv /\ Orderly /\ [Next]_vars /\ ~robbed' => Orderly'
<1> SUFFICES ASSUME TInv, Orderly, [Next]_vars, ~robbed' PROVE Orderly'
  OBVIOUS
<1>1. ASSUME NEW p \in Processes,
             Create(p) \/ Take(p) \/ TakeFails(p) \/ Write(p)
      PROVE  Orderly'
  BY <1>1, CreateGood, TakeGood, WriteGood
<1>2. ASSUME NEW p \in Processes,
             AskFails(p) \/ Refresh(p) \/ AskingFails(p) \/ Answer(p)
      PROVE  Orderly'
  BY <1>2, FailedAskGood, RefreshGood, AnswerGood
<1>3. ASSUME NEW p \in Processes, Surroundings(p) \/ Crash(p)
      PROVE  Orderly'
  BY <1>3, RequestGood, CrashGood
<1>4. ASSUME NEW p \in Processes, Start(p) PROVE Orderly'
  BY <1>4, UserGood, NoneType
<1>5. ASSUME NEW p \in Processes, NEW v \in Providers,
             Set(p, v) \/ Remove(p, v) \/ Ask(p, v)
      PROVE  Orderly'
  BY <1>5, UserGood
<1>6. CASE Expire \/ UNCHANGED vars
  <2>1. /\ file' = file /\ lock' = lock /\ pc' = pc /\ job' = job /\ call' = call
        /\ valid' = valid /\ dead' = dead
    BY <1>6 DEF Expire, vars, storage, memory, steps, remote, history
  <2> QED
    BY <2>1 DEF Orderly, Alone, Changing, Refreshing, FileIsGood, Live, Good, Answered,
                RequestIsGood, ChangeIsGood, Merged, Presented
<1> QED
  BY <1>1, <1>2, <1>3, <1>4, <1>5, <1>6 DEF Next, Rest, Surroundings

\* A lost lock stays in the history.
LEMMA RobbedStays == [Next]_vars /\ ~robbed' => ~robbed
<1> SUFFICES ASSUME [Next]_vars, ~robbed' PROVE ~robbed
  OBVIOUS
<1>1. ASSUME NEW p \in Processes,
             \/ Start(p) \/ Create(p) \/ Take(p) \/ TakeFails(p) \/ Write(p)
             \/ AskFails(p) \/ Refresh(p) \/ AskingFails(p) \/ Answer(p)
      PROVE  robbed' = robbed
  BY <1>1 DEF Start, Create, Take, TakeFails, Write, AskFails, Refresh, AskingFails,
              Answer, history
<1>2. ASSUME NEW p \in Processes, Surroundings(p) \/ Crash(p)
      PROVE  robbed' = robbed
  BY <1>2 DEF Surroundings, Serve, RequestFails, AnswerIsLost, LoseLock, Notice, Crash,
              history
<1>3. ASSUME NEW p \in Processes, NEW v \in Providers,
             Set(p, v) \/ Remove(p, v) \/ Ask(p, v)
      PROVE  robbed' = robbed
  BY <1>3 DEF Set, Remove, Change, Ask, history
<1>4. CASE Expire \/ UNCHANGED vars
  BY <1>4 DEF Expire, vars, history
<1> QED
  BY <1>1, <1>2, <1>3, <1>4 DEF Next, Rest, Surroundings

-----------------------------------------------------------------------------
(* Theorems *)

THEOREM TInvHolds == Spec => []TInv
<1>1. Init => TInv
  BY InitFresh, InitTokens DEF TInv
<1>2. TInv /\ [Next]_vars => TInv'
  <2>1. TInv /\ [Next]_vars => FInv'
    BY NextFresh DEF TInv
  <2>2. TInv /\ [Next]_vars /\ ~robbed' => Orderly'
    BY NextGood, RobbedStays DEF TInv, FInv, Shape
  <2> QED
    BY <2>1, <2>2 DEF TInv
<1> QED
  BY <1>1, <1>2, PTL DEF Spec

\* No process presents a refresh token that another has used, and the one in
\* auth.json is taken unless it is just being replaced, for any number of
\* processes and providers (refreshOAuthTokenWithLock).
THEOREM TokensAreValid == Spec => []TokensStayValid
<1>1. TInv => TokensStayValid
  BY DEF TInv, Orderly, FileIsGood, RequestIsGood, Good, Live, Answered, Presented,
         TokensStayValid, TokenTypes, FInv
<1> QED
  BY <1>1, TInvHolds, PTL
=============================================================================
