--------------------- MODULE ThreadDeletionReactorProofs ---------------------
(***************************************************************************)
(* Theorems of the fence between deleting a thread and creating it again,     *)
(* for every set of threads and requests and every bound.                    *)
(*                                                                         *)
(* The argument: the subscription's inbox is in order and holds nothing older *)
(* than the watermark, so a request whose create the watermark has reached    *)
(* has every earlier deletion behind it, finished or counted as outstanding;  *)
(* and a resource is only started by such a request.                         *)
(***************************************************************************)
EXTENDS ThreadDeletionReactor, SequenceTheorems, TLAPS

---------------------------------------------------------------------------
(* Type correctness.                                                        *)

\* A request that is being served is about a thread.
RequestsHaveThreads == \A q \in Requests : requests[q].phase # "idle" => requests[q].thread \in Threads

\* The worker counts what is queued and what it is processing.
OutstandingIsCounted ==
    /\ step = "idle" <=> cleaning = 0
    /\ outstanding = Len(queue) + (IF cleaning = 0 THEN 0 ELSE 1)

TypeInv == TypeOK /\ Len(log) <= MaxEvents /\ RequestsHaveThreads /\ OutstandingIsCounted

LEMMA InitType == Init => TypeInv
<1> SUFFICES ASSUME Init PROVE TypeInv
  OBVIOUS
<1>1. Len(<<>>) = 0 /\ 0 \in 0..MaxEvents /\ 0 \in 0..MaxFailures
  BY FenceAssumption
<1>2. IdleRequest \in Request
  BY <1>1 DEF IdleRequest, Request, Phases
<1>3. /\ requests \in [Requests -> Request]
      /\ owner \in [Threads -> [Resources -> 0..MaxEvents]]
  BY <1>1, <1>2 DEF Init
<1>4. /\ log \in Seq([thread : Threads, type : EventTypes]) /\ inbox \in Seq(Sequences)
      /\ queue \in Seq(Sequences) /\ published \in 0..Len(log)
  BY <1>1 DEF Init
<1>5. TypeOK
  BY <1>1, <1>3, <1>4 DEF Init, TypeOK
<1> QED BY <1>1, <1>5, FenceAssumption DEF Init, TypeInv, RequestsHaveThreads, OutstandingIsCounted, IdleRequest

\* A request that moves keeps its thread, or ends.
LEMMA MovesType ==
    ASSUME TypeInv, NEW q \in Requests, NEW phase \in Phases, requests[q].phase # "idle",
           Moves(q, phase)
    PROVE  requests' \in [Requests -> Request] /\ RequestsHaveThreads'
<1>1. requests[q] \in Request /\ requests \in [Requests -> Request] /\ requests[q].thread \in Threads
  BY DEF TypeInv, TypeOK, RequestsHaveThreads
<1>2. IdleRequest \in Request /\ IdleRequest.phase = "idle"
  BY FenceAssumption DEF IdleRequest, Request, Phases
<1>3. /\ [requests[q] EXCEPT !.phase = phase] \in Request
      /\ [requests[q] EXCEPT !.phase = phase].thread = requests[q].thread
  BY <1>1 DEF Request
<1>4. /\ requests'[q] = IF phase = "idle" THEN IdleRequest ELSE [requests[q] EXCEPT !.phase = phase]
      /\ \A r \in Requests \ {q} : requests'[r] = requests[r]
      /\ requests' \in [Requests -> Request]
  BY <1>1, <1>2, <1>3 DEF Moves
<1> QED BY <1>1, <1>2, <1>3, <1>4 DEF TypeInv, RequestsHaveThreads

LEMMA CommitType ==
    ASSUME TypeInv, NEW q \in Requests, Commit(q)
    PROVE  /\ TypeInv' /\ Len(log') = Len(log) + 1 /\ Len(log) \in Nat
           /\ \A i \in 1..Len(log) : log'[i] = log[i]
<1> DEFINE e == EventOf(requests[q])
<1>1. requests[q].phase \in {"creating", "undoing", "deleting", "starting"}
  BY DEF Commit, Dispatching
<1>2. e.type \in EventTypes /\ e.thread \in Threads
  BY <1>1 DEF EventOf, EventTypes, TypeInv, RequestsHaveThreads
<1>3. e \in [thread : Threads, type : EventTypes]
  BY <1>2 DEF EventOf
<1> HIDE DEF e
<1>4. /\ log' = Append(log, e) /\ log \in Seq([thread : Threads, type : EventTypes])
      /\ Len(log) < MaxEvents
  BY DEF Commit, TypeInv, TypeOK, e
<1>5. /\ log' \in Seq([thread : Threads, type : EventTypes]) /\ Len(log') = Len(log) + 1
      /\ \A i \in 1..Len(log) : log'[i] = log[i]
      /\ Len(log) \in Nat
  BY <1>3, <1>4, LenProperties, AppendProperties
<1>6. TypeOK'
  BY <1>5 DEF Commit, TypeInv, TypeOK, reactorVars, workerVars
<1>7. Len(log') <= MaxEvents
  BY <1>4, <1>5, FenceAssumption
<1> QED BY <1>5, <1>6, <1>7 DEF Commit, TypeInv, RequestsHaveThreads, OutstandingIsCounted, workerVars

LEMMA EngineType ==
    ASSUME TypeInv, Engine
    PROVE  TypeInv'
<1> USE FenceAssumption
<1>0. /\ log \in Seq([thread : Threads, type : EventTypes]) /\ Len(log) \in Nat /\ Len(log) <= MaxEvents
      /\ published \in 0..Len(log)
  BY LenProperties DEF TypeInv, TypeOK
<1>1. ASSUME NEW q \in Requests, Commit(q) PROVE TypeInv'
  BY <1>1, CommitType
<1>2. ASSUME NEW q \in Requests, Answer(q) PROVE TypeInv'
  <2>1. requests' \in [Requests -> Request] /\ RequestsHaveThreads'
    <3>1. CASE requests[q].phase = "creating"
      <4>1. /\ requests[q] \in Request /\ requests \in [Requests -> Request]
            /\ requests[q].thread \in Threads /\ published \in 0..MaxEvents
        BY <1>0, <3>1 DEF TypeInv, TypeOK, RequestsHaveThreads
      <4>2. requests' = [requests EXCEPT ![q] = [[@ EXCEPT !.phase = "fencing"] EXCEPT
                                                    !.incarnation = published]]
        BY <1>2, <3>1, <4>1 DEF Answer, AfterCreate
      <4>3. /\ [[requests[q] EXCEPT !.phase = "fencing"] EXCEPT !.incarnation = published] \in Request
            /\ [[requests[q] EXCEPT !.phase = "fencing"] EXCEPT !.incarnation = published].thread
                  = requests[q].thread
        BY <4>1 DEF Request, Phases
      <4>4. /\ requests'[q].thread \in Threads /\ requests' \in [Requests -> Request]
            /\ \A r \in Requests \ {q} : requests'[r] = requests[r]
        BY <4>1, <4>2, <4>3
      <4> QED BY <4>4 DEF TypeInv, RequestsHaveThreads
    <3>2. CASE requests[q].phase # "creating"
      <4>1. Moves(q, "idle")
        BY <1>2, <3>2 DEF Answer
      <4>2. IdleRequest \in Request /\ IdleRequest.phase = "idle"
        BY DEF IdleRequest, Request, Phases
      <4> QED BY <4>1, <4>2 DEF Moves, TypeInv, TypeOK, RequestsHaveThreads
    <3> QED BY <3>1, <3>2
  <2> QED BY <1>2, <2>1 DEF Answer, TypeInv, TypeOK, OutstandingIsCounted, reactorVars, workerVars
<1>3. ASSUME NEW q \in Requests, AnswerFailure(q) PROVE TypeInv'
  <2>1. Moves(q, "undoing") \/ Moves(q, "idle")
    BY <1>3 DEF AnswerFailure, AfterFailure
  <2>2. requests' \in [Requests -> Request] /\ RequestsHaveThreads'
    <3>1. CASE requests[q].phase # "idle"
      BY <2>1, <3>1, MovesType DEF Phases
    <3>2. CASE requests[q].phase = "idle"
      <4>1. Moves(q, "idle")
        BY <1>3, <3>2 DEF AnswerFailure, AfterFailure
      <4>2. IdleRequest \in Request /\ IdleRequest.phase = "idle"
        BY DEF IdleRequest, Request, Phases
      <4> QED BY <4>1, <4>2 DEF Moves, TypeInv, TypeOK, RequestsHaveThreads
    <3> QED BY <3>1, <3>2
  <2>3. failures' \in 0..MaxFailures /\ serving' \in Requests \cup {"none"}
    BY <1>3 DEF AnswerFailure, TypeInv, TypeOK
  <2> QED BY <1>3, <2>2, <2>3 DEF AnswerFailure, TypeInv, TypeOK, OutstandingIsCounted, reactorVars, workerVars
<1>4. CASE Publish
  <2>1. published + 1 \in Sequences /\ published' \in 0..Len(log)
    BY <1>0, <1>4 DEF Publish, Sequences
  <2>2. inbox' \in Seq(Sequences)
    BY <1>4, <2>1, AppendProperties DEF Publish, TypeInv, TypeOK
  <2> QED BY <1>4, <2>1, <2>2 DEF Publish, TypeInv, TypeOK, RequestsHaveThreads, OutstandingIsCounted, workerVars
<1> QED BY <1>1, <1>2, <1>3, <1>4 DEF Engine

LEMMA RequestType ==
    ASSUME TypeInv, NEW q \in Requests, Client(q) \/ FenceSeen(q) \/ Drained(q)
    PROVE  TypeInv'
<1> USE FenceAssumption
<1>1. ASSUME NEW t \in Threads, NEW phase \in {"creating", "deleting"}, NEW b \in BOOLEAN,
             Ask(q, t, phase, b)
      PROVE  TypeInv'
  <2> DEFINE new == [phase |-> phase, thread |-> t, bootstrap |-> b, incarnation |-> 0]
  <2>1. new \in Request /\ new.thread = t
    BY DEF Request, Phases
  <2> HIDE DEF new
  <2>2. requests' = [requests EXCEPT ![q] = new]
    BY <1>1 DEF Ask, new
  <2>3. requests' \in [Requests -> Request] /\ RequestsHaveThreads'
    BY <2>1, <2>2 DEF TypeInv, TypeOK, RequestsHaveThreads
  <2> QED BY <1>1, <2>3 DEF Ask, TypeInv, TypeOK, OutstandingIsCounted, engineVars, reactorVars, workerVars
<1>2. ASSUME NEW r \in Resources, StartResource(q, r)
      PROVE  TypeInv'
  <2>1. requests[q].thread \in Threads /\ requests[q].incarnation \in 0..MaxEvents
    BY <1>2 DEF StartResource, TypeInv, TypeOK, RequestsHaveThreads, Request
  <2>2. owner' \in [Threads -> [Resources -> 0..MaxEvents]]
    BY <1>2, <2>1 DEF StartResource, TypeInv, TypeOK
  <2> QED BY <1>2, <2>2 DEF StartResource, TypeInv, TypeOK, RequestsHaveThreads, OutstandingIsCounted,
                            engineVars, reactorVars, workerVars
<1>3. CASE Proceed(q) \/ SetUpFails(q) \/ Disconnect(q) \/ FenceSeen(q) \/ Drained(q)
  <2>1. \E phase \in Phases : requests[q].phase # "idle" /\ Moves(q, phase)
    BY <1>3 DEF Proceed, SetUpFails, Disconnect, FenceSeen, Drained, Phases
  <2>2. requests' \in [Requests -> Request] /\ RequestsHaveThreads'
    BY <2>1, MovesType
  <2>3. /\ failures' \in 0..MaxFailures
        /\ UNCHANGED <<engineVars, reactorVars, workerVars, owner>>
    BY <1>3 DEF Proceed, SetUpFails, Disconnect, FenceSeen, Drained, TypeInv, TypeOK
  <2> QED BY <2>2, <2>3 DEF TypeInv, TypeOK, OutstandingIsCounted, engineVars, reactorVars, workerVars
<1> QED BY <1>1, <1>2, <1>3 DEF Client

LEMMA ReactorType ==
    ASSUME TypeInv, Subscribe \/ Reactor \/ Worker
    PROVE  TypeInv'
<1> USE FenceAssumption
<1>0. /\ Len(log) \in Nat /\ Len(log) <= MaxEvents /\ Len(queue) \in Nat
      /\ inbox \in Seq(Sequences) /\ queue \in Seq(Sequences)
  BY LenProperties DEF TypeInv, TypeOK
<1>1. CASE Subscribe
  <2>1. seenSequence' \in 0..MaxEvents
    BY <1>0, <1>1 DEF Subscribe, StartingSequence
  <2> QED BY <1>1, <2>1 DEF Subscribe, TypeInv, TypeOK, RequestsHaveThreads, OutstandingIsCounted,
                            engineVars, workerVars
<1>2. CASE HandleEvent
  <2>1. Head(inbox) \in Sequences /\ inbox' \in Seq(Sequences)
    BY <1>0, <1>2, HeadTailProperties DEF HandleEvent
  <2>2. /\ queue' \in Seq(Sequences)
        /\ \/ Len(queue') = Len(queue) + 1 /\ outstanding' = outstanding + 1
           \/ Len(queue') = Len(queue) /\ outstanding' = outstanding
    <3>1. \/ queue' = Append(queue, Head(inbox)) /\ outstanding' = outstanding + 1
          \/ queue' = queue /\ outstanding' = outstanding
      BY <1>2 DEF HandleEvent, Enqueue
    <3>2. /\ Append(queue, Head(inbox)) \in Seq(Sequences)
          /\ Len(Append(queue, Head(inbox))) = Len(queue) + 1
      BY <1>0, <2>1, AppendProperties
    <3> QED BY <1>0, <3>1, <3>2
  <2>3. handling' \in 0..MaxEvents /\ outstanding' \in Nat /\ OutstandingIsCounted'
    BY <1>0, <1>2, <2>1, <2>2 DEF HandleEvent, Sequences, TypeInv, TypeOK, OutstandingIsCounted
  <2> QED BY <1>2, <2>1, <2>2, <2>3 DEF HandleEvent, TypeInv, TypeOK, RequestsHaveThreads, engineVars
<1>3. CASE NoteSeen
  BY <1>3 DEF NoteSeen, TypeInv, TypeOK, RequestsHaveThreads, OutstandingIsCounted, engineVars,
              workerVars
<1>4. CASE TakeDeletion
  <2>1. /\ Head(queue) \in Sequences /\ queue' \in Seq(Sequences) /\ Len(queue') = Len(queue) - 1
        /\ Len(queue) # 0
    BY <1>0, <1>4, HeadTailProperties, EmptySeq DEF TakeDeletion
  <2>2. cleaning' \in 0..MaxEvents /\ cleaning' # 0 /\ outstanding' = outstanding /\ OutstandingIsCounted'
    BY <1>0, <1>4, <2>1 DEF TakeDeletion, Sequences, OutstandingAfter, TypeInv, TypeOK, OutstandingIsCounted
  <2> QED BY <1>4, <2>1, <2>2 DEF TakeDeletion, TypeInv, TypeOK, RequestsHaveThreads, engineVars,
                                  reactorVars
<1>5. ASSUME NEW at \in {"stopSession", "closeTerminals"}, NEW resource \in Resources,
             NEW next \in {"closeTerminals", "finish"}, CleanUp(at, resource, next)
      PROVE  TypeInv'
  <2>1. owner' \in [Threads -> [Resources -> 0..MaxEvents]]
    <3> DEFINE t == log[cleaning].thread
    <3>1. owner' = [owner EXCEPT ![t] = [owner[t] EXCEPT ![resource] = 0]] \/ owner' = owner
      BY <1>5 DEF CleanUp
    <3>2. owner \in [Threads -> [Resources -> 0..MaxEvents]]
      BY DEF TypeInv, TypeOK
    <3>3. t \in Threads => [owner[t] EXCEPT ![resource] = 0] \in [Resources -> 0..MaxEvents]
      BY <3>2
    <3> HIDE DEF t
    <3> QED BY <3>1, <3>2, <3>3
  <2>2. failures' \in 0..MaxFailures
    BY <1>5 DEF CleanUp, TypeInv, TypeOK
  <2> QED BY <1>5, <2>1, <2>2 DEF CleanUp, TypeInv, TypeOK, RequestsHaveThreads, OutstandingIsCounted,
                                  engineVars, reactorVars
<1>6. CASE FinishDeletion
  <2>1. outstanding = Len(queue) + 1 /\ outstanding' = outstanding - 1
    BY <1>6 DEF FinishDeletion, OutstandingAfter, TypeInv, TypeOK, OutstandingIsCounted
  <2> QED BY <1>0, <1>6, <2>1 DEF FinishDeletion, TypeInv, TypeOK, RequestsHaveThreads,
                                  OutstandingIsCounted, engineVars, reactorVars
<1> QED BY <1>1, <1>2, <1>3, <1>4, <1>5, <1>6
        DEF Reactor, Worker, StopProviderSession, CloseThreadTerminals, Resources

LEMMA NextType ==
    ASSUME TypeInv, [Next]_vars
    PROVE  TypeInv'
<1>1. CASE UNCHANGED vars
  BY <1>1 DEF vars, engineVars, reactorVars, workerVars, TypeInv, TypeOK, RequestsHaveThreads,
              OutstandingIsCounted
<1> QED BY <1>1, EngineType, RequestType, ReactorType DEF Next

(* Every variable stays in its range; in particular the count of outstanding  *)
(* clean-ups is never decremented below zero.                                *)
THEOREM TypeCorrect == Spec => []TypeOK
<1>1. Init => TypeInv
  BY InitType
<1>2. TypeInv /\ [Next]_vars => TypeInv'
  BY NextType
<1>3. TypeInv => TypeOK
  BY DEF TypeInv
<1> QED BY <1>1, <1>2, <1>3, PTL DEF Spec

---------------------------------------------------------------------------
(* The fence.                                                               *)

Behind == {"fencing", "draining", "holding"}

\* The engine serves one command at a time: the log is at most one event ahead.
EngineInOrder ==
    /\ published <= Len(log) /\ Len(log) <= published + 1
    /\ serving = "none" => published = Len(log)
    /\ \A q \in Requests :
          serving = q => Dispatching(q) /\ Len(log) # 0 /\ log[Len(log)] = EventOf(requests[q])

\* The inbox is in order, and nothing in it is older than the watermark.
InboxInOrder ==
    /\ ~subscribed => inbox = <<>> /\ handling = 0 /\ seenSequence = 0
    /\ seenSequence <= published + 1 /\ handling <= published
    /\ \A i \in 1..Len(inbox) :
          seenSequence <= inbox[i] /\ handling <= inbox[i] /\ inbox[i] <= published
    /\ \A i, j \in 1..Len(inbox) : i <= j => inbox[i] <= inbox[j]

IsDeletion(d) == d <= published /\ log[d].type = "thread.deleted"
WorkerDeletes ==
    /\ \A i \in 1..Len(queue) : IsDeletion(queue[i])
    /\ cleaning # 0 => IsDeletion(cleaning)

\* How far a request that waits at its fence, or has passed it, has come.
Fenced(q) ==
    LET n == requests[q].incarnation
        phase == requests[q].phase
    IN  /\ phase \in Behind =>
              /\ n \in 1..published
              /\ log[n].type = "thread.created" /\ log[n].thread = requests[q].thread
        /\ phase \in {"draining", "holding"} => n <= seenSequence
        /\ phase = "holding" => /\ \A i \in 1..Len(queue) : n <= queue[i]
                                /\ cleaning # 0 => n <= cleaning

\* Sequences on their way through the reactor.
OnItsWay(d) ==
    \/ \E i \in 1..Len(inbox) : inbox[i] = d
    \/ \E i \in 1..Len(queue) : queue[i] = d
    \/ cleaning = d

\* No deletion still on its way is of a later incarnation's thread.
Spared(t, r) ==
    /\ owner[t][r] <= published
    /\ \A d \in 1..Len(log) :
          OnItsWay(d) /\ log[d].type = "thread.deleted" /\ log[d].thread = t => owner[t][r] < d

FInv ==
    /\ EngineInOrder /\ InboxInOrder /\ WorkerDeletes
    /\ \A q \in Requests : Fenced(q)
    /\ \A t \in Threads, r \in Resources : Spared(t, r)

LEMMA InitFence == Init => FInv
<1> SUFFICES ASSUME Init PROVE FInv
  OBVIOUS
<1>1. Len(<<>>) = 0 /\ 1..0 = {}
  OBVIOUS
<1>2. EngineInOrder /\ InboxInOrder /\ WorkerDeletes
  BY <1>1, FenceAssumption DEF Init, EngineInOrder, InboxInOrder, WorkerDeletes
<1>3. \A q \in Requests : Fenced(q)
  BY <1>1 DEF Init, Fenced, IdleRequest, Behind
<1>4. \A t \in Threads, r \in Resources : Spared(t, r)
  BY <1>1 DEF Init, Spared
<1> QED BY <1>2, <1>3, <1>4 DEF FInv

\* Ranges the arithmetic below needs.
LEMMA Ranges ==
    ASSUME TypeInv
    PROVE  /\ published \in Nat /\ Len(log) \in Nat /\ seenSequence \in Nat /\ handling \in Nat
           /\ cleaning \in Nat /\ Len(inbox) \in Nat /\ Len(queue) \in Nat
           /\ \A i \in 1..Len(inbox) : inbox[i] \in Nat /\ inbox[i] # 0
           /\ \A i \in 1..Len(queue) : queue[i] \in Nat /\ queue[i] # 0
           /\ \A t \in Threads, r \in Resources : owner[t][r] \in Nat
           /\ \A q \in Requests : requests[q].incarnation \in Nat
<1>1. /\ published \in 0..Len(log) /\ Len(log) \in Nat /\ Len(inbox) \in Nat /\ Len(queue) \in Nat
      /\ seenSequence \in 0..MaxEvents /\ handling \in 0..MaxEvents /\ cleaning \in 0..MaxEvents
  BY LenProperties DEF TypeInv, TypeOK
<1>2. /\ \A i \in 1..Len(inbox) : inbox[i] \in Sequences
      /\ \A i \in 1..Len(queue) : queue[i] \in Sequences
  BY ElementOfSeq DEF TypeInv, TypeOK
<1>3. /\ \A t \in Threads, r \in Resources : owner[t][r] \in 0..MaxEvents
      /\ \A q \in Requests : requests[q].incarnation \in 0..MaxEvents
  BY DEF TypeInv, TypeOK, Request
<1> QED BY <1>1, <1>2, <1>3 DEF Sequences

\* A step of one request, which the engine is not serving or just answered.
LEMMA RequestStep ==
    ASSUME TypeInv, FInv, NEW q \in Requests,
           UNCHANGED <<log, published, reactorVars, workerVars, owner>>,
           \A r \in Requests \ {q} : requests'[r] = requests[r],
           serving' \in {serving, "none"}, serving' # q, serving' = "none" => published = Len(log),
           Fenced(q)'
    PROVE  FInv'
<1>1. EngineInOrder'
  BY FenceAssumption DEF FInv, EngineInOrder, Dispatching
<1>2. InboxInOrder' /\ WorkerDeletes'
  BY DEF FInv, InboxInOrder, WorkerDeletes, IsDeletion, reactorVars, workerVars
<1>3. \A r \in Requests \ {q} : Fenced(r)'
  BY DEF FInv, Fenced, reactorVars, workerVars
<1>4. \A t \in Threads, r \in Resources : Spared(t, r)'
  BY DEF FInv, Spared, OnItsWay, reactorVars, workerVars
<1> QED BY <1>1, <1>2, <1>3, <1>4 DEF FInv

\* What Moves does to the request that moves, and to the others.
LEMMA Moved ==
    ASSUME TypeInv, NEW q \in Requests, NEW phase, Moves(q, phase)
    PROVE  /\ \A r \in Requests \ {q} : requests'[r] = requests[r]
           /\ requests'[q].phase = phase
           /\ phase # "idle" => /\ requests'[q].incarnation = requests[q].incarnation
                                /\ requests'[q].thread = requests[q].thread
<1>1. requests[q] \in Request /\ requests \in [Requests -> Request]
  BY DEF TypeInv, TypeOK
<1>2. CASE phase = "idle"
  BY <1>1, <1>2 DEF Moves, IdleRequest
<1>3. CASE phase # "idle"
  <2>1. requests'[q] = [requests[q] EXCEPT !.phase = phase]
    BY <1>1, <1>3 DEF Moves
  <2> QED BY <1>1, <1>3, <2>1 DEF Moves, Request
<1> QED BY <1>2, <1>3

LEMMA ClientFence ==
    ASSUME TypeInv, FInv, NEW q \in Requests, Client(q) \/ FenceSeen(q) \/ Drained(q)
    PROVE  FInv'
<1>1. ASSUME NEW t \in Threads, NEW phase \in {"creating", "deleting"}, NEW b \in BOOLEAN,
             Ask(q, t, phase, b)
      PROVE  FInv'
  <2>1. /\ requests[q].phase = "idle" /\ requests'[q].phase = phase
        /\ \A r \in Requests \ {q} : requests'[r] = requests[r]
        /\ UNCHANGED <<log, published, serving, reactorVars, workerVars, owner>>
    BY <1>1 DEF Ask, engineVars, TypeInv, TypeOK
  <2>2. serving # q
    BY <2>1 DEF FInv, EngineInOrder, Dispatching
  <2>3. Fenced(q)'
    BY <2>1 DEF Fenced, Behind
  <2>4. serving = "none" => published = Len(log)
    BY DEF FInv, EngineInOrder
  <2> QED BY <2>1, <2>2, <2>3, <2>4, RequestStep
<1>2. ASSUME NEW r \in Resources, StartResource(q, r)
      PROVE  FInv'
  <2> DEFINE t == requests[q].thread
             n == requests[q].incarnation
  <2>1. /\ requests[q].phase = "holding" /\ t \in Threads
        /\ UNCHANGED <<log, published, serving, reactorVars, workerVars, requests>>
        /\ owner' = [owner EXCEPT ![t][r] = IF @ > n THEN @ ELSE n]
    BY <1>2 DEF StartResource, engineVars, TypeInv, RequestsHaveThreads
  <2>2. \A u \in Threads, w \in Resources :
           owner'[u][w] = IF u = t /\ w = r /\ ~(owner[u][w] > n) THEN n ELSE owner[u][w]
    <3>1. owner \in [Threads -> [Resources -> 0..MaxEvents]]
      BY DEF TypeInv, TypeOK
    <3> HIDE DEF t, n
    <3> QED BY <2>1, <3>1
  <2>3. /\ n \in 1..published /\ log[n].type = "thread.created" /\ n <= seenSequence
        /\ \A i \in 1..Len(queue) : n <= queue[i]
        /\ cleaning # 0 => n <= cleaning
    BY <2>1 DEF FInv, Fenced, Behind
  <2>4. \A i \in 1..Len(inbox) : n <= inbox[i]
    BY <2>3, Ranges DEF FInv, InboxInOrder
  <2>5. ASSUME NEW d \in 1..Len(log), OnItsWay(d), log[d].type = "thread.deleted"
        PROVE  n < d
    <3>1. n <= d
      BY <2>3, <2>4, <2>5 DEF OnItsWay
    <3>2. n # d
      BY <2>3, <2>5
    <3> QED BY <2>3, <3>1, <3>2, Ranges
  <2> HIDE DEF t, n
  <2>6. \A u \in Threads, w \in Resources : Spared(u, w)'
    <3> TAKE u \in Threads, w \in Resources
    <3>1. Spared(u, w) /\ owner[u][w] \in Nat
      BY Ranges DEF FInv
    <3>2. \A d : OnItsWay(d)' <=> OnItsWay(d)
      BY <2>1 DEF OnItsWay, reactorVars, workerVars
    <3>3. owner'[u][w] <= published /\ \A d \in 1..Len(log) :
             OnItsWay(d) /\ log[d].type = "thread.deleted" /\ log[d].thread = u => owner'[u][w] < d
      BY <2>2, <2>3, <2>5, <3>1, Ranges DEF Spared
    <3> QED BY <2>1, <3>2, <3>3 DEF Spared
  <2>7. EngineInOrder' /\ InboxInOrder' /\ WorkerDeletes' /\ \A p \in Requests : Fenced(p)'
    BY <2>1 DEF FInv, EngineInOrder, InboxInOrder, WorkerDeletes, IsDeletion, Fenced, Dispatching,
                reactorVars, workerVars
  <2> QED BY <2>6, <2>7 DEF FInv
<1>3. ASSUME NEW phase \in {"idle", "starting", "undoing"}, requests[q].phase \in Behind,
             Moves(q, phase), UNCHANGED <<engineVars, reactorVars, workerVars, owner>>
      PROVE  FInv'
  <2>1. /\ requests'[q].phase = phase /\ serving' = serving
        /\ \A r \in Requests \ {q} : requests'[r] = requests[r]
        /\ UNCHANGED <<log, published, reactorVars, workerVars, owner>>
    BY <1>3, Moved DEF engineVars
  <2>2. serving # q /\ (serving = "none" => published = Len(log))
    BY <1>3 DEF FInv, EngineInOrder, Dispatching, Behind
  <2>3. Fenced(q)'
    BY <2>1 DEF Fenced, Behind
  <2> QED BY <2>1, <2>2, <2>3, RequestStep
<1>4. CASE Proceed(q) \/ SetUpFails(q) \/ Disconnect(q)
  <2>1. \E phase \in {"idle", "starting", "undoing"} :
           /\ requests[q].phase \in Behind /\ Moves(q, phase)
           /\ UNCHANGED <<engineVars, reactorVars, workerVars, owner>>
    BY <1>4 DEF Proceed, SetUpFails, Disconnect, Behind
  <2> QED BY <1>3, <2>1
<1>5. CASE FenceSeen(q)
  <2>1. /\ requests[q].phase = "fencing" /\ seenSequence >= requests[q].incarnation
        /\ requests'[q].phase = "draining" /\ serving' = serving
        /\ requests'[q].incarnation = requests[q].incarnation
        /\ requests'[q].thread = requests[q].thread
        /\ \A r \in Requests \ {q} : requests'[r] = requests[r]
        /\ UNCHANGED <<log, published, reactorVars, workerVars, owner>>
    BY <1>5, Moved DEF FenceSeen, engineVars
  <2>2. serving # q /\ (serving = "none" => published = Len(log))
    BY <2>1 DEF FInv, EngineInOrder, Dispatching
  <2>3. Fenced(q)'
    BY <2>1, Ranges DEF FInv, Fenced, Behind, reactorVars
  <2> QED BY <2>1, <2>2, <2>3, RequestStep
<1>6. CASE Drained(q)
  <2>1. /\ requests[q].phase = "draining" /\ outstanding = 0
        /\ requests'[q].phase = "holding" /\ serving' = serving
        /\ requests'[q].incarnation = requests[q].incarnation
        /\ requests'[q].thread = requests[q].thread
        /\ \A r \in Requests \ {q} : requests'[r] = requests[r]
        /\ UNCHANGED <<log, published, reactorVars, workerVars, owner>>
    BY <1>6, Moved DEF Drained, engineVars
  <2>2. serving # q /\ (serving = "none" => published = Len(log))
    BY <2>1 DEF FInv, EngineInOrder, Dispatching
  <2>3. Len(queue) = 0 /\ cleaning = 0
    BY <2>1, Ranges DEF TypeInv, OutstandingIsCounted
  <2>4. Fenced(q)'
    BY <2>1, <2>3 DEF FInv, Fenced, Behind, reactorVars, workerVars
  <2> QED BY <2>1, <2>2, <2>4, RequestStep
<1> QED BY <1>1, <1>2, <1>4, <1>5, <1>6 DEF Client

LEMMA EngineFence ==
    ASSUME TypeInv, FInv, Engine
    PROVE  FInv'
<1>1. ASSUME NEW q \in Requests, Commit(q)
      PROVE  FInv'
  <2> DEFINE e == EventOf(requests[q])
  <2>1. /\ serving = "none" /\ serving' = q /\ Dispatching(q) /\ log' = Append(log, e)
        /\ UNCHANGED <<published, reactorVars, workerVars, requests, owner>>
    BY <1>1 DEF Commit
  <2>2. /\ Len(log') = Len(log) + 1 /\ \A i \in 1..Len(log) : log'[i] = log[i]
        /\ log'[Len(log) + 1] = e
    BY <1>1, <2>1, CommitType, AppendProperties DEF TypeInv, TypeOK
  <2> HIDE DEF e
  <2>3. published = Len(log)
    BY <2>1 DEF FInv, EngineInOrder
  <2>4. EngineInOrder'
    BY <2>1, <2>2, <2>3, FenceAssumption, Ranges DEF EngineInOrder, Dispatching, e
  <2>5. InboxInOrder'
    BY <2>1 DEF FInv, InboxInOrder, reactorVars
  <2>6. WorkerDeletes'
    <3>1. \A d \in Nat \ {0} :
             IsDeletion(d) => d <= published' /\ log'[d].type = "thread.deleted"
      BY <2>1, <2>2, <2>3, Ranges DEF IsDeletion
    <3>2. UNCHANGED <<queue, cleaning>>
      BY <2>1 DEF workerVars
    <3> QED BY <3>1, <3>2, Ranges DEF FInv, WorkerDeletes, IsDeletion
  <2>7. ASSUME NEW r \in Requests PROVE Fenced(r)'
    <3>1. requests[r].phase \in Behind => requests[r].incarnation \in 1..Len(log)
      BY <2>3 DEF FInv, Fenced
    <3> QED BY <2>1, <2>2, <3>1 DEF FInv, Fenced, reactorVars, workerVars
  <2>8. ASSUME NEW t \in Threads, NEW r \in Resources PROVE Spared(t, r)'
    <3>1. \A d : OnItsWay(d)' <=> OnItsWay(d)
      BY <2>1 DEF OnItsWay, reactorVars, workerVars
    <3>2. \A d \in 1..Len(log') : OnItsWay(d) => d \in 1..Len(log)
      BY <2>2, <2>3, Ranges DEF FInv, OnItsWay, InboxInOrder, WorkerDeletes, IsDeletion
    <3> QED BY <2>1, <2>2, <3>1, <3>2 DEF FInv, Spared
  <2> QED BY <2>4, <2>5, <2>6, <2>7, <2>8 DEF FInv
<1>2. ASSUME NEW q \in Requests, Answer(q)
      PROVE  FInv'
  <2>1. /\ serving = q /\ serving' = "none" /\ published = Len(log)
        /\ UNCHANGED <<log, published, reactorVars, workerVars, owner>>
    BY <1>2 DEF Answer
  <2>2. Dispatching(q) /\ Len(log) # 0 /\ log[Len(log)] = EventOf(requests[q])
    BY <2>1 DEF FInv, EngineInOrder
  <2>3. (\A r \in Requests \ {q} : requests'[r] = requests[r]) /\ Fenced(q)'
    <3>1. CASE requests[q].phase = "creating"
      <4>1. requests[q] \in Request /\ requests \in [Requests -> Request]
        BY DEF TypeInv, TypeOK
      <4>2. requests' = [requests EXCEPT ![q] = [[@ EXCEPT !.phase = "fencing"] EXCEPT
                                                    !.incarnation = published]]
        BY <1>2, <3>1, <4>1 DEF Answer, AfterCreate
      <4>3. /\ requests'[q].phase = "fencing" /\ requests'[q].incarnation = published
            /\ requests'[q].thread = requests[q].thread
            /\ \A r \in Requests \ {q} : requests'[r] = requests[r]
        BY <4>1, <4>2 DEF Request
      <4>4. log[published].type = "thread.created" /\ log[published].thread = requests[q].thread
        BY <2>1, <2>2, <3>1 DEF EventOf
      <4> QED BY <2>1, <2>2, <4>3, <4>4, Ranges DEF Fenced
    <3>2. CASE requests[q].phase # "creating"
      <4>1. Moves(q, "idle")
        BY <1>2, <3>2 DEF Answer
      <4> QED BY <4>1, Moved DEF Fenced, Behind
    <3> QED BY <3>1, <3>2
  <2> QED BY <2>1, <2>3, RequestStep, FenceAssumption
<1>3. ASSUME NEW q \in Requests, AnswerFailure(q)
      PROVE  FInv'
  <2>1. /\ serving \in {q, "none"} /\ serving' = "none"
        /\ UNCHANGED <<log, published, reactorVars, workerVars, owner>>
    BY <1>3 DEF AnswerFailure
  <2>2. published = Len(log)
    BY <1>3 DEF AnswerFailure, FInv, EngineInOrder
  <2>3. Moves(q, "undoing") \/ Moves(q, "idle")
    BY <1>3 DEF AnswerFailure, AfterFailure
  <2>4. (\A r \in Requests \ {q} : requests'[r] = requests[r]) /\ Fenced(q)'
    BY <2>3, Moved DEF Fenced, Behind
  <2> QED BY <2>1, <2>2, <2>4, RequestStep, FenceAssumption
<1>4. CASE Publish
  <2>1. /\ published < Len(log) /\ published' = published + 1
        /\ inbox' = IF subscribed THEN Append(inbox, published + 1) ELSE inbox
        /\ UNCHANGED <<log, serving, subscribed, handling, seenSequence, workerVars, requests, owner>>
    BY <1>4 DEF Publish
  <2>2. EngineInOrder'
    BY <2>1, Ranges DEF FInv, EngineInOrder, Dispatching
  <2>3. /\ \A i \in 1..Len(inbox) : i \in 1..Len(inbox') /\ inbox'[i] = inbox[i]
        /\ \A i \in 1..Len(inbox') : i \in 1..Len(inbox)
              \/ /\ subscribed /\ i = Len(inbox) + 1
                 /\ inbox'[i] = published + 1
    <3>1. CASE subscribed
      <4>1. published + 1 \in Sequences
        BY <2>1, Ranges, FenceAssumption DEF Sequences, TypeInv
      <4>2. /\ Len(inbox') = Len(inbox) + 1 /\ inbox'[Len(inbox) + 1] = published + 1
            /\ \A i \in 1..Len(inbox) : inbox'[i] = inbox[i]
        BY <2>1, <3>1, <4>1, AppendProperties DEF TypeInv, TypeOK
      <4> QED BY <3>1, <4>2, Ranges
    <3>2. CASE ~subscribed
      BY <2>1, <3>2
    <3> QED BY <3>1, <3>2
  <2>4. InboxInOrder'
    <3>1. ~subscribed' => inbox' = <<>> /\ handling' = 0 /\ seenSequence' = 0
      BY <2>1 DEF FInv, InboxInOrder
    <3>2. seenSequence' <= published' + 1 /\ handling' <= published'
      BY <2>1, Ranges DEF FInv, InboxInOrder
    <3>3. \A i \in 1..Len(inbox') :
             seenSequence' <= inbox'[i] /\ handling' <= inbox'[i] /\ inbox'[i] <= published'
      BY <2>1, <2>3, Ranges DEF FInv, InboxInOrder
    <3>4. \A i, j \in 1..Len(inbox') : i <= j => inbox'[i] <= inbox'[j]
      BY <2>1, <2>3, Ranges DEF FInv, InboxInOrder
    <3> QED BY <3>1, <3>2, <3>3, <3>4 DEF InboxInOrder
  <2>5. WorkerDeletes'
    BY <2>1, Ranges DEF FInv, WorkerDeletes, IsDeletion, workerVars
  <2>6. ASSUME NEW q \in Requests PROVE Fenced(q)'
    BY <2>1, Ranges DEF FInv, Fenced, workerVars
  <2>7. ASSUME NEW t \in Threads, NEW r \in Resources PROVE Spared(t, r)'
    <3>1. Spared(t, r) /\ owner[t][r] \in Nat
      BY Ranges DEF FInv
    <3>2. \A d : OnItsWay(d)' => OnItsWay(d) \/ d = published + 1
      BY <2>1, <2>3 DEF OnItsWay, workerVars
    <3> QED BY <2>1, <3>1, <3>2, Ranges DEF Spared
  <2> QED BY <2>2, <2>4, <2>5, <2>6, <2>7 DEF FInv
<1> QED BY <1>1, <1>2, <1>3, <1>4 DEF Engine

LEMMA ReactorFence ==
    ASSUME TypeInv, FInv, Subscribe \/ Reactor
    PROVE  FInv'
<1>1. CASE Subscribe
  <2>1. /\ ~subscribed /\ inbox = <<>> /\ handling = 0 /\ seenSequence = 0
        /\ subscribed' /\ seenSequence' = Len(log)
        /\ UNCHANGED <<log, published, serving, inbox, handling, queue, cleaning, requests, owner>>
    BY <1>1 DEF Subscribe, StartingSequence, engineVars, workerVars, FInv, InboxInOrder
  <2>2. InboxInOrder'
    <3>1. Len(inbox) = 0
      BY <2>1
    <3> QED BY <2>1, <3>1, Ranges DEF FInv, EngineInOrder, InboxInOrder
  <2>3. EngineInOrder' /\ WorkerDeletes'
    BY <2>1 DEF FInv, EngineInOrder, WorkerDeletes, IsDeletion, Dispatching
  <2>4. ASSUME NEW q \in Requests PROVE Fenced(q)'
    BY <2>1, Ranges DEF FInv, Fenced
  <2>5. \A t \in Threads, r \in Resources : Spared(t, r)'
    BY <2>1 DEF FInv, Spared, OnItsWay
  <2> QED BY <2>2, <2>3, <2>4, <2>5 DEF FInv
<1>2. CASE HandleEvent
  <2> DEFINE d == Head(inbox)
  <2>1. /\ handling = 0 /\ inbox # <<>> /\ handling' = d /\ inbox' = Tail(inbox)
        /\ \/ log[d].type = "thread.deleted" /\ queue' = Append(queue, d)
           \/ queue' = queue
        /\ UNCHANGED <<log, published, serving, subscribed, seenSequence, cleaning, requests, owner>>
    BY <1>2 DEF HandleEvent, Enqueue, engineVars
  <2>2. /\ Len(inbox) # 0 /\ d = inbox[1] /\ Len(inbox') = Len(inbox) - 1 /\ d \in Sequences
        /\ \A i \in 1..Len(inbox') : inbox'[i] = inbox[i + 1]
    BY <2>1, EmptySeq, HeadTailProperties DEF TypeInv, TypeOK
  <2> HIDE DEF d
  <2>3. /\ d \in Nat /\ seenSequence <= d /\ d <= published /\ subscribed
        /\ \A i \in 1..Len(inbox) : d <= inbox[i]
    BY <2>1, <2>2, Ranges DEF FInv, InboxInOrder
  <2>4. /\ \A i \in 1..Len(queue') : (i \in 1..Len(queue) /\ queue'[i] = queue[i])
                                     \/ (queue'[i] = d /\ log[d].type = "thread.deleted")
        /\ \A i \in 1..Len(queue) : i \in 1..Len(queue') /\ queue'[i] = queue[i]
    <3>1. CASE log[d].type = "thread.deleted" /\ queue' = Append(queue, d)
      <4>1. /\ Len(queue') = Len(queue) + 1 /\ queue'[Len(queue) + 1] = d
            /\ \A i \in 1..Len(queue) : queue'[i] = queue[i]
        BY <2>2, <3>1, AppendProperties DEF TypeInv, TypeOK
      <4> QED BY <3>1, <4>1, Ranges
    <3>2. CASE queue' = queue
      BY <3>2
    <3> QED BY <2>1, <3>1, <3>2
  <2>5. InboxInOrder'
    <3>1. \A i \in 1..Len(inbox') : i + 1 \in 1..Len(inbox) /\ inbox'[i] = inbox[i + 1]
      BY <2>2, Ranges
    <3>2. \A i \in 1..Len(inbox') :
             seenSequence' <= inbox'[i] /\ handling' <= inbox'[i] /\ inbox'[i] <= published'
      BY <2>1, <2>3, <3>1 DEF FInv, InboxInOrder
    <3>3. \A i, j \in 1..Len(inbox') : i <= j => inbox'[i] <= inbox'[j]
      <4> TAKE i, j \in 1..Len(inbox')
      <4> HAVE i <= j
      <4>1. i + 1 <= j + 1 /\ i + 1 \in 1..Len(inbox) /\ j + 1 \in 1..Len(inbox)
        BY <3>1
      <4> QED BY <3>1, <4>1 DEF FInv, InboxInOrder
    <3> QED BY <2>1, <2>3, <3>2, <3>3 DEF FInv, InboxInOrder
  <2>6. EngineInOrder'
    BY <2>1 DEF FInv, EngineInOrder, Dispatching
  <2>7. WorkerDeletes'
    BY <2>1, <2>3, <2>4 DEF FInv, WorkerDeletes, IsDeletion
  <2>8. ASSUME NEW q \in Requests PROVE Fenced(q)'
    <3>1. requests[q].phase = "holding" => requests[q].incarnation <= d
      BY <2>3, Ranges DEF FInv, Fenced
    <3> QED BY <2>1, <2>4, <3>1 DEF FInv, Fenced
  <2>9. ASSUME NEW t \in Threads, NEW r \in Resources PROVE Spared(t, r)'
    <3>1. \A x : OnItsWay(x)' => OnItsWay(x)
      <4>1. \A i \in 1..Len(inbox') : \E j \in 1..Len(inbox) : inbox'[i] = inbox[j]
        <5> TAKE i \in 1..Len(inbox')
        <5>1. i + 1 \in 1..Len(inbox) /\ inbox'[i] = inbox[i + 1]
          BY <2>2, Ranges
        <5> QED BY <5>1
      <4>2. \E j \in 1..Len(inbox) : d = inbox[j]
        BY <2>2, Ranges
      <4> QED BY <2>1, <2>4, <4>1, <4>2 DEF OnItsWay
    <3> QED BY <2>1, <3>1 DEF FInv, Spared
  <2> QED BY <2>5, <2>6, <2>7, <2>8, <2>9 DEF FInv
<1>3. CASE NoteSeen
  <2>1. /\ handling # 0 /\ handling' = 0
        /\ seenSequence' = IF handling > seenSequence THEN handling ELSE seenSequence
        /\ UNCHANGED <<log, published, serving, subscribed, inbox, queue, cleaning, requests, owner>>
    BY <1>3 DEF NoteSeen, engineVars, workerVars
  <2>2. InboxInOrder'
    BY <2>1, Ranges DEF FInv, InboxInOrder
  <2>3. EngineInOrder' /\ WorkerDeletes'
    BY <2>1 DEF FInv, EngineInOrder, WorkerDeletes, IsDeletion, Dispatching
  <2>4. ASSUME NEW q \in Requests PROVE Fenced(q)'
    BY <2>1, Ranges DEF FInv, Fenced
  <2>5. \A t \in Threads, r \in Resources : Spared(t, r)'
    BY <2>1 DEF FInv, Spared, OnItsWay
  <2> QED BY <2>2, <2>3, <2>4, <2>5 DEF FInv
<1> QED BY <1>1, <1>2, <1>3 DEF Reactor

\* The resource a clean-up ends is of an incarnation before its deletion.
LEMMA CleanUpSpares ==
    ASSUME TypeInv, FInv, NEW at \in {"stopSession", "closeTerminals"}, NEW resource \in Resources,
           NEW next, CleanUp(at, resource, next)
    PROVE  \A t \in Threads, r \in Resources :
              \/ owner'[t][r] = owner[t][r]
              \/ owner'[t][r] = 0 /\ owner[t][r] < cleaning
<1> DEFINE u == log[cleaning].thread
<1>1. owner' = [owner EXCEPT ![u] = [owner[u] EXCEPT ![resource] = 0]] \/ owner' = owner
  BY DEF CleanUp
<1>2. cleaning \in 1..Len(log) /\ log[cleaning].type = "thread.deleted" /\ OnItsWay(cleaning)
  BY Ranges DEF CleanUp, TypeInv, OutstandingIsCounted, FInv, EngineInOrder, WorkerDeletes, IsDeletion,
                OnItsWay
<1>3. \A r \in Resources : u \in Threads => owner[u][r] < cleaning
  BY <1>2 DEF FInv, Spared
<1>4. owner \in [Threads -> [Resources -> 0..MaxEvents]]
  BY DEF TypeInv, TypeOK
<1> HIDE DEF u
<1> SUFFICES ASSUME NEW t \in Threads, NEW r \in Resources
             PROVE  \/ owner'[t][r] = owner[t][r]
                    \/ owner'[t][r] = 0 /\ owner[t][r] < cleaning
  OBVIOUS
<1>5. CASE owner' = owner
  BY <1>5
<1>6. CASE owner' = [owner EXCEPT ![u] = [owner[u] EXCEPT ![resource] = 0]] /\ t = u
  <2>1. owner'[t] = [owner[t] EXCEPT ![resource] = 0]
    BY <1>4, <1>6
  <2>2. owner'[t][r] = IF r = resource THEN 0 ELSE owner[t][r]
    BY <1>4, <2>1
  <2> QED BY <1>3, <1>6, <2>2
<1>7. CASE owner' = [owner EXCEPT ![u] = [owner[u] EXCEPT ![resource] = 0]] /\ t # u
  BY <1>4, <1>7
<1> QED BY <1>1, <1>5, <1>6, <1>7

LEMMA WorkerFence ==
    ASSUME TypeInv, FInv, Worker
    PROVE  FInv'
<1>1. CASE TakeDeletion
  <2>1. /\ cleaning = 0 /\ queue # <<>> /\ cleaning' = Head(queue) /\ queue' = Tail(queue)
        /\ UNCHANGED <<log, published, serving, subscribed, inbox, handling, seenSequence, requests, owner>>
    BY <1>1 DEF TakeDeletion, engineVars, reactorVars
  <2>2. /\ Len(queue) # 0 /\ cleaning' = queue[1] /\ Len(queue') = Len(queue) - 1
        /\ \A i \in 1..Len(queue') : queue'[i] = queue[i + 1]
    BY <2>1, EmptySeq, HeadTailProperties DEF TypeInv, TypeOK
  <2>3. /\ 1 \in 1..Len(queue)
        /\ \A i \in 1..Len(queue') : i + 1 \in 1..Len(queue) /\ queue'[i] = queue[i + 1]
    BY <2>2, Ranges
  <2>4. WorkerDeletes'
    BY <2>1, <2>2, <2>3 DEF FInv, WorkerDeletes, IsDeletion
  <2>5. EngineInOrder' /\ InboxInOrder'
    BY <2>1 DEF FInv, EngineInOrder, InboxInOrder, Dispatching
  <2>6. ASSUME NEW q \in Requests PROVE Fenced(q)'
    BY <2>1, <2>2, <2>3 DEF FInv, Fenced
  <2>7. ASSUME NEW t \in Threads, NEW r \in Resources PROVE Spared(t, r)'
    <3>1. \A x : OnItsWay(x)' => OnItsWay(x)
      BY <2>1, <2>2, <2>3 DEF OnItsWay
    <3> QED BY <2>1, <3>1 DEF FInv, Spared
  <2> QED BY <2>4, <2>5, <2>6, <2>7 DEF FInv
<1>2. ASSUME NEW at \in {"stopSession", "closeTerminals"}, NEW resource \in Resources, NEW next,
             CleanUp(at, resource, next)
      PROVE  FInv'
  <2>1. UNCHANGED <<log, published, serving, subscribed, inbox, handling, seenSequence, queue, cleaning,
                    requests>>
    BY <1>2 DEF CleanUp, engineVars, reactorVars
  <2>2. EngineInOrder' /\ InboxInOrder' /\ WorkerDeletes' /\ \A q \in Requests : Fenced(q)'
    BY <2>1 DEF FInv, EngineInOrder, InboxInOrder, WorkerDeletes, IsDeletion, Fenced, Dispatching
  <2>3. ASSUME NEW t \in Threads, NEW r \in Resources PROVE Spared(t, r)'
    <3>1. \A x : OnItsWay(x)' <=> OnItsWay(x)
      BY <2>1 DEF OnItsWay
    <3>2. owner'[t][r] <= owner[t][r] /\ owner'[t][r] \in Nat
      BY <1>2, CleanUpSpares, Ranges
    <3> QED BY <2>1, <3>1, <3>2, Ranges DEF FInv, Spared
  <2> QED BY <2>2, <2>3 DEF FInv
<1>3. CASE FinishDeletion
  <2>1. /\ cleaning' = 0
        /\ UNCHANGED <<log, published, serving, subscribed, inbox, handling, seenSequence, queue,
                       requests, owner>>
    BY <1>3 DEF FinishDeletion, engineVars, reactorVars
  <2>2. EngineInOrder' /\ InboxInOrder' /\ WorkerDeletes' /\ \A q \in Requests : Fenced(q)'
    BY <2>1 DEF FInv, EngineInOrder, InboxInOrder, WorkerDeletes, IsDeletion, Fenced, Dispatching
  <2>3. ASSUME NEW t \in Threads, NEW r \in Resources PROVE Spared(t, r)'
    <3>1. \A x \in 1..Len(log) : OnItsWay(x)' => OnItsWay(x)
      BY <2>1, Ranges DEF OnItsWay
    <3> QED BY <2>1, <3>1 DEF FInv, Spared
  <2> QED BY <2>2, <2>3 DEF FInv
<1> QED BY <1>1, <1>2, <1>3
        DEF Worker, StopProviderSession, CloseThreadTerminals, Resources

LEMMA NextFence ==
    ASSUME TypeInv, FInv, [Next]_vars
    PROVE  FInv'
<1>1. CASE UNCHANGED vars
  BY <1>1 DEF vars, engineVars, reactorVars, workerVars, FInv, EngineInOrder, InboxInOrder,
              WorkerDeletes, IsDeletion, Fenced, Spared, OnItsWay, Dispatching
<1> QED BY <1>1, EngineFence, ClientFence, ReactorFence, WorkerFence DEF Next

LEMMA Fences == Spec => [](TypeInv /\ FInv)
<1>1. Init => TypeInv /\ FInv
  BY InitType, InitFence
<1>2. (TypeInv /\ FInv) /\ [Next]_vars => (TypeInv /\ FInv)'
  BY NextType, NextFence
<1> QED BY <1>1, <1>2, PTL DEF Spec

(* drainThrough keeps its promise: once a create holds its thread, no earlier   *)
(* deletion of that thread is still on its way to the worker, queued or in      *)
(* progress, wherever the log stood when the reactor subscribed.              *)
THEOREM FenceKeepsItsPromise == Spec => []FencePassedMeansCleaned
<1>1. ASSUME TypeInv, FInv PROVE FencePassedMeansCleaned
  <2> SUFFICES ASSUME NEW q \in Requests, requests[q].phase = "holding",
                      NEW d \in 1..Len(log), d < requests[q].incarnation
               PROVE  /\ \A i \in 1..Len(inbox) : inbox[i] # d
                      /\ \A i \in 1..Len(queue) : queue[i] # d
                      /\ cleaning # d
    BY DEF FencePassedMeansCleaned
  <2> DEFINE n == requests[q].incarnation
  <2>1. /\ n <= seenSequence /\ \A i \in 1..Len(queue) : n <= queue[i]
        /\ cleaning # 0 => n <= cleaning
    BY <1>1 DEF FInv, Fenced
  <2>2. \A i \in 1..Len(inbox) : seenSequence <= inbox[i]
    BY <1>1 DEF FInv, InboxInOrder
  <2> QED BY <1>1, <2>1, <2>2, Ranges
<1> QED BY <1>1, Fences, PTL

(* A clean-up ends no session and closes no terminals but those of the          *)
(* incarnation its deletion ended, or of an older one.                        *)
THEOREM NewIncarnationIsSpared == Spec => CleanUpSparesNewIncarnation
<1> DEFINE Spares == \A t \in Threads, r \in Resources :
                        owner[t][r] # 0 /\ owner'[t][r] = 0 => owner[t][r] < cleaning
<1>1. TypeInv /\ FInv /\ [Next]_vars => [Spares]_vars
  <2> SUFFICES ASSUME TypeInv, FInv, Next PROVE Spares
    BY DEF vars
  <2>1. ASSUME owner' = owner PROVE Spares
    BY <2>1
  <2>2. ASSUME NEW q \in Requests, NEW r \in Resources, StartResource(q, r) PROVE Spares
    <3> DEFINE u == requests[q].thread
               n == requests[q].incarnation
    <3>1. owner' = [owner EXCEPT ![u] = [owner[u] EXCEPT ![r] = IF @ > n THEN @ ELSE n]]
      BY <2>2 DEF StartResource
    <3>2. owner \in [Threads -> [Resources -> 0..MaxEvents]] /\ n # 0
      BY <2>2, Ranges DEF StartResource, TypeInv, TypeOK, FInv, Fenced, Behind
    <3>3. \A t \in Threads, w \in Resources :
             owner'[t][w] = owner[t][w] \/ owner'[t][w] = n
      <4> HIDE DEF u, n
      <4> QED BY <3>1, <3>2
    <3> QED BY <3>2, <3>3
  <2>3. ASSUME NEW at \in {"stopSession", "closeTerminals"}, NEW resource \in Resources, NEW next,
               CleanUp(at, resource, next)
        PROVE  Spares
    BY <2>3, CleanUpSpares
  <2>4. CASE Engine
    BY <2>1, <2>4 DEF Engine, Commit, Answer, AnswerFailure, Publish
  <2>5. ASSUME NEW q \in Requests, Client(q) \/ FenceSeen(q) \/ Drained(q) PROVE Spares
    BY <2>1, <2>2, <2>5 DEF Client, Ask, Proceed, SetUpFails, Disconnect, FenceSeen, Drained
  <2>6. CASE Subscribe \/ Reactor
    BY <2>1, <2>6 DEF Subscribe, Reactor, HandleEvent, NoteSeen
  <2>7. CASE Worker
    BY <2>1, <2>3, <2>7 DEF Worker, TakeDeletion, FinishDeletion, StopProviderSession,
                            CloseThreadTerminals, Resources
  <2>8. CASE Quiet /\ UNCHANGED vars
    BY <2>1, <2>8 DEF vars
  <2> QED BY <2>4, <2>5, <2>6, <2>7, <2>8 DEF Next
<1> QED BY <1>1, Fences, PTL DEF Spec, CleanUpSparesNewIncarnation
=============================================================================
