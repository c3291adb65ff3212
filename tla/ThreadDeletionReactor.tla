------------------------ MODULE ThreadDeletionReactor ------------------------
(***************************************************************************)
(* Deleting a thread and creating it again under the same id.  The reactor   *)
(* (orchestration/Layers/ThreadDeletionReactor.ts) follows the live events    *)
(* and hands every thread.deleted to a drainable worker (packages/shared,      *)
(* DrainableWorker.ts), which stops the thread's provider session and closes   *)
(* its terminals.  These are keyed by the thread id, so the clean-up of a      *)
(* deleted thread must not run once a new thread of that id has resources:     *)
(* ws.ts answers a thread.create, and goes on with a bootstrapped first turn,  *)
(* only after drainThrough(sequence of the create).                           *)
(*                                                                         *)
(* An incarnation of a thread is the sequence of the thread.created event     *)
(* that began it.                                                           *)
(*                                                                         *)
(* Abstractions: the engine is what its own module shows it to be, one        *)
(* command at a time, committed, then published, then answered, and an        *)
(* answer may report failure for a command that was committed.  The reactor   *)
(* subscribes some time after the server accepts commands, in one step with   *)
(* reading the head of the log (both run in one turn of the event loop).      *)
(* Whoever holds an incarnation may start a session or terminals: a           *)
(* bootstrap's set-up script and first turn, a client's terminal.open and     *)
(* later turns; the provider reactor that starts the session on its own time  *)
(* is not part of this module.  Worktrees and activities are left out.        *)
(***************************************************************************)
EXTENDS Naturals, Sequences, FiniteSets

CONSTANTS
    Threads,       \* thread ids
    Requests,      \* concurrent requests of clients, served one after another each
    MaxEvents,     \* bound: events in the log
    MaxFailures    \* bound: failed commands, set-ups and clean-ups

ASSUME FenceAssumption ==
    /\ "none" \notin Requests \cup Threads
    /\ MaxEvents \in Nat /\ MaxFailures \in Nat

Resources == {"session", "terminals"}

VARIABLES
    (* the engine *)
    log,           \* committed events, in sequence order
    published,     \* how many of them are published
    serving,       \* the request whose command is between commit and answer, or "none"
    (* the reactor *)
    subscribed,    \* the reactor listens
    inbox,         \* sequences published to the subscription and not handled
    handling,      \* the sequence being handled, enqueued but not yet noted; 0 if none
    seenSequence,
    (* its worker *)
    queue,         \* deletions enqueued and not taken
    outstanding,   \* enqueued and not finished
    cleaning,      \* the deletion being processed, 0 if none
    step,          \* where processThreadDeleted is
    (* the requests *)
    requests,
    (* provider sessions and terminals *)
    owner,         \* per thread and resource: the incarnation it was started for
    failures

engineVars  == <<log, published, serving>>
reactorVars == <<subscribed, inbox, handling, seenSequence>>
workerVars  == <<queue, outstanding, cleaning, step>>
vars == <<engineVars, reactorVars, workerVars, requests, owner, failures>>

EventTypes == {"thread.created", "thread.deleted", "thread.turn-start-requested"}
Sequences == 1..MaxEvents

Phases == {"idle", "creating", "fencing", "draining", "holding", "starting", "undoing", "deleting"}
\* bootstrap: the request is a turn start that creates its thread first.
Request ==
    [phase : Phases, thread : Threads \cup {"none"}, bootstrap : BOOLEAN, incarnation : 0..MaxEvents]
IdleRequest == [phase |-> "idle", thread |-> "none", bootstrap |-> FALSE, incarnation |-> 0]

Init ==
    /\ log = <<>> /\ published = 0 /\ serving = "none"
    /\ subscribed = FALSE /\ inbox = <<>> /\ handling = 0 /\ seenSequence = 0
    /\ queue = <<>> /\ outstanding = 0 /\ cleaning = 0 /\ step = "idle"
    /\ requests = [q \in Requests |-> IdleRequest]
    /\ owner = [t \in Threads |-> [r \in Resources |-> 0]]
    /\ failures = 0

---------------------------------------------------------------------------
(* The engine.                                                              *)

LastOf(types, t) ==
    LET S == {i \in 1..Len(log) : log[i].thread = t /\ log[i].type \in types}
    IN  IF S = {} THEN 0 ELSE CHOOSE i \in S : \A j \in S : j <= i

Exists(t) == LastOf({"thread.created"}, t) # 0
Live(t)   == LastOf({"thread.created"}, t) > LastOf({"thread.deleted"}, t)

\* The command a request waits for, as the event it leads to.
EventOf(request) ==
    [thread |-> request.thread,
     type |-> CASE request.phase = "creating" -> "thread.created"
                [] request.phase \in {"undoing", "deleting"} -> "thread.deleted"
                [] request.phase = "starting" -> "thread.turn-start-requested"]

Dispatching(q) == requests[q].phase \in {"creating", "undoing", "deleting", "starting"}

\* The decider: a thread can be created if none of that id is live, and deleted
\* or given a turn if one ever existed.
Accepts(e) ==
    IF e.type = "thread.created" THEN ~Live(e.thread) ELSE Exists(e.thread)

Commit(q) ==
    /\ serving = "none" /\ Dispatching(q)
    /\ Len(log) < MaxEvents
    /\ Accepts(EventOf(requests[q]))
    /\ log' = Append(log, EventOf(requests[q]))
    /\ serving' = q
    /\ UNCHANGED <<published, reactorVars, workerVars, requests, owner, failures>>

Publish ==
    /\ published < Len(log)
    /\ published' = published + 1
    /\ inbox' = IF subscribed THEN Append(inbox, published + 1) ELSE inbox
    /\ UNCHANGED <<log, serving, subscribed, handling, seenSequence, workerVars, requests,
                   owner, failures>>

---------------------------------------------------------------------------
(* The requests: dispatchNormalizedCommand and dispatchBootstrapTurnStart.   *)

Moves(q, phase) ==
    requests' = [requests EXCEPT ![q] =
                   IF phase = "idle" THEN IdleRequest ELSE [@ EXCEPT !.phase = phase]]

Ask(q, t, phase, bootstrap) ==
    /\ requests[q].phase = "idle"
    /\ Len(log) < MaxEvents
    /\ requests' = [requests EXCEPT ![q] = [phase |-> phase, thread |-> t, bootstrap |-> bootstrap,
                                            incarnation |-> 0]]
    /\ UNCHANGED <<engineVars, reactorVars, workerVars, owner, failures>>

\* A plausible slip: the caller is answered without waiting for the fence.
NoFence == "holding"

\* What a created thread's request does first: wait for drainThrough.
AfterCreate == "fencing"

\* The engine answers with the event's sequence.
Answer(q) ==
    /\ serving = q /\ published = Len(log)
    /\ serving' = "none"
    /\ IF requests[q].phase = "creating"
       THEN requests' = [requests EXCEPT ![q].phase = AfterCreate, ![q].incarnation = published]
       ELSE Moves(q, "idle")
    /\ UNCHANGED <<log, published, reactorVars, workerVars, owner, failures>>

\* A failed command ends its request, or makes a bootstrap delete the thread it
\* created.
AfterFailure(q) == IF requests[q].phase = "starting" THEN "undoing" ELSE "idle"

\* The engine answers with a failure: the decider rejected the command, or
\* storage failed before its commit or, the commit being ambiguous, after it.
AnswerFailure(q) ==
    /\ \/ /\ serving = "none" /\ Dispatching(q)
          /\ \/ ~Accepts(EventOf(requests[q])) /\ UNCHANGED failures
             \/ Len(log) = MaxEvents /\ UNCHANGED failures
             \/ failures < MaxFailures /\ failures' = failures + 1
       \/ /\ serving = q /\ published = Len(log)
          /\ failures < MaxFailures /\ failures' = failures + 1
    /\ serving' = "none"
    /\ Moves(q, AfterFailure(q))
    /\ UNCHANGED <<log, published, reactorVars, workerVars, owner>>

\* drainThrough: first the watermark ...
FenceSeen(q) ==
    /\ requests[q].phase = "fencing"
    /\ seenSequence >= requests[q].incarnation
    /\ Moves(q, "draining")
    /\ UNCHANGED <<engineVars, reactorVars, workerVars, owner, failures>>

\* ... then worker.drain.
Drained(q) ==
    /\ requests[q].phase = "draining"
    /\ outstanding = 0
    /\ Moves(q, "holding")
    /\ UNCHANGED <<engineVars, reactorVars, workerVars, owner, failures>>

\* The holder starts a session or opens terminals, or joins those that are there.
StartResource(q, r) ==
    /\ requests[q].phase = "holding"
    /\ owner' = [owner EXCEPT ![requests[q].thread][r] =
                    IF @ > requests[q].incarnation THEN @ ELSE requests[q].incarnation]
    /\ UNCHANGED <<engineVars, reactorVars, workerVars, requests, failures>>

\* A bootstrap dispatches the turn itself; a plain request is over.
Proceed(q) ==
    /\ requests[q].phase = "holding"
    /\ Moves(q, IF requests[q].bootstrap THEN "starting" ELSE "idle")
    /\ UNCHANGED <<engineVars, reactorVars, workerVars, owner, failures>>

\* A step between the create and the turn fails: the worktree, its meta.update.
SetUpFails(q) ==
    /\ requests[q].phase = "holding" /\ requests[q].bootstrap
    /\ failures < MaxFailures /\ failures' = failures + 1
    /\ Moves(q, "undoing")
    /\ UNCHANGED <<engineVars, reactorVars, workerVars, owner>>

\* The client goes away: the request is interrupted and cleans nothing up.
Disconnect(q) ==
    /\ requests[q].phase \in {"fencing", "draining", "holding"}
    /\ Moves(q, "idle")
    /\ UNCHANGED <<engineVars, reactorVars, workerVars, owner, failures>>

---------------------------------------------------------------------------
(* The reactor.                                                             *)

\* Plausible slip: the watermark starts at zero.
FromZero == 0

\* latestSequence, read as the stream starts.
StartingSequence == Len(log)

Subscribe ==
    /\ ~subscribed
    /\ subscribed' = TRUE
    /\ seenSequence' = StartingSequence
    /\ UNCHANGED <<engineVars, inbox, handling, workerVars, requests, owner, failures>>

\* worker.enqueue: one transaction puts the deletion in the queue and counts it.
Enqueue(sequence) ==
    IF log[sequence].type = "thread.deleted"
    THEN queue' = Append(queue, sequence) /\ outstanding' = outstanding + 1
    ELSE UNCHANGED <<queue, outstanding>>

HandleEvent ==
    /\ handling = 0 /\ inbox # <<>>
    /\ Enqueue(Head(inbox))
    /\ handling' = Head(inbox)
    /\ inbox' = Tail(inbox)
    /\ UNCHANGED <<engineVars, subscribed, seenSequence, cleaning, step, requests, owner,
                   failures>>

NoteSeen ==
    /\ handling # 0
    /\ seenSequence' = IF handling > seenSequence THEN handling ELSE seenSequence
    /\ handling' = 0
    /\ UNCHANGED <<engineVars, subscribed, inbox, workerVars, requests, owner, failures>>

---------------------------------------------------------------------------
(* The worker.                                                              *)

\* A plausible slip: an item stops counting as soon as it is taken.
CountedUntilTaken(event) == IF event = "taken" THEN outstanding - 1 ELSE outstanding

\* An item counts as outstanding until its processing has ended.
OutstandingAfter(event) == IF event = "finished" THEN outstanding - 1 ELSE outstanding

TakeDeletion ==
    /\ cleaning = 0 /\ queue # <<>>
    /\ cleaning' = Head(queue)
    /\ queue' = Tail(queue)
    /\ outstanding' = OutstandingAfter("taken")
    /\ step' = "stopSession"
    /\ UNCHANGED <<engineVars, reactorVars, requests, owner, failures>>

\* stopProviderSession and closeThreadTerminals; a failure is logged and skipped.
CleanUp(at, resource, next) ==
    /\ step = at
    /\ LET t == log[cleaning].thread
       IN  \/ owner' = [owner EXCEPT ![t][resource] = 0] /\ UNCHANGED failures
           \/ /\ owner[t][resource] # 0 /\ UNCHANGED owner
              /\ failures < MaxFailures /\ failures' = failures + 1
    /\ step' = next
    /\ UNCHANGED <<engineVars, reactorVars, queue, outstanding, cleaning, requests>>

StopProviderSession  == CleanUp("stopSession", "session", "closeTerminals")
CloseThreadTerminals == CleanUp("closeTerminals", "terminals", "finish")

FinishDeletion ==
    /\ step = "finish"
    /\ outstanding' = OutstandingAfter("finished")
    /\ cleaning' = 0 /\ step' = "idle"
    /\ UNCHANGED <<engineVars, reactorVars, queue, requests, owner, failures>>

---------------------------------------------------------------------------
Engine ==
    \/ \E q \in Requests : Commit(q) \/ Answer(q) \/ AnswerFailure(q)
    \/ Publish

Reactor == HandleEvent \/ NoteSeen
Worker == TakeDeletion \/ StopProviderSession \/ CloseThreadTerminals \/ FinishDeletion

Client(q) ==
    \/ \E t \in Threads : Ask(q, t, "creating", TRUE) \/ Ask(q, t, "creating", FALSE)
                          \/ Ask(q, t, "deleting", FALSE)
    \/ \E r \in Resources : StartResource(q, r)
    \/ Proceed(q) \/ SetUpFails(q) \/ Disconnect(q)

Quiet == \A q \in Requests : requests[q].phase = "idle"

Next ==
    \/ Engine
    \/ \E q \in Requests : Client(q) \/ FenceSeen(q) \/ Drained(q)
    \/ Subscribe
    \/ Reactor
    \/ Worker
    \/ Quiet /\ UNCHANGED vars

Spec == Init /\ [][Next]_vars

\* Fibers that can go on do: the engine's worker, the reactor once activated,
\* its worker, and a request whose fence is open.
FairSpec ==
    /\ Spec
    /\ WF_vars(Engine) /\ WF_vars(Subscribe) /\ WF_vars(Reactor) /\ WF_vars(Worker)
    /\ \A q \in Requests : WF_vars(FenceSeen(q)) /\ WF_vars(Drained(q))

---------------------------------------------------------------------------
(* Properties.                                                              *)

TypeOK ==
    /\ log \in Seq([thread : Threads, type : EventTypes])
    /\ published \in 0..Len(log)
    /\ serving \in Requests \cup {"none"}
    /\ subscribed \in BOOLEAN
    /\ inbox \in Seq(Sequences) /\ handling \in 0..MaxEvents /\ seenSequence \in 0..MaxEvents
    /\ queue \in Seq(Sequences) /\ outstanding \in Nat /\ cleaning \in 0..MaxEvents
    /\ step \in {"idle", "stopSession", "closeTerminals", "finish"}
    /\ requests \in [Requests -> Request]
    /\ owner \in [Threads -> [Resources -> 0..MaxEvents]]
    /\ failures \in 0..MaxFailures

\* A clean-up only ever closes resources of the incarnation its deletion ended
\* or of an older one, never those a later thread of the same id has started
\* (the fence in ws.ts 1041-1048 and 1141-1147).
CleanUpSparesNewIncarnation ==
    [][\A t \in Threads, r \in Resources :
          owner[t][r] # 0 /\ owner'[t][r] = 0 => owner[t][r] < cleaning]_vars

\* drainThrough keeps its promise (Services/ThreadDeletionReactor.ts 24-31):
\* once a create holds its thread, no earlier deletion of it is still on its way
\* to the worker, queued or in progress.
FencePassedMeansCleaned ==
    \A q \in Requests :
        requests[q].phase = "holding" =>
            \A d \in 1..Len(log) :
                /\ log[d].type = "thread.deleted" /\ log[d].thread = requests[q].thread
                /\ d < requests[q].incarnation
                => /\ \A i \in 1..Len(inbox) : inbox[i] # d
                   /\ \A i \in 1..Len(queue) : queue[i] # d
                   /\ cleaning # d

\* Every fence opens: a create that was committed is answered or its client
\* leaves, wherever the log stood when the reactor subscribed.
EveryFenceOpens ==
    \A q \in Requests :
        requests[q].phase \in {"fencing", "draining"} ~>
            requests[q].phase \notin {"fencing", "draining"}
=============================================================================
