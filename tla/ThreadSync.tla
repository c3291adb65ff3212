----------------------------- MODULE ThreadSync -----------------------------
(***************************************************************************)
(* One client that shows one thread.  The server (ws.ts, subscribeThread)     *)
(* attaches a live buffer to the engine's events, then either replays what    *)
(* the client's cursor misses or sends a snapshot, then a marker, then the     *)
(* buffer.  The client (client-runtime, state/threads.ts) applies what comes,  *)
(* moves its cursor, shows a status, keeps the pair of thread and cursor for   *)
(* the next time it opens the thread, in memory and on disk, and subscribes    *)
(* again when the session is replaced, the application comes back to the       *)
(* foreground or the stream fails.                                           *)
(*                                                                         *)
(* Abstractions: the log holds the events of this thread only; a thread is     *)
(* the set of its detail events that were applied to it (messages are          *)
(* appended to, so an event applied twice or not at all is a wrong text).     *)
(* What waits at the server waits in the order of the log: a set will do.     *)
(* Deliveries are of one item, replays and snapshots fit in memory, windows    *)
(* of older turns are left out, and whether a thread is settled enough to be   *)
(* saved is left open.  Archiving, which also hides a thread from snapshots,   *)
(* is left out.  A retained buffer is bounded by its items, not bytes.  A     *)
(* local fiber is taken to run before a response from the network arrives.    *)
(***************************************************************************)
EXTENDS Naturals, Sequences, FiniteSetsExt

CONSTANTS
    MaxReplay,        \* THREAD_RESUME_MAX_EVENTS
    MaxItems,         \* LIVE_STREAM_MAX_ITEMS
    MaxUnread,        \* items a client has received and not yet applied
    MaxEvents,        \* bound: events in the log
    MaxDisruptions    \* bound: failed reads, lost sessions, resubscriptions, closings, reloads

ASSUME SyncAssumption ==
    /\ MaxReplay \in Nat /\ MaxItems \in Nat \ {0} /\ MaxUnread \in Nat \ {0}
    /\ MaxEvents \in Nat \ {0} /\ MaxDisruptions \in Nat

VARIABLES
    (* the engine *)
    log,              \* committed events of the thread
    latestSequence,   \* of the engine's read model
    published,
    (* the subscription at the server *)
    stage,            \* where the client's attempt to subscribe stands
    request,          \* what it asked, and what the server found
    replay,           \* items to send before the live buffer, in the log's order
    marked,           \* the completion marker was offered
    liveBuffer,       \* the coalescer
    (* the client *)
    session,          \* there is a session with the server
    buffer,           \* items received and not yet taken by applyItem
    open,             \* the thread's scope
    thread, lastSequence, status, error,
    awaitingCompletion, resumingLive,
    applying,         \* the item whose cursor is set and whose data is not
    committed,        \* thread and cursor of the last completed item
    kept,             \* what the next scope starts from, in memory or on disk
    (* bookkeeping *)
    confirmed,        \* the marker of the current attempt was applied
    disruptions

serverVars == <<stage, request, replay, marked, liveBuffer>>
engineVars == <<log, latestSequence, published>>
cacheVars  == <<committed, kept>>
shownVars  == <<thread, lastSequence, status, error, awaitingCompletion, resumingLive>>
clientVars == <<session, buffer, open, shownVars, applying, cacheVars>>
vars == <<engineVars, serverVars, clientVars, confirmed, disruptions>>

Sequences == 1..MaxEvents
NoCall == 0
EventTypes == {"thread.created", "thread.deleted", "thread.message-sent", "tool.updated"}
\* A tool call is known by the sequence of its first update.
Event == [type : EventTypes, toolCall : Sequences \cup {NoCall}]

\* A thread as the client holds it.
Thread == [present : BOOLEAN, rows : SUBSET Sequences]
NoThread == [present |-> FALSE, rows |-> {}]
Copy == [thread : Thread, sequence : 0..MaxEvents, live : BOOLEAN]
NoCopy == [thread |-> NoThread, sequence |-> 0, live |-> FALSE]

\* An item of the stream; old once the client has begun another attempt.
Item == [kind : {"event", "snapshot", "synchronized", "none"}, sequence : 0..MaxEvents,
         rows : SUBSET Sequences, old : BOOLEAN]
NewItem(kind, sequence, rows) ==
    [kind |-> kind, sequence |-> sequence, rows |-> rows, old |-> FALSE]
NoItem == NewItem("none", 0, {})
EventItem(sequence) == NewItem("event", sequence, {})
SnapshotItem(sequence, rows) == NewItem("snapshot", sequence, rows)
Marker == NewItem("synchronized", 0, {})

Stages == {"idle", "starting", "loading", "requesting", "attached", "snapshot", "streaming", "retrying"}
Request == [resume : BOOLEAN, after : 0..MaxEvents, head : 0..MaxEvents,
            replayIfMissing : BOOLEAN, covers : 0..MaxEvents]
NoRequest == [resume |-> FALSE, after |-> 0, head |-> 0, replayIfMissing |-> FALSE, covers |-> 0]
\* pending: events of the current run; output: events to send; marker: where the
\* completion marker stands among them, behind the events up to that position.
NoBuffer == [position |-> 0, pending |-> {}, output |-> {}, marker |-> 0]

---------------------------------------------------------------------------
(* What the log says.                                                       *)

IsDetail(i) == log[i].type \in {"thread.message-sent", "tool.updated"}

LastOf(type, n) ==
    LET S == {i \in 1..n : log[i].type = type}
    IN  IF S = {} THEN 0 ELSE CHOOSE i \in S : \A j \in S : j <= i

Exists(n) == LastOf("thread.created", n) > LastOf("thread.deleted", n)

\* The rows of the thread at a sequence: a thread created again starts empty.
RowsAt(n) == {i \in LastOf("thread.created", n)..n : i # 0 /\ IsDetail(i)}

SameCall(i, j) ==
    log[i].type = "tool.updated" /\ log[j].type = "tool.updated" /\ log[i].toolCall = log[j].toolCall

---------------------------------------------------------------------------
(* The engine: a command commits, moves the read model, publishes.  A deleted *)
(* thread may be created again, and a late command may still add to it.       *)

Init ==
    /\ log = <<[type |-> "thread.created", toolCall |-> NoCall]>>
    /\ latestSequence = 1 /\ published = 1
    /\ stage = "idle" /\ request = NoRequest /\ replay = {} /\ marked = FALSE
    /\ liveBuffer = NoBuffer
    /\ session = FALSE /\ buffer = <<>> /\ open = FALSE
    /\ thread = NoThread /\ lastSequence = 0 /\ status = "empty" /\ error = FALSE
    /\ awaitingCompletion = FALSE /\ resumingLive = FALSE
    /\ applying = NoItem
    /\ committed = NoCopy /\ kept = NoCopy
    /\ confirmed = FALSE
    /\ disruptions = 0

Commit ==
    /\ published = Len(log) /\ Len(log) < MaxEvents
    /\ \E type \in EventTypes, call \in {log[i].toolCall : i \in 1..Len(log)} \cup {Len(log) + 1} :
         /\ (call # NoCall) = (type = "tool.updated")
         /\ type = "thread.created" => ~Exists(Len(log))
         /\ log' = Append(log, [type |-> type, toolCall |-> call])
    /\ UNCHANGED <<latestSequence, published, serverVars, clientVars, confirmed, disruptions>>

MoveReadModel ==
    /\ latestSequence < Len(log)
    /\ latestSequence' = Len(log)
    /\ UNCHANGED <<log, published, serverVars, clientVars, confirmed, disruptions>>

Publish ==
    /\ published < latestSequence
    /\ published' = published + 1
    /\ UNCHANGED <<log, latestSequence, serverVars, clientVars, confirmed, disruptions>>

---------------------------------------------------------------------------
(* The subscription at the server.                                          *)

\* A subscription that skips what is committed and not yet published.
AttachAtEnd == Len(log)
\* Where the live buffer begins: with what is published from now on.
AttachPosition == published

Attach ==
    /\ stage = "requesting"
    /\ stage' = "attached"
    /\ liveBuffer' = [NoBuffer EXCEPT !.position = AttachPosition]
    /\ UNCHANGED <<engineVars, request, replay, marked, clientVars, confirmed, disruptions>>

\* getThreadReplayStats.
EventCount(after, head) == Cardinality(after + 1..head)
IgnoreCreateEvent(after, head) == FALSE
HasCreateEvent(after, head) == \E i \in after + 1..head : log[i].type = "thread.created"

\* readThreadEvents, filtered.
CatchUp(after, head) == {EventItem(i) : i \in {j \in after + 1..head : IsDetail(j)}}

DecideResume ==
    /\ stage = "attached"
    /\ LET after == request.after
           bounded == request.resume /\ after <= latestSequence
                      /\ EventCount(after, latestSequence) <= MaxReplay
           recreated == HasCreateEvent(after, latestSequence)
       IN  /\ request' = [request EXCEPT !.head = latestSequence,
                                         !.replayIfMissing = bounded /\ recreated,
                                         !.covers = latestSequence]
           /\ IF bounded /\ ~recreated
              THEN stage' = "streaming" /\ replay' = CatchUp(after, latestSequence)
              ELSE stage' = "snapshot" /\ UNCHANGED replay
    /\ UNCHANGED <<engineVars, marked, liveBuffer, clientVars, confirmed, disruptions>>

\* getThreadDetailSnapshot reads rows and sequence in one transaction.
ReadSnapshot ==
    /\ stage = "snapshot"
    /\ Exists(Len(log)) \/ request.replayIfMissing
    /\ stage' = "streaming"
    /\ IF Exists(Len(log))
       THEN /\ replay' = {SnapshotItem(Len(log), RowsAt(Len(log)))}
            /\ request' = [request EXCEPT !.replayIfMissing = FALSE, !.covers = Len(log)]
       ELSE /\ replay' = CatchUp(request.after, request.head)
            /\ UNCHANGED request
    /\ UNCHANGED <<engineVars, marked, liveBuffer, clientVars, confirmed, disruptions>>

\* The last update of the run, whatever its call.
LastUpdateOnly(run) ==
    {i \in run : log[i].type = "tool.updated" => \A j \in run : log[j].type = "tool.updated" => j <= i}

\* coalesceLiveToolUpdatedEvents on a run: the latest update of each call.
Coalesce(run) == {i \in run : \A j \in run : SameCall(i, j) => j <= i}

Flushed(b) == [b EXCEPT !.pending = {}, !.output = @ \cup Coalesce(b.pending)]

Retained(b) == Cardinality(b.pending) + Cardinality(b.output) + (IF b.marker = 0 THEN 0 ELSE 1)
Attached == stage \in {"attached", "snapshot", "streaming"}

\* The items that wait when an attempt ends stay, in front of those of the next.
Aged(items) == [n \in 1..Len(items) |-> [items[n] EXCEPT !.old = TRUE]]

\* onExpectedFailure, then another attempt after a while.  What the client has
\* received of the failed attempt stays in its buffer.
FailAttempt ==
    /\ stage' = "retrying"
    /\ liveBuffer' = NoBuffer /\ replay' = {} /\ marked' = FALSE /\ request' = NoRequest
    /\ awaitingCompletion' = FALSE
    /\ status' = IF thread.present THEN "cached" ELSE "empty"
    /\ error' = TRUE
    /\ confirmed' = FALSE
    /\ buffer' = Aged(buffer)
    /\ UNCHANGED <<engineVars, session, open, thread, lastSequence, resumingLive,
                   applying, cacheVars>>

\* The replay's range, the snapshot or a page of the replay cannot be read.
ReadFails ==
    /\ disruptions < MaxDisruptions
    /\ \/ stage \in {"attached", "snapshot"}
       \/ stage = "streaming" /\ \E item \in replay : item.kind = "event"
    /\ disruptions' = disruptions + 1
    /\ FailAttempt

ThreadNotFound ==
    /\ stage = "snapshot" /\ ~Exists(Len(log)) /\ ~request.replayIfMissing
    /\ FailAttempt /\ UNCHANGED disruptions

Overflow ==
    /\ Attached /\ Retained(liveBuffer) >= MaxItems
    /\ \/ liveBuffer.position < published /\ IsDetail(liveBuffer.position + 1)
       \/ stage = "streaming" /\ replay = {} /\ ~marked /\ Retained(Flushed(liveBuffer)) >= MaxItems
    /\ FailAttempt /\ UNCHANGED disruptions

\* One event from the engine into the coalescer: it waits with the others while
\* it updates a tool call, and ends the run otherwise.
OfferEvent ==
    /\ Attached /\ liveBuffer.position < published
    /\ LET next == liveBuffer.position + 1
           moved == [liveBuffer EXCEPT !.position = next]
           held == [moved EXCEPT !.pending = @ \cup {next}]
       IN  IF ~IsDetail(next) THEN liveBuffer' = moved
           ELSE /\ Retained(liveBuffer) < MaxItems
                /\ liveBuffer' = IF log[next].type = "tool.updated" THEN held ELSE Flushed(held)
    /\ UNCHANGED <<engineVars, stage, request, replay, marked, clientVars, confirmed, disruptions>>

\* The window of 50 ms ends, or the run is full.
FlushWindow ==
    /\ Attached /\ liveBuffer.pending # {}
    /\ liveBuffer' = Flushed(liveBuffer)
    /\ UNCHANGED <<engineVars, stage, request, replay, marked, clientVars, confirmed, disruptions>>

\* The stream pulls on when the client has room.
Deliver(item) == Len(buffer) < MaxUnread /\ buffer' = Append(buffer, item)

SendReplay ==
    /\ stage = "streaming"
    /\ \E item \in replay :
         /\ \A other \in replay : item.sequence <= other.sequence
         /\ Deliver(item)
         /\ replay' = replay \ {item}
    /\ UNCHANGED <<engineVars, stage, request, marked, liveBuffer, session, open, shownVars,
                   applying, cacheVars, confirmed, disruptions>>

MarkerOvertakes == [liveBuffer EXCEPT !.marker = liveBuffer.position]
\* The marker goes behind everything the coalescer has taken so far.
MarkerBuffer == [Flushed(liveBuffer) EXCEPT !.marker = liveBuffer.position]

OfferMarker ==
    /\ stage = "streaming" /\ replay = {} /\ ~marked
    /\ Retained(Flushed(liveBuffer)) < MaxItems
    /\ marked' = TRUE
    /\ liveBuffer' = MarkerBuffer
    /\ request' = [request EXCEPT !.covers = Max({@, liveBuffer.position})]
    /\ UNCHANGED <<engineVars, stage, replay, clientVars, confirmed, disruptions>>

\* An item leaves the buffer when the client has acknowledged it.
SendLive ==
    /\ marked
    /\ \/ \E i \in liveBuffer.output :
            /\ \A j \in liveBuffer.output : i <= j
            /\ liveBuffer.marker = 0 \/ i <= liveBuffer.marker
            /\ Deliver(EventItem(i))
            /\ liveBuffer' = [liveBuffer EXCEPT !.output = @ \ {i}]
       \/ /\ liveBuffer.marker # 0 /\ \A j \in liveBuffer.output : j > liveBuffer.marker
          /\ Deliver(Marker)
          /\ liveBuffer' = [liveBuffer EXCEPT !.marker = 0]
    /\ UNCHANGED <<engineVars, stage, request, replay, marked, session, open, shownVars,
                   applying, cacheVars, confirmed, disruptions>>

---------------------------------------------------------------------------
(* The client.                                                              *)

Pair(t, sequence, isLive) == [thread |-> t, sequence |-> sequence, live |-> isLive]

StatusWithoutLiveData(t) == IF t.present THEN "cached" ELSE "empty"

NoAttempt(next) ==
    /\ stage' = next
    /\ request' = NoRequest /\ replay' = {} /\ marked' = FALSE /\ liveBuffer' = NoBuffer
    /\ confirmed' = FALSE

Unbothered == UNCHANGED <<engineVars, disruptions>>
Spend == disruptions < MaxDisruptions /\ disruptions' = disruptions + 1 /\ UNCHANGED engineVars

\* The thread is opened.  A retained live status is kept for the first attempt.
OpenScope ==
    /\ ~open
    /\ open' = TRUE
    /\ thread' = kept.thread /\ lastSequence' = kept.sequence
    /\ resumingLive' = kept.live
    /\ status' = IF ~session THEN StatusWithoutLiveData(kept.thread)
                 ELSE IF kept.live THEN "live" ELSE "synchronizing"
    /\ committed' = kept
    /\ error' = FALSE /\ awaitingCompletion' = FALSE
    /\ NoAttempt(IF session THEN "starting" ELSE "idle")
    /\ UNCHANGED <<session, buffer, applying, kept>>
    /\ Unbothered

\* What a request says of the cursor: nothing without a thread to resume.
ResumeFrom(t, sequence) ==
    IF t.present THEN [NoRequest EXCEPT !.resume = TRUE, !.after = sequence] ELSE NoRequest

\* makeSubscribeInput, up to the snapshot over HTTP.
MakeSubscribeInput ==
    /\ stage = "starting"
    /\ awaitingCompletion' = TRUE
    /\ resumingLive' = FALSE
    /\ status' = IF resumingLive THEN status ELSE "synchronizing"
    /\ error' = (error /\ resumingLive)
    /\ stage' = IF thread.present THEN "requesting" ELSE "loading"
    /\ request' = ResumeFrom(thread, lastSequence)
    /\ UNCHANGED <<replay, marked, liveBuffer, session, buffer, open, thread, lastSequence,
                   applying, cacheVars, confirmed>>
    /\ Unbothered

\* setThread and remember: what an item makes of the thread, and the pair that
\* the next scope may start from.
SetThread(t, sequence) ==
    /\ thread' = t
    /\ status' = IF error THEN "cached" ELSE IF awaitingCompletion THEN "synchronizing" ELSE "live"
    /\ committed' = Pair(t, sequence, status' = "live")

\* The snapshot over HTTP, which may find no thread or fail.
LoadSnapshot ==
    /\ stage = "loading" /\ applying = NoItem /\ buffer = <<>>
    /\ stage' = "requesting"
    /\ \/ /\ Exists(Len(log))
          /\ lastSequence' = Len(log)
          /\ SetThread([present |-> TRUE, rows |-> RowsAt(Len(log))], Len(log))
       \/ UNCHANGED <<lastSequence, thread, status, committed>>
    /\ request' = ResumeFrom(thread', lastSequence')
    /\ UNCHANGED <<replay, marked, liveBuffer, session, buffer, open, error, awaitingCompletion,
                   resumingLive, applying, kept, confirmed>>
    /\ Unbothered

\* applyItem begins: an event the cursor has passed is dropped, the cursor
\* moves before the data.
Duplicate(item) == item.kind = "event" /\ item.sequence <= lastSequence

TakeItem ==
    /\ open /\ applying = NoItem /\ buffer # <<>>
    /\ buffer' = Tail(buffer)
    /\ LET item == Head(buffer)
       IN  \/ /\ item.kind = "synchronized"
              /\ awaitingCompletion' = FALSE
              /\ status' = IF thread.present /\ ~error THEN "live" ELSE status
              /\ confirmed' = (confirmed \/ ~item.old)
              /\ committed' = Pair(thread, lastSequence, status' = "live")
              /\ UNCHANGED <<lastSequence, applying>>
           \/ /\ Duplicate(item)
              /\ committed' = Pair(thread, lastSequence, status = "live")
              /\ UNCHANGED <<lastSequence, applying, awaitingCompletion, status, confirmed>>
           \/ /\ item.kind # "synchronized" /\ ~Duplicate(item)
              /\ lastSequence' = item.sequence
              /\ applying' = item
              /\ UNCHANGED <<awaitingCompletion, status, confirmed, committed>>
    /\ UNCHANGED <<serverVars, session, open, thread, error, resumingLive, kept>>
    /\ Unbothered

FinishItem ==
    /\ applying # NoItem
    /\ applying' = NoItem
    /\ IF applying.kind = "event" /\ ~thread.present
       THEN /\ committed' = Pair(thread, lastSequence, status = "live")
            /\ UNCHANGED <<thread, status>>
       ELSE SetThread(IF applying.kind = "snapshot"
                      THEN [present |-> TRUE, rows |-> applying.rows]
                      ELSE [thread EXCEPT !.rows = @ \cup {applying.sequence}], lastSequence)
    /\ UNCHANGED <<serverVars, session, buffer, open, lastSequence, error, awaitingCompletion,
                   resumingLive, kept, confirmed>>
    /\ Unbothered

\* What a save writes: no status.
Saved(c) == [c EXCEPT !.live = FALSE]

\* The debounced save of a thread that has settled.
Save ==
    /\ committed.thread.present
    /\ disruptions < MaxDisruptions          \* bound: a later scope will read it
    /\ kept' = Saved(committed)
    /\ UNCHANGED <<serverVars, session, buffer, open, shownVars, applying, committed, confirmed>>
    /\ Unbothered

RetryAfterFailure ==
    /\ stage = "retrying"
    /\ stage' = "starting"
    /\ UNCHANGED <<request, replay, marked, liveBuffer, clientVars, confirmed>>
    /\ Unbothered

\* setConnecting and setReady, then the attempt of the new session.
SessionUp ==
    /\ ~session
    /\ session' = TRUE
    /\ status' = IF open /\ ~error THEN "synchronizing" ELSE status
    /\ NoAttempt(IF open THEN "starting" ELSE "idle")
    /\ UNCHANGED <<buffer, open, thread, lastSequence, error, awaitingCompletion, resumingLive,
                   applying, cacheVars>>
    /\ Unbothered

\* The transport is lost, with all that was on its way; setDisconnected.  The
\* server may have restarted: its read model is then at the end of the log.
SessionLost ==
    /\ session
    /\ session' = FALSE
    /\ NoAttempt("idle")
    /\ buffer' = Aged(buffer)
    /\ awaitingCompletion' = FALSE
    /\ status' = IF open THEN StatusWithoutLiveData(thread) ELSE status
    /\ disruptions < MaxDisruptions /\ disruptions' = disruptions + 1
    /\ \/ UNCHANGED <<latestSequence, published>>
       \/ latestSequence' = Len(log) /\ published' = Len(log)
    /\ UNCHANGED <<log, open, thread, lastSequence, error, resumingLive, applying, cacheVars>>

\* The application comes back to the foreground, or the session is replaced.
Resubscribe ==
    /\ session /\ open /\ stage # "starting"
    /\ NoAttempt("starting")
    /\ buffer' = Aged(buffer)
    /\ UNCHANGED <<session, open, shownVars, applying, cacheVars>>
    /\ Spend

ShowNothing ==
    /\ open' = FALSE
    /\ buffer' = <<>> /\ applying' = NoItem /\ committed' = NoCopy
    /\ thread' = NoThread /\ lastSequence' = 0 /\ status' = "empty" /\ error' = FALSE
    /\ awaitingCompletion' = FALSE /\ resumingLive' = FALSE

\* The scope ends, perhaps between a cursor and its data: what was completed
\* stays in memory for a while, and on disk if it could be saved.
CloseScope ==
    /\ open
    /\ ShowNothing
    /\ NoAttempt("idle")
    /\ \/ kept' = committed
       \/ kept' = Saved(committed) /\ committed.thread.present
       \/ UNCHANGED kept
    /\ UNCHANGED session
    /\ Spend

\* The client is reloaded: what is on disk is left.
Reload ==
    /\ open
    /\ ShowNothing /\ session' = FALSE
    /\ NoAttempt("idle")
    /\ kept' = Saved(kept)
    /\ Spend

---------------------------------------------------------------------------
Engine == MoveReadModel \/ Publish

Subscription ==
    \/ Attach \/ DecideResume \/ ReadSnapshot \/ ThreadNotFound
    \/ Overflow \/ OfferEvent \/ FlushWindow
    \/ SendReplay \/ OfferMarker \/ SendLive

Client == MakeSubscribeInput \/ LoadSnapshot \/ TakeItem \/ FinishItem \/ RetryAfterFailure

Switch == SessionLost \/ Resubscribe \/ CloseScope \/ Reload

\* The bounds are used up and all is quiet.
Rest == stage = "streaming" /\ disruptions = MaxDisruptions /\ Len(log) = MaxEvents /\ UNCHANGED vars

Next ==
    \/ Commit \/ Engine
    \/ Subscription \/ ReadFails
    \/ Client \/ Save
    \/ OpenScope \/ SessionUp
    \/ Switch
    \/ Rest

Spec == Init /\ [][Next]_vars

\* Of the engine, the subscription and the client somebody goes on while one of
\* them can: no fairness among them is needed.
FairSpec == Spec /\ WF_vars(Client \/ Engine \/ Subscription)

---------------------------------------------------------------------------
(* Properties.                                                              *)

BufferType == [position : 0..MaxEvents, pending : SUBSET Sequences, output : SUBSET Sequences,
               marker : 0..MaxEvents]

TypeOK ==
    /\ log \in Seq(Event) /\ latestSequence \in 0..MaxEvents /\ published \in 0..latestSequence
    /\ stage \in Stages /\ request \in Request /\ replay \subseteq Item /\ marked \in BOOLEAN
    /\ liveBuffer \in BufferType
    /\ session \in BOOLEAN /\ buffer \in Seq(Item) /\ open \in BOOLEAN
    /\ thread \in Thread /\ lastSequence \in 0..MaxEvents
    /\ status \in {"empty", "cached", "synchronizing", "live"} /\ error \in BOOLEAN
    /\ awaitingCompletion \in BOOLEAN /\ resumingLive \in BOOLEAN
    /\ applying \in Item
    /\ {committed, kept} \subseteq Copy
    /\ confirmed \in BOOLEAN /\ disruptions \in 0..MaxDisruptions
    /\ (thread.present \/ applying.kind # "event")

\* An update of a tool call that a later one of the same call replaced, with
\* nothing but updates in between.
Superseded(i) ==
    \E j \in i + 1..Len(log) :
        /\ SameCall(i, j)
        /\ \A k \in i..j : IsDetail(k) => log[k].type = "tool.updated"

\* A thread and a cursor fit: no row at or before the cursor is missing, except
\* superseded updates, and none is there that a resumption would apply again.
Fits(t, sequence) ==
    t.present =>
        /\ \A i \in RowsAt(sequence) : i \in t.rows \/ Superseded(i)
        /\ \A i \in t.rows : i <= sequence

\* Whatever was replayed, buffered, dropped, coalesced, failed or interrupted,
\* what the client shows, keeps in memory and has on disk fits its cursor
\* (ws.ts 1516-1690, threads.ts 260-310, 425-480).
NothingMissing ==
    /\ applying = NoItem => Fits(thread, lastSequence)
    /\ \A c \in {committed, kept} : Fits(c.thread, c.sequence)

\* The marker of an attempt is a promise: once applied, the client has passed
\* the head the server saw and everything the live buffer had taken by then
\* (ThreadLiveEventCoalescer.ts 151-152).
MarkerMeansCaughtUp ==
    confirmed => \A i \in 1..request.covers : IsDetail(i) /\ Exists(i) => i <= lastSequence

\* An attempt that resumes from before the thread was created again ends with
\* a fresh history, not the old one with new rows (ws.ts 1624-1630), unless the
\* thread is gone by then.
RecreatedThreadIsFresh ==
    confirmed /\ request.resume /\ ~request.replayIfMissing =>
        \A d \in request.after + 1..request.head :
            log[d].type = "thread.created" => \A i \in thread.rows : i > d

\* With the thread open and a session that stays, the client ends up live with
\* all of the thread, whatever failed before (threads.ts 690-775).
CatchesUp ==
    <>[](open /\ session) =>
        <>[](Exists(Len(log)) =>
                /\ status = "live"
                /\ \A i \in RowsAt(Len(log)) : i \in thread.rows \/ Superseded(i))

---------------------------------------------------------------------------
(* What comments and tests say and the code does not do.                     *)

\* "A recreated thread must not reuse cached history": what the client shows of
\* a thread never mixes rows from before and after the thread was created again.
NoMixedHistory ==
    applying = NoItem => \A i, j \in thread.rows :
        i < j => LastOf("thread.created", i) = LastOf("thread.created", j)
=============================================================================
