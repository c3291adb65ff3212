-------------------------- MODULE ThreadSettlement --------------------------
(***************************************************************************)
(* Where one thread stands in the list (settled, kept active, pinned,         *)
(* snoozed, archived) while users, its provider session and the automatic      *)
(* settlement work on it at once: the lifecycle commands of                    *)
(* orchestration/decider.ts with the projector, the sweep of                   *)
(* ThreadSettlementReactor.ts under ThreadSettlementPolicy.ts, and the         *)
(* clean-up of a settled thread in ProviderCommandReactor.ts.                  *)
(*                                                                         *)
(* Abstractions: the engine decides one command at a time (OrchestrationEngine  *)
(* models its queue), so a command is one step; a time stamp is what it is      *)
(* compared for: a message is queued for a while, a snooze lasts until it is    *)
(* over, a thread is stale when nothing has happened for the days of the        *)
(* setting, and of the session's status and the latest turn the model keeps     *)
(* whether they are dated after the snooze.  A report of the provider that is   *)
(* processed late may be dated before it.  What a pull request lookup answers   *)
(* is a choice.                                                              *)
(***************************************************************************)
EXTENDS Naturals, Sequences, FiniteSets

CONSTANTS
    Requests,         \* approvals and questions the agent may ask, each once
    KindOf,           \* "approval", "callback" or "message" (an async question)
    Sweeps,           \* the sweep of every minute, and that of a merge
    MaxSequence,      \* bound: events after which only sweeps and clean-ups act
    MaxRestarts       \* bound: restarts of the server

ASSUME SettlementAssumption ==
    /\ IsFiniteSet(Requests)
    /\ KindOf \in [Requests -> {"approval", "callback", "message"}]
    /\ MaxSequence \in Nat /\ MaxRestarts \in Nat

VARIABLES
    thread,           \* the thread in the read model
    pending,          \* open requests in the database (the shell's pending flags)
    asked,            \* requests the agent has made
    background,       \* ThreadBackgroundLiveness: live agents or monitors
    sequence,         \* of the last event of the thread
    sweep,            \* what each sweep is doing
    reactor,          \* the provider reactor's queue
    restarts

vars == <<thread, pending, asked, background, sequence, sweep, reactor, restarts>>

Statuses == {"none", "starting", "running", "ready", "stopped", "error"}
\* What is reported.  Nothing tells an interrupted or idle session from a ready one,
\* but for what becomes of its turn.
Reported == {"starting", "running", "ready", "interrupted", "stopped", "error"}
Alive == {"starting", "running"}

Init ==
    /\ thread = [settledOverride |-> "none", pinned |-> FALSE, archived |-> FALSE,
                 snooze |-> "none", later |-> {}, session |-> "none", turn |-> "none",
                 queued |-> FALSE, activity |-> "never", open |-> {}, messages |-> "none"]
    /\ pending = {} /\ asked = {} /\ background = FALSE /\ sequence = 0
    /\ sweep = [s \in Sweeps |-> [step |-> "idle", since |-> 0]]
    /\ reactor = <<>> /\ restarts = 0

-----------------------------------------------------------------------------
(* Shared rules.                                                            *)

\* threadHasQueuedTurnStart
QueuedTurnStart(t) == t.queued /\ t.session /= "error"

\* hasQueuedTurnStartForThread: the same, of the messages the read model holds, but
\* for imported ones.
QueuedHere(t) == t.messages = "own" /\ QueuedTurnStart(t)

\* What shows a thread that sleeps: it failed, or completed, after it was snoozed.
RaisesHand(t) ==
    \/ t.session = "error" /\ "session" \in t.later
    \/ t.turn = "completed" /\ "turn" \in t.later

\* The commit of a command's events: the thread after them, and how many.
Commit(t, events) == thread' = t /\ sequence' = sequence + events

Settled(t) == [t EXCEPT !.settledOverride = "settled"]
Unsettled(t, reason) ==
    [t EXCEPT !.settledOverride = IF reason = "user" THEN "active" ELSE "none"]
Unsnoozed(t) == [t EXCEPT !.snooze = "none", !.later = {}]

\* Real activity resets any override, and counts one event when there is one.
ResetOverride(t) == IF t.settledOverride = "none" THEN t ELSE Unsettled(t, "activity")
ResetEvents(t) == IF t.settledOverride = "none" THEN 0 ELSE 1
SnoozeEvents(t) == IF t.snooze = "none" THEN 0 ELSE 1

SettleWhileAlive(t, automatic) ==
    /\ ~t.archived /\ (automatic => t.settledOverride = "none")
    /\ (\A r \in t.open : ~automatic /\ KindOf[r] = "message") /\ ~QueuedHere(t)

\* Whether the thread may be settled: a message question may be dismissed, unless
\* nobody asked for it.
MaySettle(t, automatic) ==
    /\ ~t.archived
    /\ automatic => t.settledOverride = "none"
    /\ t.session \notin Alive
    /\ \A r \in t.open : ~automatic /\ KindOf[r] = "message"
    /\ ~QueuedHere(t)

SettleCommitted(t, automatic) ==
    /\ MaySettle(t, automatic)
    /\ Commit([Unsnoozed(Settled(t)) EXCEPT !.open = {}, !.pinned = FALSE],
              1 + SnoozeEvents(t) + (IF t.pinned THEN 1 ELSE 0) + Cardinality(t.open))
    /\ pending' = pending \ t.open
    /\ reactor' = Append(reactor, "settled")

-----------------------------------------------------------------------------
(* What users do.                                                           *)

More == sequence < MaxSequence

Settle ==
    /\ More /\ SettleCommitted(thread, FALSE)
    /\ UNCHANGED <<asked, background, sweep>>

Unsettle ==
    /\ More /\ ~thread.archived
    /\ Commit(Unsettled(thread, "user"), 1)
    /\ UNCHANGED <<pending, asked, background, sweep, reactor>>

MaySnooze(t) == ~t.archived /\ t.open = {} /\ ~QueuedHere(t)

Snooze ==
    /\ More /\ MaySnooze(thread)
    /\ Commit([thread EXCEPT !.snooze = "asleep", !.later = {}], 1)
    /\ UNCHANGED <<pending, asked, background, sweep, reactor>>

\* The same wake time again keeps the date of the first snooze.
SnoozeAgain ==
    /\ More /\ MaySnooze(thread) /\ thread.snooze = "asleep"
    /\ Commit(thread, 1)
    /\ UNCHANGED <<pending, asked, background, sweep, reactor>>

Unsnooze ==
    /\ More /\ ~thread.archived
    /\ Commit(Unsnoozed(thread), 1)
    /\ UNCHANGED <<pending, asked, background, sweep, reactor>>

\* A pin promotes the thread out of the settled and the snoozed ones.
Promoted(t) ==
    Unsnoozed(IF t.settledOverride = "settled" THEN Unsettled(t, "user") ELSE t)

Pin ==
    /\ More /\ ~thread.archived
    /\ Commit([Promoted(thread) EXCEPT !.pinned = TRUE],
              1 + SnoozeEvents(thread) + (IF thread.settledOverride = "settled" THEN 1 ELSE 0))
    /\ UNCHANGED <<pending, asked, background, sweep, reactor>>

Unpin ==
    /\ More /\ ~thread.archived
    /\ Commit([thread EXCEPT !.pinned = FALSE], 1)
    /\ UNCHANGED <<pending, asked, background, sweep, reactor>>

Archive ==
    /\ More /\ ~thread.archived
    /\ Commit([thread EXCEPT !.archived = TRUE], 1)
    /\ UNCHANGED <<pending, asked, background, sweep, reactor>>

Unarchive ==
    /\ More /\ thread.archived
    /\ Commit([thread EXCEPT !.archived = FALSE], 1)
    /\ UNCHANGED <<pending, asked, background, sweep, reactor>>

\* A thread that is empty in the read model takes over the history of another
\* program, and is settled.
ImportHistory ==
    /\ More /\ ~thread.archived /\ thread.messages = "none"
    /\ thread.turn = "none" /\ thread.session = "none" /\ thread.open = {}
    /\ Commit([Settled(thread) EXCEPT !.messages = "imported"], 2)
    /\ reactor' = Append(reactor, "settled")
    /\ UNCHANGED <<pending, asked, background, sweep>>

\* The user's message resets the override and the snooze.
Engaged(t) ==
    [Unsnoozed(ResetOverride(t)) EXCEPT !.queued = TRUE, !.messages = "own", !.activity = "recent"]

TurnStart ==
    /\ More
    /\ Commit(Engaged(thread), 2 + ResetEvents(thread) + SnoozeEvents(thread))
    /\ reactor' = Append(reactor, "turn")
    /\ UNCHANGED <<pending, asked, background, sweep>>

\* The answer to an async question is its resolution and a turn, committed together.
AnswerMessage(r) ==
    /\ More /\ r \in pending /\ KindOf[r] = "message"
    /\ Commit([Engaged(thread) EXCEPT !.open = @ \ {r}],
              3 + ResetEvents(thread) + SnoozeEvents(thread))
    /\ pending' = pending \ {r}
    /\ reactor' = Append(reactor, "turn")
    /\ UNCHANGED <<asked, background, sweep>>

DismissMessage(r) ==
    /\ More /\ r \in pending /\ KindOf[r] = "message"
    /\ Commit([thread EXCEPT !.open = @ \ {r}], 1)
    /\ pending' = pending \ {r}
    /\ UNCHANGED <<asked, background, sweep, reactor>>

-----------------------------------------------------------------------------
(* What the provider session does, and the passing of time.                    *)

\* The provider resolves a request, or reports that it no longer knows it.
Resolve(r) ==
    /\ More /\ r \in pending
    /\ Commit([thread EXCEPT !.open = @ \ {r}], 1)
    /\ pending' = pending \ {r}
    /\ UNCHANGED <<asked, background, sweep, reactor>>

\* A request wakes a settled thread.
Ask(r) ==
    /\ More /\ r \notin asked /\ asked' = asked \cup {r}
    /\ Commit([ResetOverride(thread) EXCEPT !.open = @ \cup {r}], 1 + ResetEvents(thread))
    /\ pending' = pending \cup {r}
    /\ UNCHANGED <<background, sweep, reactor>>

\* Whether the session's status, or the turn, is dated after the snooze that lasts.
Dated(t, what, late) ==
    [t EXCEPT !.later = IF t.snooze = "asleep" /\ ~late THEN @ \cup {what} ELSE @ \ {what}]

\* A state of the latest turn.  Its dates adopt the message, unless they are late.
WithTurn(t, state, late) ==
    [Dated(t, "turn", late) EXCEPT
        !.turn = state, !.activity = "recent", !.queued = @ /\ late]

Ended(status) ==
    CASE status = "ready" -> "completed" [] status = "error" -> "error"
      [] status \in {"interrupted", "stopped"} -> "interrupted"

\* A status of the session: running may come with a new turn, which adopts the
\* message; a status that is not alive ends the turn.
WithSession(t, status, starts, late) ==
    LET u == IF starts THEN WithTurn(t, "running", FALSE)
             ELSE IF status \notin Alive /\ t.turn = "running"
                  THEN WithTurn(t, Ended(status), late) ELSE t
    IN  [Dated(u, "session", late) EXCEPT
            !.session = IF status = "interrupted" THEN "ready" ELSE status]

SetSession(status, starts, late) ==
    LET wakes == status \in Alive
    IN  Commit(WithSession(IF wakes THEN ResetOverride(thread) ELSE thread, status, starts, late),
               1 + (IF wakes THEN ResetEvents(thread) ELSE 0))

SessionReports(status, starts, late) ==
    /\ More /\ (starts => status = "running")
    /\ SetSession(status, starts, late)
    /\ UNCHANGED <<pending, asked, background, sweep, reactor>>

\* The checkpoint of a turn that has ended is recorded: the turn is completed, or
\* failed, unless it was interrupted.
CheckpointRecorded(state, late) ==
    /\ More /\ thread.turn \notin {"none", "running"}
    /\ (thread.turn = "interrupted") <=> (state = "interrupted")
    /\ Commit(WithTurn(thread, state, late), 1)
    /\ UNCHANGED <<pending, asked, background, sweep, reactor>>

BackgroundWork(live) ==
    /\ More /\ background /= live /\ background' = live
    /\ UNCHANGED <<thread, pending, asked, sequence, sweep, reactor>>

GraceIsOver ==
    /\ thread.queued /\ thread' = [thread EXCEPT !.queued = FALSE]
    /\ UNCHANGED <<pending, asked, background, sequence, sweep, reactor>>

SnoozeIsOver ==
    /\ thread.snooze = "asleep" /\ thread' = [thread EXCEPT !.snooze = "over", !.later = {}]
    /\ UNCHANGED <<pending, asked, background, sequence, sweep, reactor>>

DaysPass ==
    /\ thread.activity = "recent" /\ ~thread.queued
    /\ thread' = [thread EXCEPT !.activity = "stale"]
    /\ UNCHANGED <<pending, asked, background, sequence, sweep, reactor>>

-----------------------------------------------------------------------------
(* The automatic settlement and the clean-up.                                  *)

\* isAutoSettlementCandidate, on the shell of the thread in the database.
IsCandidate ==
    /\ ~thread.archived /\ thread.settledOverride = "none"
    /\ pending = {} /\ thread.session \notin Alive /\ ~background
    /\ ~QueuedTurnStart(thread)
    /\ thread.snooze = "asleep" => RaisesHand(thread)

\* A sweep reads the shells; a lapsed thread is settled without a lookup, another
\* one waits for what the host says of its pull request.
SweepLooks(s) ==
    /\ sweep[s].step = "idle" /\ IsCandidate
    /\ sweep' = [sweep EXCEPT ![s] = [step |-> IF thread.activity = "stale" THEN "settling"
                                               ELSE "lookup", since |-> sequence]]
    /\ UNCHANGED <<thread, pending, asked, background, sequence, reactor>>

SweepLookup(s, settles) ==
    /\ sweep[s].step = "lookup"
    /\ sweep' = [sweep EXCEPT ![s].step = IF settles THEN "settling" ELSE "idle"]
    /\ UNCHANGED <<thread, pending, asked, background, sequence, reactor>>

AlwaysUnchanged(s) == TRUE
NothingSince(s) == sequence < sweep[s].since

\* The engine refuses what was decided on an old snapshot, and live background work.
Unchanged(s) == sequence <= sweep[s].since
AutoSettleAccepted(s) == Unchanged(s) /\ ~background /\ MaySettle(thread, TRUE)

AutoSettle(s) ==
    /\ sweep[s].step = "settling"
    /\ sweep' = [sweep EXCEPT ![s].step = "idle"]
    /\ IF AutoSettleAccepted(s) THEN SettleCommitted(thread, TRUE)
       ELSE UNCHANGED <<thread, pending, sequence, reactor>>
    /\ UNCHANGED <<asked, background>>

StopUnlessAlive(t) == t.session \notin Alive

\* The clean-up's stop is decided when it is processed, not when the thread settled.
MayStop(t) == t.settledOverride = "settled" /\ t.session \notin Alive /\ ~QueuedHere(t)

CleanUp ==
    /\ reactor /= <<>> /\ Head(reactor) = "settled"
    /\ IF thread.session \notin {"none", "stopped"} /\ MayStop(thread)
       THEN Commit(thread, 1) /\ reactor' = Append(Tail(reactor), "stop")
       ELSE reactor' = Tail(reactor) /\ UNCHANGED <<thread, sequence>>
    /\ UNCHANGED <<pending, asked, background, sweep>>

\* The stop itself, with the status that follows it, or its failure, which is recorded.
\* Both are dated like the settlement, so before what came after it.
StopSession ==
    /\ reactor /= <<>> /\ Head(reactor) = "stop" /\ reactor' = Tail(reactor)
    /\ \/ SetSession("stopped", FALSE, TRUE)
       \/ thread.session \notin {"none", "stopped"} /\ Commit(thread, 1)
    /\ UNCHANGED <<pending, asked, background, sweep>>

\* The session is started for the turn; its statuses follow.
StartTurn ==
    /\ reactor /= <<>> /\ Head(reactor) = "turn" /\ reactor' = Tail(reactor)
    /\ UNCHANGED <<thread, pending, asked, background, sequence, sweep>>

\* A restart: the command read model comes back without messages and
\* activities, the live events and the sweeps are gone.
Restart ==
    /\ restarts < MaxRestarts /\ restarts' = restarts + 1
    /\ thread' = [thread EXCEPT !.open = {}, !.messages = "none"]
    /\ background' = FALSE
    /\ sweep' = [s \in Sweeps |-> [step |-> "idle", since |-> 0]]
    /\ reactor' = <<>>
    /\ UNCHANGED <<pending, asked, sequence>>

-----------------------------------------------------------------------------

Users ==
    \/ Settle \/ Unsettle \/ Snooze \/ SnoozeAgain \/ Unsnooze \/ Pin \/ Unpin \/ Archive \/ Unarchive
    \/ ImportHistory \/ TurnStart
    \/ \E r \in Requests : AnswerMessage(r) \/ DismissMessage(r)

Provider ==
    \/ \E r \in Requests : Ask(r) \/ Resolve(r)
    \/ \E status \in Reported, starts, late \in BOOLEAN :
          SessionReports(status, starts, late)
    \/ \E state \in {"completed", "error", "interrupted"}, late \in BOOLEAN : CheckpointRecorded(state, late)
    \/ \E live \in BOOLEAN : BackgroundWork(live)

Clock == GraceIsOver \/ SnoozeIsOver \/ DaysPass

Sweep(s) == SweepLooks(s) \/ (\E settles \in BOOLEAN : SweepLookup(s, settles)) \/ AutoSettle(s)

Reactor == CleanUp \/ StopSession \/ StartTurn

Running == Users \/ Provider \/ Clock \/ (\E s \in Sweeps : Sweep(s)) \/ Reactor

Next == (Running /\ UNCHANGED restarts) \/ Restart

Spec == Init /\ [][Next]_vars

\* Time passes, the sweeps run every minute and the reactor empties its queue.
FairSpec ==
    /\ Spec
    /\ WF_vars(Clock /\ UNCHANGED restarts) /\ WF_vars(Reactor /\ UNCHANGED restarts)
    /\ \A s \in Sweeps : WF_vars(Sweep(s) /\ UNCHANGED restarts)

-----------------------------------------------------------------------------
(* Properties.                                                              *)

TypeOK ==
    /\ thread \in [settledOverride : {"none", "settled", "active"}, pinned : BOOLEAN,
                   archived : BOOLEAN, snooze : {"none", "asleep", "over"},
                   later : SUBSET {"session", "turn"}, session : Statuses,
                   turn : {"none", "running", "completed", "interrupted", "error"},
                   queued : BOOLEAN, activity : {"never", "recent", "stale"},
                   open : SUBSET Requests, messages : {"none", "imported", "own"}]
    /\ pending \subseteq asked /\ thread.open \subseteq pending
    /\ asked \subseteq Requests /\ background \in BOOLEAN /\ sequence \in Nat
    /\ sweep \in [Sweeps -> [step : {"idle", "lookup", "settling"}, since : Nat]]
    /\ reactor \in Seq({"settled", "turn", "stop"}) /\ restarts \in 0 .. MaxRestarts

\* A settled thread is at rest: whatever order requests, session statuses, turns and
\* settlements come in, its session is not starting or running and the server knows
\* of no request that waits for the user.
SettledIsAtRest ==
    thread.settledOverride = "settled" => thread.session \notin Alive /\ thread.open = {}

\* The automatic settlement acts on what it last saw only when that still holds: a
\* thread it settles is, at that moment and in the database, neither archived nor kept
\* active, waits for nobody, does nothing in the background, and sleeps only with its
\* hand raised: a failure, or a completion, after the snooze that it still shows.
AutomaticStep ==
    \E s \in Sweeps : /\ sweep[s].step = "settling" /\ sweep'[s].step = "idle"
                      /\ sequence' > sequence
SettlesOnlyCandidates == [][AutomaticStep => IsCandidate]_vars

\* The clean-up of a settlement stops no session for a user who came back: when it asks
\* for the stop, each later turn is followed by a later settlement.
StopAsked ==
    /\ reactor /= <<>> /\ Head(reactor) = "settled"
    /\ reactor' = Append(Tail(reactor), "stop") /\ reactor' /= reactor
ComesBack ==
    \E i \in 2 .. Len(reactor) :
        reactor[i] = "turn" /\ \A j \in i + 1 .. Len(reactor) : reactor[j] /= "settled"
StopsNobodyWhoCameBack == [][StopAsked => ~ComesBack]_vars

\* A thread that nothing has happened in for the days of the setting, and that nothing
\* holds back, does not stay on the list: a sweep settles it.
StaleThreadsSettle == []<>~(IsCandidate /\ thread.activity = "stale")
=============================================================================
