------------------------ MODULE ThreadSettlementProofs ------------------------
(***************************************************************************)
(* Theorems of the settlement of a thread, for every set of requests and       *)
(* sweeps and every bound.                                                   *)
(*                                                                         *)
(* The argument: every command appends an event, so a sweep whose snapshot is  *)
(* as old as the last event still describes the thread; and while the thread   *)
(* is settled every turn in the reactor's queue has a settlement behind it.    *)
(***************************************************************************)
EXTENDS ThreadSettlement, FiniteSetTheorems, SequenceTheorems, TLAPS

TurnStates == {"none", "running", "completed", "interrupted", "error"}

Threads ==
    [settledOverride : {"none", "settled", "active"}, pinned : BOOLEAN,
     archived : BOOLEAN, snooze : {"none", "asleep", "over"},
     later : SUBSET {"session", "turn"}, session : Statuses,
     turn : TurnStates, queued : BOOLEAN, activity : {"never", "recent", "stale"},
     open : SUBSET Requests, messages : {"none", "imported", "own"}]

Jobs == {"settled", "turn", "stop"}

---------------------------------------------------------------------------
(* What the commands make of a thread.                                       *)

LEMMA ResetThread ==
    ASSUME NEW t \in Threads
    PROVE  /\ ResetOverride(t) \in Threads /\ ResetOverride(t).settledOverride # "settled"
           /\ ResetOverride(t).open = t.open /\ ResetOverride(t).session = t.session
           /\ ResetEvents(t) \in Nat /\ SnoozeEvents(t) \in Nat
BY DEF Threads, ResetOverride, ResetEvents, SnoozeEvents, Unsettled

LEMMA UnsnoozedThread ==
    ASSUME NEW t \in Threads
    PROVE  /\ Unsnoozed(t) \in Threads /\ Unsnoozed(t).settledOverride = t.settledOverride
           /\ Unsnoozed(t).open = t.open /\ Unsnoozed(t).session = t.session
BY DEF Threads, Unsnoozed

LEMMA UnsettledThread ==
    ASSUME NEW t \in Threads, NEW reason
    PROVE  /\ Unsettled(t, reason) \in Threads /\ Unsettled(t, reason).settledOverride # "settled"
           /\ Unsettled(t, reason).open = t.open /\ Unsettled(t, reason).session = t.session
BY DEF Threads, Unsettled

LEMMA EngagedThread ==
    ASSUME NEW t \in Threads
    PROVE  /\ Engaged(t) \in Threads /\ Engaged(t).settledOverride # "settled"
           /\ Engaged(t).open = t.open
<1> DEFINE u == Unsnoozed(ResetOverride(t))
<1>1. u \in Threads /\ u.settledOverride # "settled" /\ u.open = t.open
  BY ResetThread, UnsnoozedThread
<1> HIDE DEF u
<1>2. Engaged(t) = [u EXCEPT !.queued = TRUE, !.messages = "own", !.activity = "recent"]
  BY DEF Engaged, u
<1> QED BY <1>1, <1>2 DEF Threads

LEMMA SettledThread ==
    ASSUME NEW t \in Threads
    PROVE  LET u == [Unsnoozed(Settled(t)) EXCEPT !.open = {}, !.pinned = FALSE]
           IN  u \in Threads /\ u.open = {} /\ u.session = t.session
<1>1. Settled(t) \in Threads /\ Settled(t).session = t.session
  BY DEF Settled, Threads
<1> DEFINE v == Unsnoozed(Settled(t))
<1>2. v \in Threads /\ v.session = t.session
  BY <1>1, UnsnoozedThread
<1> HIDE DEF v
<1>3. LET u == [v EXCEPT !.open = {}, !.pinned = FALSE]
      IN  u \in Threads /\ u.open = {} /\ u.session = t.session
  BY <1>2 DEF Threads
<1> QED BY <1>3 DEF v

LEMMA DatedThread ==
    ASSUME NEW t \in Threads, NEW what \in {"session", "turn"}, NEW late \in BOOLEAN
    PROVE  /\ Dated(t, what, late) \in Threads
           /\ Dated(t, what, late).settledOverride = t.settledOverride
           /\ Dated(t, what, late).open = t.open /\ Dated(t, what, late).session = t.session
<1> DEFINE later == IF t.snooze = "asleep" /\ ~late THEN t.later \cup {what} ELSE t.later \ {what}
<1>1. later \in SUBSET {"session", "turn"}
  BY DEF Threads
<1>2. Dated(t, what, late) = [t EXCEPT !.later = later]
  BY DEF Dated
<1> HIDE DEF later
<1> QED BY <1>1, <1>2 DEF Threads

LEMMA TurnThread ==
    ASSUME NEW t \in Threads, NEW state \in TurnStates, NEW late \in BOOLEAN
    PROVE  /\ WithTurn(t, state, late) \in Threads
           /\ WithTurn(t, state, late).settledOverride = t.settledOverride
           /\ WithTurn(t, state, late).open = t.open /\ WithTurn(t, state, late).session = t.session
<1> DEFINE u == Dated(t, "turn", late)
<1>1. /\ u \in Threads /\ u.settledOverride = t.settledOverride
      /\ u.open = t.open /\ u.session = t.session
  BY DatedThread
<1>2. WithTurn(t, state, late) =
         [u EXCEPT !.turn = state, !.activity = "recent", !.queued = @ /\ late]
  BY DEF WithTurn
<1> HIDE DEF u
<1> DEFINE queued == u.queued /\ late
<1>3. queued \in BOOLEAN
  BY <1>1 DEF Threads
<1>4. WithTurn(t, state, late) = [u EXCEPT !.turn = state, !.activity = "recent", !.queued = queued]
  BY <1>2
<1> HIDE DEF queued
<1> QED BY <1>1, <1>3, <1>4 DEF Threads

LEMMA SessionThread ==
    ASSUME NEW t \in Threads, NEW status \in Reported, NEW starts \in BOOLEAN, NEW late \in BOOLEAN
    PROVE  /\ WithSession(t, status, starts, late) \in Threads
           /\ WithSession(t, status, starts, late).session \in Alive <=> status \in Alive
           /\ WithSession(t, status, starts, late).settledOverride = t.settledOverride
           /\ WithSession(t, status, starts, late).open = t.open
<1> DEFINE u == IF starts THEN WithTurn(t, "running", FALSE)
                ELSE IF status \notin Alive /\ t.turn = "running"
                     THEN WithTurn(t, Ended(status), late) ELSE t
           v == Dated(u, "session", late)
           kept == IF status = "interrupted" THEN "ready" ELSE status
<1>1. status \notin Alive => Ended(status) \in TurnStates
  BY DEF Ended, Alive, Reported, TurnStates
<1>2. "running" \in TurnStates
  BY DEF TurnStates
<1>3. u \in Threads /\ u.settledOverride = t.settledOverride /\ u.open = t.open
  BY <1>1, <1>2, TurnThread
<1>4. v \in Threads /\ v.settledOverride = t.settledOverride /\ v.open = t.open
  <2> HIDE DEF u
  <2> QED BY <1>3, DatedThread
<1>5. kept \in Statuses /\ (kept \in Alive <=> status \in Alive)
  BY DEF Statuses, Reported, Alive
<1>6. WithSession(t, status, starts, late) = [v EXCEPT !.session = kept]
  BY DEF WithSession
<1> HIDE DEF v, kept
<1> QED BY <1>4, <1>5, <1>6 DEF Threads

---------------------------------------------------------------------------
(* The queue of the reactor.                                                 *)

\* Every turn in the queue has a settlement behind it.
SettledLast(q) ==
    \A i \in 1..Len(q) : q[i] = "turn" => \E j \in i + 1 .. Len(q) : q[j] = "settled"

LEMMA QueueSettled ==
    ASSUME NEW q \in Seq(Jobs)
    PROVE  Append(q, "settled") \in Seq(Jobs) /\ SettledLast(Append(q, "settled"))
<1>1. /\ Append(q, "settled") \in Seq(Jobs) /\ Len(Append(q, "settled")) = Len(q) + 1
      /\ Append(q, "settled")[Len(q) + 1] = "settled" /\ Len(q) \in Nat
  BY LenProperties, AppendProperties DEF Jobs
<1> QED BY <1>1 DEF SettledLast

LEMMA QueueTail ==
    ASSUME NEW q \in Seq(Jobs), q # <<>>
    PROVE  Tail(q) \in Seq(Jobs) /\ Len(Tail(q)) = Len(q) - 1 /\ (SettledLast(q) => SettledLast(Tail(q)))
<1>1. /\ Tail(q) \in Seq(Jobs) /\ Len(Tail(q)) = Len(q) - 1 /\ Len(q) \in Nat
      /\ \A i \in 1..Len(Tail(q)) : Tail(q)[i] = q[i + 1]
  BY LenProperties, HeadTailProperties
<1>2. ASSUME SettledLast(q), NEW i \in 1..Len(Tail(q)), Tail(q)[i] = "turn"
      PROVE  \E j \in i + 1 .. Len(Tail(q)) : Tail(q)[j] = "settled"
  <2>1. i + 1 \in 1..Len(q) /\ q[i + 1] = "turn"
    BY <1>1, <1>2
  <2>2. PICK j \in i + 1 + 1 .. Len(q) : q[j] = "settled"
    BY <1>2, <2>1 DEF SettledLast
  <2>3. j - 1 \in i + 1 .. Len(Tail(q)) /\ j - 1 \in 1..Len(Tail(q)) /\ j - 1 + 1 = j
    BY <1>1, <2>2
  <2> QED BY <1>1, <2>2, <2>3
<1> QED BY <1>1, <1>2 DEF SettledLast

LEMMA QueueStop ==
    ASSUME NEW q \in Seq(Jobs)
    PROVE  /\ Append(q, "stop") \in Seq(Jobs) /\ Len(Append(q, "stop")) = Len(q) + 1
           /\ SettledLast(q) => SettledLast(Append(q, "stop"))
<1>1. /\ Append(q, "stop") \in Seq(Jobs) /\ Len(Append(q, "stop")) = Len(q) + 1 /\ Len(q) \in Nat
      /\ Append(q, "stop")[Len(q) + 1] = "stop"
      /\ \A i \in 1..Len(q) : Append(q, "stop")[i] = q[i]
  BY LenProperties, AppendProperties DEF Jobs
<1>2. ASSUME SettledLast(q), NEW i \in 1..Len(q) + 1, Append(q, "stop")[i] = "turn"
      PROVE  \E j \in i + 1 .. Len(q) + 1 : Append(q, "stop")[j] = "settled"
  <2>1. i \in 1..Len(q) /\ q[i] = "turn"
    BY <1>1, <1>2
  <2>2. PICK j \in i + 1 .. Len(q) : q[j] = "settled"
    BY <1>2, <2>1 DEF SettledLast
  <2>3. j \in 1..Len(q) /\ j \in i + 1 .. Len(q) + 1
    BY <1>1, <2>1, <2>2
  <2> QED BY <1>1, <2>2, <2>3
<1> QED BY <1>1, <1>2 DEF SettledLast

LEMMA QueueTurn ==
    ASSUME NEW q \in Seq(Jobs)
    PROVE  Append(q, "turn") \in Seq(Jobs) /\ Len(Append(q, "turn")) = Len(q) + 1
BY AppendProperties DEF Jobs

---------------------------------------------------------------------------
(* The invariant.                                                            *)

\* A thread the automatic settlement may take, but for background work.
CandidateHere ==
    /\ ~thread.archived /\ thread.settledOverride = "none"
    /\ pending = {} /\ thread.session \notin Alive
    /\ ~QueuedTurnStart(thread)
    /\ thread.snooze = "asleep" => RaisesHand(thread)

\* A sweep's snapshot is of an event there was, and holds while there is no later one.
SweepKnows(s) ==
    /\ sweep[s].since <= sequence
    /\ sweep[s].step # "idle" /\ sweep[s].since = sequence => CandidateHere

SInv ==
    /\ TypeOK
    /\ SettledIsAtRest
    /\ thread.settledOverride = "settled" => SettledLast(reactor)
    /\ \A s \in Sweeps : SweepKnows(s)

LEMMA InitSettlement == Init => SInv
<1> SUFFICES ASSUME Init PROVE SInv
  OBVIOUS
<1>1. thread \in Threads /\ reactor \in Seq(Jobs) /\ restarts \in 0 .. MaxRestarts
  BY SettlementAssumption DEF Init, Threads, TurnStates, Statuses, Jobs
<1>2. TypeOK
  BY <1>1 DEF Init, TypeOK, Threads, Jobs
<1> QED BY <1>2 DEF Init, SInv, SettledIsAtRest, SweepKnows

LEMMA Shape ==
    ASSUME SInv
    PROVE  /\ thread \in Threads /\ reactor \in Seq(Jobs) /\ sequence \in Nat /\ Len(reactor) \in Nat
           /\ IsFiniteSet(thread.open) /\ Cardinality(thread.open) \in Nat
           /\ \A s \in Sweeps : sweep[s].since \in Nat
<1>1. thread \in Threads /\ reactor \in Seq(Jobs) /\ sequence \in Nat /\ Len(reactor) \in Nat
  BY LenProperties DEF SInv, TypeOK, Threads, TurnStates, Jobs
<1>2. thread.open \subseteq Requests
  BY <1>1 DEF Threads
<1> QED BY <1>1, <1>2, SettlementAssumption, FS_Subset, FS_CardinalityType DEF SInv, TypeOK

\* A command that leaves the sweeps, or ends one.
LEMMA CommandStep ==
    ASSUME SInv, NEW t \in Threads, NEW n \in Nat \ {0}, Commit(t, n),
           t.settledOverride = "settled" => t.session \notin Alive /\ t.open = {},
           pending' \subseteq asked', t.open \subseteq pending', asked' \subseteq Requests,
           background' \in BOOLEAN, restarts' = restarts,
           sweep' \in [Sweeps -> [step : {"idle", "lookup", "settling"}, since : Nat]],
           \A s \in Sweeps : sweep'[s].since = sweep[s].since,
           reactor' \in Seq(Jobs),
           t.settledOverride = "settled" => SettledLast(reactor')
    PROVE  SInv'
<1>1. thread' = t /\ sequence' = sequence + n /\ sequence \in Nat
  BY Shape DEF Commit
<1>2. TypeOK'
  BY <1>1 DEF SInv, TypeOK, Threads, TurnStates, Jobs
<1>3. SettledIsAtRest' /\ (thread'.settledOverride = "settled" => SettledLast(reactor'))
  BY <1>1 DEF SettledIsAtRest
<1>4. \A s \in Sweeps : SweepKnows(s)'
  BY <1>1, Shape DEF SInv, SweepKnows
<1>5. (thread.settledOverride = "settled" => SettledLast(reactor))'
  BY <1>3 DEF SettledLast
<1> QED BY <1>2, <1>3, <1>4, <1>5 DEF SInv

\* The same for a command that leaves requests, background work and sweeps alone.
LEMMA PlainStep ==
    ASSUME SInv, NEW t \in Threads, NEW n \in Nat \ {0}, Commit(t, n),
           t.settledOverride = "settled" => t.session \notin Alive, t.open = thread.open,
           t.settledOverride = "settled" => thread.settledOverride = "settled",
           UNCHANGED <<pending, asked, sweep, reactor, restarts>>, background' \in BOOLEAN
    PROVE  SInv'
<1>1. t.settledOverride = "settled" => t.open = {} /\ SettledLast(reactor)
  BY DEF SInv, SettledIsAtRest
<1>2. /\ pending \subseteq asked /\ thread.open \subseteq pending /\ asked \subseteq Requests
      /\ background \in BOOLEAN /\ reactor \in Seq(Jobs)
      /\ sweep \in [Sweeps -> [step : {"idle", "lookup", "settling"}, since : Nat]]
  BY DEF SInv, TypeOK, Jobs
<1> QED BY <1>1, <1>2, CommandStep DEF SettledLast

\* Whoever settles the thread.
LEMMA SettleStep ==
    ASSUME SInv, NEW automatic \in BOOLEAN, SettleCommitted(thread, automatic),
           UNCHANGED <<asked, background, restarts>>,
           sweep' \in [Sweeps -> [step : {"idle", "lookup", "settling"}, since : Nat]],
           \A s \in Sweeps : sweep'[s].since = sweep[s].since
    PROVE  SInv'
<1> DEFINE t == [Unsnoozed(Settled(thread)) EXCEPT !.open = {}, !.pinned = FALSE]
           n == 1 + SnoozeEvents(thread) + (IF thread.pinned THEN 1 ELSE 0) + Cardinality(thread.open)
<1>1. t \in Threads /\ t.open = {} /\ t.session = thread.session
  BY Shape, SettledThread
<1>2. n \in Nat \ {0}
  BY Shape, ResetThread
<1>3. /\ Commit(t, n) /\ thread.session \notin Alive /\ pending' = pending \ thread.open
      /\ reactor' = Append(reactor, "settled")
  BY DEF SettleCommitted, MaySettle
<1> HIDE DEF t, n
<1>4. reactor' \in Seq(Jobs) /\ SettledLast(reactor')
  BY <1>3, Shape, QueueSettled
<1>5. /\ pending' \subseteq asked' /\ t.open \subseteq pending' /\ asked' \subseteq Requests
      /\ background' \in BOOLEAN
  BY <1>1, <1>3 DEF SInv, TypeOK
<1> QED BY <1>1, <1>2, <1>3, <1>4, <1>5, CommandStep

\* A user engages: a turn is queued and the thread is not settled any more.
LEMMA EngageStep ==
    ASSUME SInv, NEW t \in Threads, NEW n \in Nat \ {0}, Commit(t, n), t.settledOverride # "settled",
           pending' \subseteq pending, t.open \subseteq pending',
           reactor' = Append(reactor, "turn"), UNCHANGED <<asked, background, sweep, restarts>>
    PROVE  SInv'
<1>1. reactor' \in Seq(Jobs)
  BY Shape, QueueTurn
<1>2. /\ pending' \subseteq asked' /\ asked' \subseteq Requests /\ background' \in BOOLEAN
      /\ sweep' \in [Sweeps -> [step : {"idle", "lookup", "settling"}, since : Nat]]
  BY DEF SInv, TypeOK
<1> QED BY <1>1, <1>2, CommandStep

\* A request is resolved or dismissed.
LEMMA WithdrawStep ==
    ASSUME SInv, NEW r, Commit([thread EXCEPT !.open = @ \ {r}], 1), pending' = pending \ {r},
           UNCHANGED <<asked, background, sweep, reactor, restarts>>
    PROVE  SInv'
<1> DEFINE t == [thread EXCEPT !.open = @ \ {r}]
<1>1. /\ t \in Threads /\ t.open = thread.open \ {r} /\ t.session = thread.session
      /\ t.settledOverride = thread.settledOverride
  BY Shape DEF Threads
<1>2. Commit(t, 1)
  OBVIOUS
<1> HIDE DEF t
<1>3. /\ pending' \subseteq asked' /\ t.open \subseteq pending' /\ asked' \subseteq Requests
      /\ background' \in BOOLEAN /\ reactor' \in Seq(Jobs)
      /\ sweep' \in [Sweeps -> [step : {"idle", "lookup", "settling"}, since : Nat]]
      /\ t.settledOverride = "settled" => t.open = {} /\ t.session \notin Alive /\ SettledLast(reactor')
  BY <1>1, Shape DEF SInv, TypeOK, SettledIsAtRest
<1> QED BY <1>1, <1>2, <1>3, CommandStep

LEMMA UsersStep ==
    ASSUME SInv, Users, restarts' = restarts
    PROVE  SInv'
<1>0. /\ thread \in Threads /\ ResetEvents(thread) \in Nat /\ SnoozeEvents(thread) \in Nat
      /\ background \in BOOLEAN /\ thread.open \subseteq pending
      /\ thread.settledOverride = "settled" => thread.session \notin Alive
  BY Shape, ResetThread DEF SInv, TypeOK, SettledIsAtRest
<1>1. CASE Settle
  BY <1>1, SettleStep DEF Settle, SInv, TypeOK
<1>2. CASE Unsettle
  BY <1>0, <1>2, UnsettledThread, PlainStep DEF Unsettle
<1>3. CASE Snooze
  <2> DEFINE t == [thread EXCEPT !.snooze = "asleep", !.later = {}]
  <2>1. /\ t \in Threads /\ t.open = thread.open /\ t.session = thread.session
        /\ t.settledOverride = thread.settledOverride
    BY <1>0 DEF Threads
  <2>2. Commit(t, 1) /\ UNCHANGED <<pending, asked, background, sweep, reactor>>
    BY <1>3 DEF Snooze
  <2> HIDE DEF t
  <2> QED BY <1>0, <2>1, <2>2, PlainStep
<1>12. CASE SnoozeAgain
  BY <1>0, <1>12, PlainStep DEF SnoozeAgain
<1>4. CASE Unsnooze
  BY <1>0, <1>4, UnsnoozedThread, PlainStep DEF Unsnooze
<1>5. CASE Pin
  <2> DEFINE u == IF thread.settledOverride = "settled" THEN Unsettled(thread, "user") ELSE thread
             v == Unsnoozed(u)
             t == [v EXCEPT !.pinned = TRUE]
             n == 1 + SnoozeEvents(thread) + (IF thread.settledOverride = "settled" THEN 1 ELSE 0)
  <2>1. u \in Threads /\ u.settledOverride # "settled" /\ u.open = thread.open
    BY <1>0, UnsettledThread
  <2>2. v \in Threads /\ v.settledOverride # "settled" /\ v.open = thread.open
    <3> HIDE DEF u
    <3> QED BY <2>1, UnsnoozedThread
  <2>3. t \in Threads /\ t.settledOverride # "settled" /\ t.open = thread.open
    <3> HIDE DEF v
    <3> QED BY <2>2 DEF Threads
  <2>4. Commit(t, n) /\ n \in Nat \ {0}
    BY <1>0, <1>5 DEF Pin, Promoted
  <2>5. UNCHANGED <<pending, asked, background, sweep, reactor>>
    BY <1>5 DEF Pin
  <2> HIDE DEF t, n
  <2> QED BY <1>0, <2>3, <2>4, <2>5, PlainStep
<1>6. ASSUME NEW b \in BOOLEAN, Commit([thread EXCEPT !.pinned = b], 1) \/ Commit([thread EXCEPT !.archived = b], 1),
             UNCHANGED <<pending, asked, background, sweep, reactor>>
      PROVE  SInv'
  <2>1. /\ [thread EXCEPT !.pinned = b] \in Threads /\ [thread EXCEPT !.pinned = b].open = thread.open
        /\ [thread EXCEPT !.pinned = b].session = thread.session
        /\ [thread EXCEPT !.pinned = b].settledOverride = thread.settledOverride
    BY <1>0 DEF Threads
  <2>2. /\ [thread EXCEPT !.archived = b] \in Threads /\ [thread EXCEPT !.archived = b].open = thread.open
        /\ [thread EXCEPT !.archived = b].session = thread.session
        /\ [thread EXCEPT !.archived = b].settledOverride = thread.settledOverride
    BY <1>0 DEF Threads
  <2>3. \E t \in Threads : /\ Commit(t, 1) /\ t.open = thread.open /\ t.session = thread.session
                           /\ t.settledOverride = thread.settledOverride
    BY <1>6, <2>1, <2>2
  <2> QED BY <1>0, <1>6, <2>3, PlainStep
<1>7. CASE Unpin \/ Archive \/ Unarchive
  BY <1>6, <1>7 DEF Unpin, Archive, Unarchive
<1>8. CASE ImportHistory
  <2> DEFINE u == Settled(thread)
             t == [u EXCEPT !.messages = "imported"]
  <2>1. u \in Threads /\ u.open = thread.open /\ u.session = thread.session
    BY <1>0 DEF Settled, Threads
  <2>2. t \in Threads /\ t.open = thread.open /\ t.session = thread.session
    <3> HIDE DEF u
    <3> QED BY <2>1 DEF Threads
  <2>3. /\ Commit(t, 2) /\ thread.open = {} /\ thread.session = "none"
        /\ reactor' = Append(reactor, "settled")
        /\ UNCHANGED <<pending, asked, background, sweep>>
    BY <1>8 DEF ImportHistory
  <2> HIDE DEF t
  <2>4. reactor' \in Seq(Jobs) /\ SettledLast(reactor')
    BY <2>3, Shape, QueueSettled
  <2>5. /\ pending' \subseteq asked' /\ asked' \subseteq Requests /\ background' \in BOOLEAN
        /\ sweep' \in [Sweeps -> [step : {"idle", "lookup", "settling"}, since : Nat]]
    BY <2>3 DEF SInv, TypeOK
  <2> QED BY <2>2, <2>3, <2>4, <2>5, CommandStep DEF Alive
<1>9. CASE TurnStart
  <2>1. 2 + ResetEvents(thread) + SnoozeEvents(thread) \in Nat \ {0}
    BY <1>0
  <2> QED BY <1>0, <1>9, <2>1, EngagedThread, EngageStep DEF TurnStart
<1>10. ASSUME NEW r \in Requests, AnswerMessage(r)
       PROVE  SInv'
  <2> DEFINE u == Engaged(thread)
             t == [u EXCEPT !.open = @ \ {r}]
             n == 3 + ResetEvents(thread) + SnoozeEvents(thread)
  <2>1. u \in Threads /\ u.settledOverride # "settled" /\ u.open = thread.open
    BY <1>0, EngagedThread
  <2>2. t \in Threads /\ t.settledOverride # "settled" /\ t.open = thread.open \ {r}
    <3> HIDE DEF u
    <3> QED BY <2>1 DEF Threads
  <2>3. Commit(t, n) /\ n \in Nat \ {0} /\ pending' = pending \ {r}
    BY <1>0, <1>10 DEF AnswerMessage
  <2> HIDE DEF t, n
  <2> QED BY <1>0, <1>10, <2>2, <2>3, EngageStep DEF AnswerMessage
<1>11. ASSUME NEW r \in Requests, DismissMessage(r)
       PROVE  SInv'
  BY <1>11, WithdrawStep DEF DismissMessage
<1> QED BY <1>1, <1>2, <1>3, <1>4, <1>5, <1>7, <1>8, <1>9, <1>10, <1>11, <1>12 DEF Users

\* A status of the session.
LEMMA SessionStep ==
    ASSUME SInv, NEW status \in Reported, NEW starts \in BOOLEAN, NEW late \in BOOLEAN,
           SetSession(status, starts, late),
           UNCHANGED <<pending, asked, background, sweep, restarts>>,
           reactor' \in Seq(Jobs), SettledLast(reactor) => SettledLast(reactor')
    PROVE  SInv'
<1> DEFINE wakes == status \in Alive
           u == IF wakes THEN ResetOverride(thread) ELSE thread
           t == WithSession(u, status, starts, late)
           n == 1 + (IF wakes THEN ResetEvents(thread) ELSE 0)
<1>1. /\ u \in Threads /\ u.open = thread.open
      /\ u.settledOverride = "settled" => ~wakes /\ thread.settledOverride = "settled"
      /\ n \in Nat \ {0}
  BY Shape, ResetThread
<1>2. /\ t \in Threads /\ t.open = thread.open /\ (t.session \in Alive <=> wakes)
      /\ t.settledOverride = u.settledOverride
  <2> HIDE DEF u
  <2> QED BY <1>1, SessionThread
<1>3. Commit(t, n)
  BY DEF SetSession
<1>4. /\ pending' \subseteq asked' /\ t.open \subseteq pending' /\ asked' \subseteq Requests
      /\ background' \in BOOLEAN
      /\ sweep' \in [Sweeps -> [step : {"idle", "lookup", "settling"}, since : Nat]]
      /\ t.settledOverride = "settled" => t.open = {} /\ t.session \notin Alive /\ SettledLast(reactor')
  <2> HIDE DEF t, n, u
  <2> QED BY <1>1, <1>2 DEF SInv, TypeOK, SettledIsAtRest
<1> HIDE DEF t, n
<1> QED BY <1>1, <1>2, <1>3, <1>4, CommandStep

\* Nothing but background work changes.
LEMMA SameThread ==
    ASSUME SInv, UNCHANGED <<thread, pending, asked, sequence, sweep, reactor, restarts>>,
           background' \in BOOLEAN
    PROVE  SInv'
BY DEF SInv, TypeOK, SettledIsAtRest, SettledLast, SweepKnows, CandidateHere, QueuedTurnStart, RaisesHand

LEMMA ProviderStep ==
    ASSUME SInv, Provider, restarts' = restarts
    PROVE  SInv'
<1>1. ASSUME NEW r \in Requests, Ask(r)
      PROVE  SInv'
  <2> DEFINE u == ResetOverride(thread)
             t == [u EXCEPT !.open = @ \cup {r}]
             n == 1 + ResetEvents(thread)
  <2>1. u \in Threads /\ u.settledOverride # "settled" /\ u.open = thread.open /\ n \in Nat \ {0}
    BY Shape, ResetThread
  <2>2. t \in Threads /\ t.settledOverride # "settled" /\ t.open = thread.open \cup {r}
    <3> HIDE DEF u
    <3> QED BY <2>1 DEF Threads
  <2>3. /\ Commit(t, n) /\ asked' = asked \cup {r} /\ pending' = pending \cup {r}
        /\ UNCHANGED <<background, sweep, reactor>>
    BY <1>1 DEF Ask
  <2> HIDE DEF t, n
  <2>4. /\ pending' \subseteq asked' /\ t.open \subseteq pending' /\ asked' \subseteq Requests
        /\ background' \in BOOLEAN /\ reactor' \in Seq(Jobs)
        /\ sweep' \in [Sweeps -> [step : {"idle", "lookup", "settling"}, since : Nat]]
    BY <2>2, <2>3, Shape DEF SInv, TypeOK
  <2> QED BY <2>1, <2>2, <2>3, <2>4, CommandStep
<1>2. ASSUME NEW r \in Requests, Resolve(r)
      PROVE  SInv'
  BY <1>2, WithdrawStep DEF Resolve
<1>3. ASSUME NEW status \in Reported, NEW starts \in BOOLEAN, NEW late \in BOOLEAN,
             SessionReports(status, starts, late)
      PROVE  SInv'
  <2>1. reactor' = reactor /\ reactor \in Seq(Jobs)
    BY <1>3, Shape DEF SessionReports
  <2> QED BY <1>3, <2>1, SessionStep DEF SessionReports
<1>5. ASSUME NEW state \in {"completed", "error", "interrupted"}, NEW late \in BOOLEAN,
             CheckpointRecorded(state, late)
      PROVE  SInv'
  <2> DEFINE t == WithTurn(thread, state, late)
  <2>1. /\ t \in Threads /\ t.open = thread.open /\ t.session = thread.session
        /\ t.settledOverride = thread.settledOverride
    <3>1. state \in TurnStates
      BY DEF TurnStates
    <3> QED BY <3>1, Shape, TurnThread
  <2>2. Commit(t, 1) /\ UNCHANGED <<pending, asked, background, sweep, reactor>>
    BY <1>5 DEF CheckpointRecorded
  <2>3. background \in BOOLEAN /\ (thread.settledOverride = "settled" => thread.session \notin Alive)
    BY DEF SInv, TypeOK, SettledIsAtRest
  <2> HIDE DEF t
  <2> QED BY <2>1, <2>2, <2>3, PlainStep
<1>4. ASSUME NEW live \in BOOLEAN, BackgroundWork(live)
      PROVE  SInv'
  BY <1>4, SameThread DEF BackgroundWork
<1> QED BY <1>1, <1>2, <1>3, <1>4, <1>5 DEF Provider

LEMMA ClockStep ==
    ASSUME SInv, Clock, restarts' = restarts
    PROVE  SInv'
<1>1. /\ thread' \in Threads /\ thread'.settledOverride = thread.settledOverride
      /\ thread'.session = thread.session /\ thread'.open = thread.open
      /\ thread'.archived = thread.archived /\ thread'.turn = thread.turn
      /\ thread'.queued => thread.queued
      /\ thread'.snooze = "asleep" => thread.snooze = "asleep" /\ thread'.later = thread.later
  <2>1. \/ thread' = [thread EXCEPT !.queued = FALSE]
        \/ thread' = [thread EXCEPT !.snooze = "over", !.later = {}]
        \/ thread' = [thread EXCEPT !.activity = "stale"]
    BY DEF Clock, GraceIsOver, SnoozeIsOver, DaysPass
  <2> QED BY <2>1, Shape DEF Threads
<1>2. UNCHANGED <<pending, asked, background, sequence, sweep, reactor>>
  BY DEF Clock, GraceIsOver, SnoozeIsOver, DaysPass
<1>3. TypeOK'
  BY <1>1, <1>2 DEF SInv, TypeOK, Threads
<1>4. SettledIsAtRest' /\ (thread.settledOverride = "settled" => SettledLast(reactor))'
  BY <1>1, <1>2 DEF SInv, SettledIsAtRest, SettledLast
<1>5. CandidateHere => CandidateHere'
  BY <1>1, <1>2 DEF CandidateHere, QueuedTurnStart, RaisesHand
<1>6. \A s \in Sweeps : SweepKnows(s)'
  BY <1>2, <1>5 DEF SInv, SweepKnows
<1> QED BY <1>3, <1>4, <1>6 DEF SInv

LEMMA SweepStep ==
    ASSUME SInv, NEW s \in Sweeps, Sweep(s), restarts' = restarts
    PROVE  SInv'
<1>0. /\ sweep \in [Sweeps -> [step : {"idle", "lookup", "settling"}, since : Nat]]
      /\ sequence \in Nat
  BY DEF SInv, TypeOK
<1>1. ASSUME UNCHANGED <<thread, pending, asked, background, sequence, reactor>>,
             sweep' \in [Sweeps -> [step : {"idle", "lookup", "settling"}, since : Nat]],
             \A r \in Sweeps \ {s} : sweep'[r] = sweep[r],
             SweepKnows(s)'
      PROVE  SInv'
  <2>1. TypeOK'
    BY <1>1 DEF SInv, TypeOK
  <2>2. SettledIsAtRest' /\ (thread.settledOverride = "settled" => SettledLast(reactor))'
    BY <1>1 DEF SInv, SettledIsAtRest, SettledLast
  <2>3. \A r \in Sweeps \ {s} : SweepKnows(r)'
    BY <1>1 DEF SInv, SweepKnows, CandidateHere, QueuedTurnStart, RaisesHand
  <2> QED BY <1>1, <2>1, <2>2, <2>3 DEF SInv
<1>2. CASE SweepLooks(s)
  <2> DEFINE new == [step |-> IF thread.activity = "stale" THEN "settling" ELSE "lookup",
                     since |-> sequence]
  <2>1. /\ IsCandidate /\ sweep' = [sweep EXCEPT ![s] = new]
        /\ UNCHANGED <<thread, pending, asked, background, sequence, reactor>>
    BY <1>2 DEF SweepLooks
  <2>2. new \in [step : {"idle", "lookup", "settling"}, since : Nat] /\ new.since = sequence
    BY <1>0
  <2> HIDE DEF new
  <2>3. CandidateHere'
    BY <2>1 DEF IsCandidate, CandidateHere, QueuedTurnStart, RaisesHand
  <2>4. /\ sweep' \in [Sweeps -> [step : {"idle", "lookup", "settling"}, since : Nat]]
        /\ sweep'[s] = new /\ \A r \in Sweeps \ {s} : sweep'[r] = sweep[r]
    BY <1>0, <2>1, <2>2
  <2>5. SweepKnows(s)'
    BY <1>0, <2>1, <2>2, <2>3, <2>4 DEF SweepKnows
  <2> QED BY <1>1, <2>1, <2>4, <2>5
<1>3. ASSUME NEW to \in {"settling", "idle"}, sweep' = [sweep EXCEPT ![s].step = to]
      PROVE  /\ sweep' \in [Sweeps -> [step : {"idle", "lookup", "settling"}, since : Nat]]
             /\ sweep'[s].step = to /\ \A r \in Sweeps : sweep'[r].since = sweep[r].since
             /\ \A r \in Sweeps \ {s} : sweep'[r] = sweep[r]
  BY <1>0, <1>3
<1>4. ASSUME NEW settles \in BOOLEAN, SweepLookup(s, settles)
      PROVE  SInv'
  <2>1. /\ sweep[s].step = "lookup"
        /\ UNCHANGED <<thread, pending, asked, background, sequence, reactor>>
    BY <1>4 DEF SweepLookup
  <2>2. /\ sweep' \in [Sweeps -> [step : {"idle", "lookup", "settling"}, since : Nat]]
        /\ \A r \in Sweeps : sweep'[r].since = sweep[r].since
        /\ \A r \in Sweeps \ {s} : sweep'[r] = sweep[r]
    BY <1>3, <1>4 DEF SweepLookup
  <2>3. CandidateHere' <=> CandidateHere
    BY <2>1 DEF CandidateHere, QueuedTurnStart, RaisesHand
  <2>4. SweepKnows(s)'
    BY <2>1, <2>2, <2>3 DEF SInv, SweepKnows
  <2> QED BY <1>1, <2>1, <2>2, <2>4
<1>5. CASE AutoSettle(s)
  <2>1. /\ sweep' \in [Sweeps -> [step : {"idle", "lookup", "settling"}, since : Nat]]
        /\ sweep'[s].step = "idle" /\ \A r \in Sweeps : sweep'[r].since = sweep[r].since
        /\ \A r \in Sweeps \ {s} : sweep'[r] = sweep[r]
    BY <1>3, <1>5 DEF AutoSettle
  <2>2. CASE AutoSettleAccepted(s)
    BY <1>5, <2>1, <2>2, SettleStep DEF AutoSettle
  <2>3. CASE ~AutoSettleAccepted(s)
    <3>1. UNCHANGED <<thread, pending, asked, background, sequence, reactor>>
      BY <1>5, <2>3 DEF AutoSettle
    <3>2. SweepKnows(s)'
      BY <2>1, <3>1 DEF SInv, SweepKnows
    <3> QED BY <1>1, <2>1, <3>1, <3>2
  <2> QED BY <2>2, <2>3
<1> QED BY <1>2, <1>4, <1>5 DEF Sweep

LEMMA ReactorStep ==
    ASSUME SInv, Reactor, restarts' = restarts
    PROVE  SInv'
<1> DEFINE rest == Tail(reactor)
<1>1. /\ reactor # <<>> /\ reactor \in Seq(Jobs) /\ thread \in Threads
      /\ rest \in Seq(Jobs) /\ (SettledLast(reactor) => SettledLast(rest))
      /\ UNCHANGED <<pending, asked, sweep>> /\ background \in BOOLEAN
      /\ pending \subseteq asked /\ thread.open \subseteq pending /\ asked \subseteq Requests
      /\ sweep \in [Sweeps -> [step : {"idle", "lookup", "settling"}, since : Nat]]
      /\ thread.settledOverride = "settled" =>
            thread.session \notin Alive /\ thread.open = {} /\ SettledLast(rest)
  BY Shape, QueueTail DEF Reactor, CleanUp, StopSession, StartTurn, SInv, TypeOK, SettledIsAtRest
<1> HIDE DEF rest
<1>2. ASSUME reactor' = rest, thread' = thread, sequence' = sequence, background' \in BOOLEAN
      PROVE  SInv'
  <2>1. TypeOK'
    BY <1>1, <1>2 DEF SInv, TypeOK, Jobs
  <2>2. SettledIsAtRest' /\ (thread.settledOverride = "settled" => SettledLast(reactor))'
    BY <1>1, <1>2 DEF SInv, SettledIsAtRest, SettledLast
  <2>3. \A s \in Sweeps : SweepKnows(s)'
    BY <1>1, <1>2 DEF SInv, SweepKnows, CandidateHere, QueuedTurnStart, RaisesHand
  <2> QED BY <2>1, <2>2, <2>3 DEF SInv
<1>3. ASSUME Commit(thread, 1), reactor' = rest \/ reactor' = Append(rest, "stop"),
             background' \in BOOLEAN
      PROVE  SInv'
  <2>1. reactor' \in Seq(Jobs) /\ (thread.settledOverride = "settled" => SettledLast(reactor'))
    BY <1>1, <1>3, QueueStop
  <2> QED BY <1>1, <1>3, <2>1, CommandStep
<1>4. CASE CleanUp
  BY <1>1, <1>2, <1>3, <1>4 DEF CleanUp, rest
<1>5. CASE StopSession
  <2>1. reactor' = rest /\ background' = background
    BY <1>5 DEF StopSession, rest
  <2>2. CASE SetSession("stopped", FALSE, TRUE)
    <3>1. "stopped" \in Reported
      BY DEF Reported
    <3> QED BY <1>1, <2>1, <2>2, <3>1, SessionStep
  <2>3. CASE Commit(thread, 1)
    BY <1>1, <1>3, <2>1, <2>3
  <2> QED BY <1>5, <2>2, <2>3 DEF StopSession
<1>6. CASE StartTurn
  BY <1>1, <1>2, <1>6 DEF StartTurn, rest
<1> QED BY <1>4, <1>5, <1>6 DEF Reactor

LEMMA RestartStep ==
    ASSUME SInv, Restart
    PROVE  SInv'
<1>1. /\ restarts < MaxRestarts /\ restarts' = restarts + 1
      /\ thread' = [thread EXCEPT !.open = {}, !.messages = "none"] /\ background' = FALSE
      /\ sweep' = [s \in Sweeps |-> [step |-> "idle", since |-> 0]] /\ reactor' = <<>>
      /\ UNCHANGED <<pending, asked, sequence>>
  BY DEF Restart
<1>2. /\ thread' \in Threads /\ thread'.open = {} /\ thread'.session = thread.session
      /\ thread'.settledOverride = thread.settledOverride
  BY <1>1, Shape DEF Threads
<1>3. TypeOK'
  <2>1. /\ restarts' \in 0 .. MaxRestarts /\ reactor' \in Seq(Jobs) /\ background' \in BOOLEAN
        /\ sweep' \in [Sweeps -> [step : {"idle", "lookup", "settling"}, since : Nat]]
    <3>1. restarts' \in 0 .. MaxRestarts
      BY <1>1, SettlementAssumption DEF SInv, TypeOK
    <3>2. [step |-> "idle", since |-> 0] \in [step : {"idle", "lookup", "settling"}, since : Nat]
      OBVIOUS
    <3>3. <<>> \in Seq(Jobs)
      OBVIOUS
    <3> QED BY <1>1, <3>1, <3>2, <3>3
  <2>2. /\ pending' \subseteq asked' /\ thread'.open \subseteq pending' /\ asked' \subseteq Requests
        /\ sequence' \in Nat
    BY <1>1, <1>2 DEF SInv, TypeOK
  <2> QED BY <1>2, <2>1, <2>2 DEF TypeOK, Threads, TurnStates, Jobs
<1>4. SettledIsAtRest' /\ (thread.settledOverride = "settled" => SettledLast(reactor))'
  BY <1>1, <1>2 DEF SInv, SettledIsAtRest, SettledLast
<1>5. \A s \in Sweeps : SweepKnows(s)'
  BY <1>1, Shape DEF SweepKnows
<1> QED BY <1>3, <1>4, <1>5 DEF SInv

LEMMA NextSettlement ==
    ASSUME SInv, [Next]_vars
    PROVE  SInv'
<1>1. CASE UNCHANGED vars
  <2>1. UNCHANGED <<thread, pending, asked, sequence, sweep, reactor, restarts>> /\ background' \in BOOLEAN
    BY <1>1 DEF vars, SInv, TypeOK
  <2> QED BY <2>1, SameThread
<1> QED BY <1>1, UsersStep, ProviderStep, ClockStep, SweepStep, ReactorStep, RestartStep
        DEF Next, Running

LEMMA Settlement == Spec => []SInv
BY InitSettlement, NextSettlement, PTL DEF Spec

(* The thread, the sweeps and the reactor's queue stay in their ranges; a queue  *)
(* holds settlements, turns and stops only.                                   *)
THEOREM TypeCorrect == Spec => []TypeOK
<1>1. SInv => TypeOK
  BY DEF SInv
<1> QED BY <1>1, Settlement, PTL

(* A settled thread is at rest: its session is not starting or running and      *)
(* nothing the server knows of waits for the user, whatever order requests,     *)
(* statuses, turns, settlements and restarts come in.                         *)
THEOREM SettledThreadRests == Spec => []SettledIsAtRest
<1>1. SInv => SettledIsAtRest
  BY DEF SInv
<1> QED BY <1>1, Settlement, PTL

(* The automatic settlement acts on what it last saw only when that still       *)
(* holds, however long it waited for the host and whatever happened meanwhile.  *)
THEOREM OnlyCandidatesAreSettled == Spec => SettlesOnlyCandidates
<1>1. SInv /\ [Next]_vars => [AutomaticStep => IsCandidate]_vars
  <2> SUFFICES ASSUME SInv, Next, AutomaticStep PROVE IsCandidate
    BY DEF vars
  <2>1. PICK s \in Sweeps : sweep[s].step = "settling" /\ sweep'[s].step = "idle" /\ sequence' > sequence
    BY DEF AutomaticStep
  <2>2. sequence' # sequence /\ sweep' # sweep
    BY <2>1, Shape
  <2>3. \E r \in Sweeps : AutoSettle(r)
    BY <2>2 DEF Next, Running, Users, Settle, Unsettle, Snooze, SnoozeAgain, Unsnooze, Pin, Unpin, Archive, Unarchive,
       ImportHistory, TurnStart, AnswerMessage, DismissMessage, Provider, Ask, Resolve, SessionReports,
       CheckpointRecorded, BackgroundWork, Clock, GraceIsOver, SnoozeIsOver, DaysPass, Sweep, SweepLooks, SweepLookup, Reactor,
       CleanUp, StopSession, StartTurn, Restart
  <2>4. PICK r \in Sweeps : AutoSettle(r)
    BY <2>3
  <2>5. /\ sweep[r].step = "settling" /\ sequence <= sweep[r].since /\ ~background
    BY <2>2, <2>4 DEF AutoSettle, AutoSettleAccepted, Unchanged
  <2>6. CandidateHere
    BY <2>5, Shape DEF SInv, SweepKnows
  <2> QED BY <2>5, <2>6 DEF CandidateHere, IsCandidate
<1> QED BY <1>1, Settlement, PTL DEF Spec, SettlesOnlyCandidates

(* The clean-up of a settlement stops no session for a user who came back: at   *)
(* the moment it asks for the stop, each later turn has a later settlement.    *)
THEOREM NobodyWhoCameBackIsStopped == Spec => StopsNobodyWhoCameBack
<1>1. SInv /\ [Next]_vars => [StopAsked => ~ComesBack]_vars
  <2> SUFFICES ASSUME SInv, Next, StopAsked PROVE ~ComesBack
    BY DEF vars
  <2>1. /\ reactor # <<>> /\ reactor' = Append(Tail(reactor), "stop") /\ reactor' # reactor
        /\ reactor \in Seq(Jobs)
    BY Shape DEF StopAsked
  <2>2. /\ Len(Tail(reactor)) = Len(reactor) - 1 /\ Len(reactor') = Len(reactor)
        /\ Len(reactor) \in Nat /\ Len(reactor) # 0
    BY <2>1, Shape, QueueTail, QueueStop, EmptySeq
  <2>3. /\ reactor' # Append(reactor, "settled") /\ reactor' # Append(reactor, "turn")
        /\ reactor' # Tail(reactor) /\ reactor' # <<>>
    <3>1. /\ Len(Append(reactor, "settled")) = Len(reactor) + 1
          /\ Len(Append(reactor, "turn")) = Len(reactor) + 1
      BY <2>1, AppendProperties DEF Jobs
    <3>2. Len(<<>>) = 0
      OBVIOUS
    <3>3. \A q : Len(q) # Len(reactor) => reactor' # q
      BY <2>2
    <3>4. \A n \in Nat : n + 1 # n /\ n - 1 # n
      OBVIOUS
    <3> QED BY <2>2, <3>1, <3>2, <3>3, <3>4
  <2>4. CleanUp /\ MayStop(thread)
    BY <2>1, <2>3 DEF Next, Running, Users, Settle, SettleCommitted, Unsettle, Snooze, SnoozeAgain, Unsnooze, Pin,
       Unpin, Archive, Unarchive, ImportHistory, TurnStart, AnswerMessage, DismissMessage, Provider, Ask,
       Resolve, SessionReports, CheckpointRecorded, BackgroundWork, Clock, GraceIsOver, SnoozeIsOver, DaysPass, Sweep,
       SweepLooks, SweepLookup, AutoSettle, Reactor, CleanUp, StopSession, StartTurn, Restart
  <2>5. SettledLast(reactor)
    BY <2>4 DEF MayStop, SInv
  <2>6. ASSUME NEW i \in 2 .. Len(reactor), reactor[i] = "turn"
        PROVE  \E j \in i + 1 .. Len(reactor) : reactor[j] = "settled"
    BY <2>2, <2>5, <2>6 DEF SettledLast
  <2> QED BY <2>6 DEF ComesBack
<1> QED BY <1>1, Settlement, PTL DEF Spec, StopsNobodyWhoCameBack
=============================================================================
