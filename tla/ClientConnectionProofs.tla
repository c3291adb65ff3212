------------------------ MODULE ClientConnectionProofs ------------------------
(***************************************************************************)
(* Theorems of the client's connection: the supervisor of one environment, for  *)
(* any ladder and any number of requests, failures and signals, and the registry *)
(* of environments, for any catalog entries and requests.                      *)
(*                                                                         *)
(* The supervisor: whoever changes the intent leaves a signal that only its     *)
(* taker removes, and whoever takes a request to retry is on his way to the      *)
(* next round.                                                               *)
(*                                                                         *)
(* The registry: the lock is dropped with its last user, so whoever waits or    *)
(* works uses the lock that is there, and only one works; what that one has     *)
(* taken out of the table, closed or still has to make says which supervisors   *)
(* live, and what it has read of the platform stays true until it leaves.      *)
(***************************************************************************)
EXTENDS ConnectionSupervisor, EnvironmentRegistry, FiniteSetTheorems, SequenceTheorems, TLAPS

---------------------------------------------------------------------------
(* The supervisor.                                                          *)

Loops == {"top", "available", "offline", "establishing", "connected", "probing", "closing",
          "blocked", "backoff"}
Waits == {"available", "offline", "blocked", "backoff"}

\* A request to retry that was taken leads to the next round.
RetryIsServed ==
    resetRetryState /\ ~Waiting("RetryRequested")
        => loop = "top" \/ (loop = "closing" /\ outcome.tag = "Interrupted")

\* The marker of a failed health check lives until its attempt is closed, and a
\* session, while it was up, had ended the row of failures.
MarkerIsShortLived ==
    /\ wakeProbeFailed => loop = "closing" /\ unwaited = 0
    /\ loop \in {"connected", "probing"} => unwaited = 0
    /\ unwaited <= 1

IInv == TypeOK /\ NoSessionAgainstIntent /\ RetryIsServed /\ MarkerIsShortLived

---------------------------------------------------------------------------
(* The queue of signals.                                                    *)

LEMMA Appended ==
    ASSUME NEW q \in Seq(Signals), NEW s \in Signals
    PROVE  /\ Append(q, s) \in Seq(Signals) /\ Len(Append(q, s)) = Len(q) + 1
           /\ \E n \in 1..Len(Append(q, s)) : Append(q, s)[n] = s
           /\ \A x : (\E n \in 1..Len(q) : q[n] = x)
                        => \E n \in 1..Len(Append(q, s)) : Append(q, s)[n] = x
<1>1. Append(q, s) \in Seq(Signals) /\ Len(Append(q, s)) = Len(q) + 1
  BY AppendProperties
<1>2. Append(q, s)[Len(q) + 1] = s /\ \A n \in 1..Len(q) : Append(q, s)[n] = q[n]
  BY AppendProperties
<1>3. Len(q) \in Nat
  BY LenProperties
<1>4. \E n \in 1..Len(Append(q, s)) : Append(q, s)[n] = s
  <2>1. Len(q) + 1 \in 1..Len(Append(q, s))
    BY <1>1, <1>3
  <2> QED BY <1>2, <2>1
<1>5. ASSUME NEW x, NEW n \in 1..Len(q), q[n] = x
      PROVE  \E m \in 1..Len(Append(q, s)) : Append(q, s)[m] = x
  <2>1. n \in 1..Len(Append(q, s)) /\ Append(q, s)[n] = x
    BY <1>1, <1>2, <1>3, <1>5
  <2> QED BY <2>1
<1> QED BY <1>1, <1>4, <1>5

LEMMA Taken ==
    ASSUME NEW q \in Seq(Signals), q # <<>>
    PROVE  /\ Head(q) \in Signals /\ Tail(q) \in Seq(Signals) /\ Len(Tail(q)) = Len(q) - 1
           /\ Len(q) \in Nat
           /\ \A x : (\E n \in 1..Len(q) : q[n] = x) /\ x # Head(q)
                        => \E n \in 1..Len(Tail(q)) : Tail(q)[n] = x
<1>1. /\ Head(q) \in Signals /\ Tail(q) \in Seq(Signals) /\ Len(Tail(q)) = Len(q) - 1
      /\ \A n \in 1..Len(Tail(q)) : Tail(q)[n] = q[n + 1]
  BY HeadTailProperties
<1>2. Len(q) \in Nat /\ Head(q) = q[1]
  BY LenProperties, HeadTailProperties
<1>3. ASSUME NEW x, NEW n \in 1..Len(q), q[n] = x, x # Head(q)
      PROVE  \E m \in 1..Len(Tail(q)) : Tail(q)[m] = x
  <2>1. n # 1
    BY <1>2, <1>3
  <2>2. n - 1 \in 1..Len(Tail(q)) /\ Tail(q)[n - 1] = q[n - 1 + 1] /\ n - 1 + 1 = n
    BY <1>1, <1>2, <2>1
  <2> QED BY <1>3, <2>2
<1> QED BY <1>1, <1>2, <1>3

\* A signal that is left in the queue stays in it.
LEMMA SignalKept ==
    ASSUME TypeOK, NEW s \in Signals, signals' = Append(signals, s)
    PROVE  Waiting(s)' /\ \A x : Waiting(x) => Waiting(x)'
<1>1. signals \in Seq(Signals)
  BY DEF TypeOK
<1> QED BY <1>1, Appended DEF Waiting

LEMMA SignalTaken ==
    ASSUME TypeOK, signals # <<>>, signals' = Tail(signals)
    PROVE  /\ Head(signals) \in Signals /\ signals' \in Seq(Signals) /\ Len(signals') <= MaxSignals
           /\ \A x : Waiting(x) /\ x # Head(signals) => Waiting(x)'
<1>1. signals \in Seq(Signals) /\ Len(signals) <= MaxSignals /\ MaxSignals \in Nat
  BY SupervisorAssumption DEF TypeOK
<1>2. \A x : Waiting(x) /\ x # Head(signals) => Waiting(x)'
  BY <1>1, Taken DEF Waiting
<1>3. Head(signals) \in Signals /\ Tail(signals) \in Seq(Signals) /\ Len(Tail(signals)) <= MaxSignals
  BY <1>1, Taken
<1> QED BY <1>2, <1>3

---------------------------------------------------------------------------
(* Records.                                                                 *)

LEMMA OutcomeIs ==
    /\ NoOutcome \in Outcome
    /\ \A b \in BOOLEAN : Interrupted(b) \in Outcome /\ Interrupted(b).tag = "Interrupted"
    /\ \A b, c \in BOOLEAN :
          LET o == [Interrupted(b) EXCEPT !.established = TRUE, !.stable = c]
          IN  o \in Outcome /\ o.tag = "Interrupted"
    /\ \A tag \in {"Failure", "Blocked"} :
          /\ [NoOutcome EXCEPT !.tag = tag] \in Outcome
          /\ \A c \in BOOLEAN :
                [[NoOutcome EXCEPT !.tag = tag] EXCEPT !.established = TRUE, !.stable = c] \in Outcome
BY DEF NoOutcome, Outcome, Interrupted

LEMMA ShownIs ==
    ASSUME NEW phase \in {"available", "offline", "connecting", "connected", "blocked", "backoff"},
           NEW attempt \in Nat, NEW number \in Nat, NEW failed \in BOOLEAN
    PROVE  /\ Shown(phase, attempt, number, failed) \in State
           /\ \A d \in 0..Rungs :
                 [Shown(phase, attempt, number, failed) EXCEPT !.delay = d] \in State
BY SupervisorAssumption DEF Shown, State

LEMMA RungIs == \A n \in Nat : Rung(n) \in 0..Rungs
BY SupervisorAssumption DEF Rung

---------------------------------------------------------------------------
LEMMA InitInv == Init => IInv
<1> SUFFICES ASSUME Init PROVE IInv
  OBVIOUS
<1>1. state \in State
  BY ShownIs DEF Init, Offline
<1>2. signals \in Seq(Signals) /\ Len(signals) <= MaxSignals
  BY SupervisorAssumption DEF Init
<1>3. outcome \in Outcome
  BY OutcomeIs DEF Init
<1>4. resetRetryState \in BOOLEAN /\ wakeProbeFailed \in BOOLEAN /\ latestFailure \in BOOLEAN
      /\ prepared \in BOOLEAN /\ desired \in BOOLEAN
  BY DEF Init
<1>5. TypeOK
  <2>1. failureCount \in Nat /\ generation \in Nat /\ session \in Nat /\ unwaited \in Nat
    BY DEF Init, NoSession
  <2>2. user \in 0..MaxUser /\ faults \in 0..MaxFaults
    BY SupervisorAssumption DEF Init
  <2> QED BY <1>1, <1>2, <1>3, <1>4, <2>1, <2>2 DEF Init, TypeOK, Stages
<1>6. NoSessionAgainstIntent /\ RetryIsServed /\ MarkerIsShortLived
  BY DEF Init, NoSessionAgainstIntent, RetryIsServed, MarkerIsShortLived
<1> QED BY <1>5, <1>6 DEF IInv

\* The requests leave the fiber alone, and a signal of what they have changed.
LEMMA SignalsKeep ==
    ASSUME IInv, NEW s \in Signals, Signal(s),
           desired' \in BOOLEAN, network' \in {"online", "offline"}, resetRetryState' \in BOOLEAN,
           ~desired' => ~desired \/ s = "DisconnectRequested",
           network' = "offline" => Offline \/ s = "offline",
           resetRetryState' => resetRetryState \/ s = "RetryRequested"
    PROVE  IInv'
<1>1. /\ signals' = Append(signals, s) /\ Len(signals) < MaxSignals
      /\ user < MaxUser /\ user' = user + 1
      /\ UNCHANGED <<wakeProbeFailed, loop, stage, outcome, failureCount, generation,
                     latestFailure, state, session, prepared, unwaited, faults>>
  BY DEF Signal, LoopUnchanged, ladderVars, leaseVars
<1>2. TypeOK
  BY DEF IInv
<1>3. Waiting(s)' /\ \A x : Waiting(x) => Waiting(x)'
  BY <1>1, <1>2, SignalKept
<1>4. TypeOK'
  <2>1. signals' \in Seq(Signals) /\ Len(signals') <= MaxSignals
    BY <1>1, <1>2, Appended, LenProperties, SupervisorAssumption DEF TypeOK
  <2>2. user' \in 0..MaxUser
    BY <1>1, <1>2, SupervisorAssumption DEF TypeOK
  <2>3. wakeProbeFailed' \in BOOLEAN /\ latestFailure' \in BOOLEAN /\ prepared' \in BOOLEAN
    BY <1>1, <1>2 DEF TypeOK
  <2> QED BY <1>1, <1>2, <2>1, <2>2, <2>3 DEF TypeOK
<1>5. NoSessionAgainstIntent'
  BY <1>1, <1>3 DEF IInv, NoSessionAgainstIntent, Offline
<1>6. RetryIsServed'
  BY <1>1, <1>3 DEF IInv, RetryIsServed
<1>7. MarkerIsShortLived'
  BY <1>1 DEF IInv, MarkerIsShortLived
<1> QED BY <1>4, <1>5, <1>6, <1>7 DEF IInv

LEMMA RequestsKeep ==
    ASSUME IInv, Requests
    PROVE  IInv'
<1> USE DEF IInv, TypeOK
<1>1. CASE Connect
  BY <1>1, SignalsKeep DEF Connect, Signals, Offline
<1>2. CASE Disconnect
  BY <1>2, SignalsKeep DEF Disconnect, Signals, Offline
<1>3. CASE RetryNow
  BY <1>3, SignalsKeep DEF RetryNow, Signals, Offline
<1>4. CASE NetworkChanged
  BY <1>4, SignalsKeep DEF NetworkChanged, Signals, Offline
<1>5. CASE Wakeup
  BY <1>5, SignalsKeep DEF Wakeup, Signals, Wakeups, Offline
<1> QED BY <1>1, <1>2, <1>3, <1>4, <1>5 DEF Requests

\* While no session is up, a step that publishes none keeps the first property.
LEMMA StaysDown ==
    ASSUME session' = NoSession
    PROVE  NoSessionAgainstIntent'
BY DEF NoSessionAgainstIntent

LEMMA DownElsewhere ==
    ASSUME NoSessionAgainstIntent, loop \notin {"connected", "probing"}
    PROVE  session = NoSession
BY DEF NoSessionAgainstIntent

LEMMA RoundKeeps ==
    ASSUME IInv, Round
    PROVE  IInv'
<1>1. loop = "top" /\ resetRetryState' = FALSE /\ session = NoSession /\ TypeOK
  BY DownElsewhere DEF Round, IInv
<1>2. UNCHANGED <<desired, network, signals, wakeProbeFailed, outcome, generation, unwaited,
                  user, faults>>
  BY DEF Round
<1>3. ~wakeProbeFailed
  BY <1>1 DEF IInv, MarkerIsShortLived
<1> DEFINE count == IF resetRetryState THEN 0 ELSE failureCount
           failure == latestFailure /\ ~resetRetryState
<1>4. count \in Nat /\ failure \in BOOLEAN
  BY <1>1 DEF TypeOK
<1>5. /\ loop' \in {"available", "offline", "establishing"} /\ session' = NoSession
      /\ stage' \in Stages /\ prepared' = FALSE /\ failureCount' \in Nat
  <2>1. loop' \in {"available", "offline", "establishing"} /\ session' = NoSession
    BY <1>1 DEF Round
  <2>2. stage' \in Stages
    BY <1>1 DEF Round, TypeOK, Stages
  <2>3. prepared' = FALSE
    BY DEF Round
  <2>4. failureCount' \in {0, count}
    BY DEF Round
  <2> QED BY <1>4, <2>1, <2>2, <2>3, <2>4
<1>6. latestFailure' \in BOOLEAN
  BY <1>4 DEF Round
<1>7. state' \in State
  <2>1. generation \in Nat /\ count + 1 \in Nat /\ state \in State
    BY <1>1, <1>4 DEF TypeOK
  <2>2. \/ state' = Shown("available", 0, generation, FALSE)
        \/ state' = Shown("offline", count + 1, generation, failure)
        \/ state' = state
    BY DEF Round
  <2>3. Shown("available", 0, generation, FALSE) \in State
    BY <2>1, ShownIs
  <2> HIDE DEF count, failure
  <2>4. Shown("offline", count + 1, generation, failure) \in State
    BY <1>4, <2>1, ShownIs
  <2> QED BY <2>1, <2>2, <2>3, <2>4
<1>8. TypeOK'
  <2>1. resetRetryState' \in BOOLEAN /\ prepared' \in BOOLEAN
    BY <1>1, <1>5
  <2> QED BY <1>1, <1>2, <1>5, <1>6, <1>7, <2>1 DEF TypeOK, NoSession
<1>9. RetryIsServed' /\ MarkerIsShortLived'
  BY <1>1, <1>2, <1>3, <1>5 DEF IInv, RetryIsServed, MarkerIsShortLived
<1> QED BY <1>5, <1>8, <1>9, StaysDown DEF IInv

LEMMA TakeWhileWaitingKeeps ==
    ASSUME IInv, TakeWhileWaiting
    PROVE  IInv'
<1>1. /\ loop \in Waits /\ signals # <<>> /\ signals' = Tail(signals) /\ loop' = "top"
      /\ TypeOK /\ session' = NoSession
  BY DownElsewhere DEF TakeWhileWaiting, Waits, IInv, leaseVars
<1>2. failureCount' \in Nat
  BY DEF TakeWhileWaiting, IInv, TypeOK
<1>3. UNCHANGED <<desired, network, resetRetryState, wakeProbeFailed, stage, outcome, generation,
                  latestFailure, state, session, prepared, unwaited, user, faults>>
  BY DEF TakeWhileWaiting, leaseVars
<1>4. TypeOK'
  BY <1>1, <1>2, <1>3, SignalTaken DEF TypeOK
<1>5. RetryIsServed' /\ MarkerIsShortLived'
  BY <1>1, <1>3 DEF IInv, RetryIsServed, MarkerIsShortLived, Waits
<1> QED BY <1>1, <1>4, <1>5, StaysDown DEF IInv

LEMMA BackoffEndsKeeps ==
    ASSUME IInv, BackoffEnds
    PROVE  IInv'
<1>1. /\ loop = "backoff" /\ loop' = "top"
      /\ UNCHANGED <<desired, network, signals, resetRetryState, wakeProbeFailed, stage, outcome,
                     failureCount, generation, latestFailure, state, session, prepared,
                     unwaited, user, faults>>
  BY DEF BackoffEnds, intentVars, ladderVars, leaseVars
<1>2. TypeOK'
  BY <1>1 DEF IInv, TypeOK
<1> QED BY <1>1, <1>2 DEF IInv, NoSessionAgainstIntent, RetryIsServed, MarkerIsShortLived

LEMMA ProgressKeeps ==
    ASSUME IInv, Progress
    PROVE  IInv'
<1>1. /\ loop = "establishing" /\ session' = NoSession /\ TypeOK
      /\ UNCHANGED <<desired, network, signals, resetRetryState, wakeProbeFailed, loop, outcome,
                     failureCount, generation, latestFailure, session, unwaited, user, faults>>
  BY DownElsewhere DEF Progress, IInv, intentVars, ladderVars
<1>2. stage' \in Stages
  BY DEF Progress, Stages
<1>3. prepared' \in BOOLEAN
  BY DEF Progress
<1>4. state' \in State
  <2>1. failureCount + 1 \in Nat /\ generation + 1 \in Nat
    BY <1>1 DEF TypeOK
  <2>2. latestFailure \in BOOLEAN
    BY <1>1 DEF TypeOK
  <2>3. Shown("connecting", failureCount + 1, generation + 1, latestFailure) \in State
    BY <2>1, <2>2, ShownIs
  <2> QED BY <2>3 DEF Progress
<1>5. TypeOK'
  BY <1>1, <1>2, <1>3, <1>4 DEF TypeOK
<1>6. RetryIsServed' /\ MarkerIsShortLived'
  BY <1>1 DEF IInv, RetryIsServed, MarkerIsShortLived, Waiting
<1> QED BY <1>1, <1>5, <1>6, StaysDown DEF IInv

LEMMA EstablishedKeeps ==
    ASSUME IInv, Established
    PROVE  IInv'
<1>1. /\ loop = "establishing" /\ TypeOK /\ session = NoSession
      /\ UNCHANGED <<desired, network, signals, resetRetryState, wakeProbeFailed, stage,
                     failureCount, generation, latestFailure, user, faults>>
  BY DownElsewhere DEF Established, IInv, intentVars, ladderVars
<1>2. CASE ~desired \/ Offline
  <2>1. /\ loop' = "closing" /\ outcome' = Interrupted(FALSE) /\ session' = NoSession
        /\ prepared' = FALSE /\ UNCHANGED <<state, unwaited>>
    BY <1>2 DEF Established, EndAttempt
  <2>2. TypeOK'
    BY <1>1, <2>1, OutcomeIs DEF TypeOK, NoSession
  <2>3. RetryIsServed' /\ MarkerIsShortLived'
    BY <1>1, <2>1, OutcomeIs DEF IInv, RetryIsServed, MarkerIsShortLived
  <2> QED BY <2>1, <2>2, <2>3, StaysDown DEF IInv
<1>3. CASE desired /\ ~Offline
  <2>1. /\ loop' = "connected" /\ session' = generation + 1 /\ prepared' = TRUE
        /\ state' = Shown("connected", failureCount + 1, generation + 1, FALSE)
        /\ unwaited' = 0 /\ outcome' = outcome
    BY <1>3 DEF Established
  <2>2. /\ state' \in State /\ state'.phase = "connected" /\ state'.generation = session'
        /\ session' \in Nat
    <3>1. failureCount + 1 \in Nat /\ generation + 1 \in Nat
      BY <1>1 DEF TypeOK
    <3>2. state' \in State
      BY <2>1, <3>1, ShownIs
    <3>3. state'.phase = "connected" /\ state'.generation = generation + 1
      BY <2>1 DEF Shown
    <3> QED BY <2>1, <3>1, <3>2, <3>3
  <2>3. TypeOK'
    BY <1>1, <2>1, <2>2 DEF TypeOK
  <2>4. NoSessionAgainstIntent'
    BY <1>1, <1>3, <2>1, <2>2 DEF NoSessionAgainstIntent, Offline
  <2>5. RetryIsServed' /\ MarkerIsShortLived'
    BY <1>1, <2>1 DEF IInv, RetryIsServed, MarkerIsShortLived, Waiting
  <2> QED BY <2>3, <2>4, <2>5 DEF IInv
<1> QED BY <1>2, <1>3

\* An attempt ends: what was published is withdrawn.
LEMMA EndsKeep ==
    ASSUME IInv, TypeOK', EndAttempt(outcome'), loop \in {"establishing", "connected", "probing"},
           UNCHANGED <<resetRetryState, unwaited>>,
           Waiting("RetryRequested") /\ ~Waiting("RetryRequested")' => outcome'.tag = "Interrupted",
           wakeProbeFailed' => wakeProbeFailed \/ loop = "probing"
    PROVE  IInv'
<1>1. loop' = "closing" /\ session' = NoSession
  BY DEF EndAttempt
<1>2. RetryIsServed'
  BY <1>1 DEF IInv, RetryIsServed
<1>3. MarkerIsShortLived'
  BY <1>1 DEF IInv, MarkerIsShortLived
<1> QED BY <1>1, <1>2, <1>3, StaysDown DEF IInv

\* A signal is taken beside an attempt or a session.
LEMMA TakesKeep ==
    ASSUME IInv, loop \in {"establishing", "connected", "probing"},
           signals # <<>>, signals' = Tail(signals),
           UNCHANGED <<desired, network, resetRetryState, wakeProbeFailed, stage, failureCount,
                       generation, latestFailure, state, unwaited, user, faults>>,
           \/ /\ EndAttempt(outcome') /\ outcome' \in Outcome
              /\ outcome'.tag = "Interrupted"
           \/ /\ ~EndsAttempt(Head(signals))
              /\ loop' = loop \/ (loop = "connected" /\ loop' = "probing")
              /\ UNCHANGED <<outcome, session, prepared>>
    PROVE  IInv'
<1>1. TypeOK /\ \A x : Waiting(x) /\ x # Head(signals) => Waiting(x)'
  BY SignalTaken DEF IInv
<1>2. TypeOK'
  <2>1. signals' \in Seq(Signals) /\ Len(signals') <= MaxSignals
    BY <1>1, SignalTaken
  <2>2. prepared' \in BOOLEAN
    <3>1. CASE prepared' = FALSE
      BY <3>1
    <3>2. CASE prepared' = prepared
      BY <1>1, <3>2 DEF TypeOK
    <3> QED BY <3>1, <3>2 DEF EndAttempt
  <2>4. session' \in Nat
    BY <1>1 DEF TypeOK, EndAttempt, NoSession
  <2>3. loop' \in Loops /\ outcome' \in Outcome
    BY <1>1 DEF TypeOK, EndAttempt, Loops
  <2> QED BY <1>1, <2>1, <2>2, <2>3, <2>4 DEF TypeOK, Loops
<1>3. CASE EndAttempt(outcome') /\ outcome'.tag = "Interrupted"
  BY <1>2, <1>3, EndsKeep
<1>4. CASE /\ ~EndsAttempt(Head(signals))
           /\ loop' = loop \/ (loop = "connected" /\ loop' = "probing")
           /\ UNCHANGED <<outcome, session, prepared>>
  <2>1. \A x \in {"DisconnectRequested", "RetryRequested", "offline"} : Waiting(x) => Waiting(x)'
    BY <1>1, <1>4 DEF EndsAttempt
  <2>2. NoSessionAgainstIntent'
    BY <1>4, <2>1 DEF IInv, NoSessionAgainstIntent, Offline
  <2>3. RetryIsServed' /\ MarkerIsShortLived'
    BY <1>4, <2>1 DEF IInv, RetryIsServed, MarkerIsShortLived
  <2> QED BY <1>2, <2>2, <2>3 DEF IInv
<1> QED BY <1>3, <1>4

LEMMA TakeWhileEstablishingKeeps ==
    ASSUME IInv, TakeWhileEstablishing
    PROVE  IInv'
<1>1. /\ loop = "establishing" /\ signals # <<>> /\ signals' = Tail(signals)
      /\ UNCHANGED <<desired, network, resetRetryState, wakeProbeFailed, stage, failureCount,
                     generation, latestFailure, state, unwaited, user, faults>>
  BY DEF TakeWhileEstablishing, NoRequest, ladderVars
<1>2. CASE EndsAttempt(Head(signals)) \/ Head(signals) = "application-active-reconnect"
  <2>1. EndAttempt(Interrupted(~EndsAttempt(Head(signals))))
    BY <1>2 DEF TakeWhileEstablishing
  <2>2. EndAttempt(outcome') /\ outcome' \in Outcome /\ outcome'.tag = "Interrupted"
    BY <2>1, OutcomeIs DEF EndAttempt
  <2> QED BY <1>1, <2>2, TakesKeep
<1>3. CASE ~(EndsAttempt(Head(signals)) \/ Head(signals) = "application-active-reconnect")
  BY <1>1, <1>3, TakesKeep DEF TakeWhileEstablishing, leaseVars
<1> QED BY <1>2, <1>3

LEMMA TakeWhileConnectedKeeps ==
    ASSUME IInv, TakeWhileConnected
    PROVE  IInv'
<1>1. /\ loop = "connected" /\ signals # <<>> /\ signals' = Tail(signals)
      /\ UNCHANGED <<desired, network, resetRetryState, wakeProbeFailed, stage, failureCount,
                     generation, latestFailure, state, unwaited, user, faults>>
  BY DEF TakeWhileConnected, NoRequest, ladderVars
<1>2. CASE Up(Interrupted(FALSE)) \/ Up(Interrupted(TRUE))
  <2>1. EndAttempt(outcome') /\ outcome' \in Outcome /\ outcome'.tag = "Interrupted"
    BY <1>2, OutcomeIs DEF Up, EndAttempt
  <2> QED BY <1>1, <2>1, TakesKeep
<1>3. CASE /\ Head(signals) \in {"application-active", "ConnectRequested", "online",
                                 "credentials-changed"}
           /\ loop' \in {loop, "probing"} /\ UNCHANGED <<outcome, leaseVars>>
  <2>1. ~EndsAttempt(Head(signals))
    BY <1>3 DEF EndsAttempt
  <2> QED BY <1>1, <1>3, <2>1, TakesKeep DEF leaseVars
<1> QED BY <1>2, <1>3 DEF TakeWhileConnected

LEMMA TakeWhileProbingKeeps ==
    ASSUME IInv, TakeWhileProbing
    PROVE  IInv'
<1>1. /\ loop = "probing" /\ signals # <<>> /\ signals' = Tail(signals)
      /\ UNCHANGED <<desired, network, resetRetryState, wakeProbeFailed, stage, failureCount,
                     generation, latestFailure, state, unwaited, user, faults>>
  BY DEF TakeWhileProbing, NoRequest, ladderVars
<1>2. CASE ProbeInterrupt(Head(signals))
  <2>1. Up(Interrupted(~EndsAttempt(Head(signals))))
    BY <1>2 DEF TakeWhileProbing
  <2>2. EndAttempt(outcome') /\ outcome' \in Outcome /\ outcome'.tag = "Interrupted"
    BY <2>1, OutcomeIs DEF Up, EndAttempt
  <2> QED BY <1>1, <2>2, TakesKeep
<1>3. CASE ~ProbeInterrupt(Head(signals))
  BY <1>1, <1>3, TakesKeep DEF TakeWhileProbing, ProbeInterrupt, leaseVars
<1> QED BY <1>2, <1>3

LEMMA ProbeSucceedsKeeps ==
    ASSUME IInv, ProbeSucceeds
    PROVE  IInv'
<1>1. /\ loop = "probing" /\ loop' = "connected"
      /\ UNCHANGED <<desired, network, signals, resetRetryState, wakeProbeFailed, stage, outcome,
                     failureCount, generation, latestFailure, state, session, prepared,
                     unwaited, user, faults>>
  BY DEF ProbeSucceeds, intentVars, ladderVars, leaseVars
<1>2. TypeOK'
  BY <1>1 DEF IInv, TypeOK
<1> QED BY <1>1, <1>2 DEF IInv, NoSessionAgainstIntent, RetryIsServed, MarkerIsShortLived,
                          Waiting, Offline

LEMMA FailuresKeep ==
    ASSUME IInv, Failures
    PROVE  IInv'
<1>1. /\ faults' \in 0..MaxFaults /\ TypeOK
      /\ UNCHANGED <<desired, network, signals, resetRetryState, stage, failureCount, generation,
                     latestFailure, state, unwaited, user>>
  BY SupervisorAssumption
     DEF IInv, TypeOK, Failures, AttemptFails, ProbeFails, SessionCloses, Fault, intentVars, ladderVars
<1>2. EndAttempt(outcome') /\ outcome' \in Outcome
  BY OutcomeIs DEF Failures, AttemptFails, ProbeFails, SessionCloses, Up, EndAttempt
<1>3. wakeProbeFailed' \in BOOLEAN
  BY <1>1 DEF Failures, AttemptFails, ProbeFails, SessionCloses, TypeOK
<1>4. wakeProbeFailed' => wakeProbeFailed \/ loop = "probing"
  BY DEF Failures, AttemptFails, ProbeFails, SessionCloses
<1>5. loop \in {"establishing", "connected", "probing"}
  BY DEF Failures, AttemptFails, ProbeFails, SessionCloses
<1>6. TypeOK'
  BY <1>1, <1>2, <1>3 DEF TypeOK, EndAttempt, NoSession
<1> QED BY <1>1, <1>2, <1>4, <1>5, <1>6, EndsKeep DEF Waiting

LEMMA EndRoundKeeps ==
    ASSUME IInv, EndRound
    PROVE  IInv'
<1>1. /\ loop = "closing" /\ TypeOK /\ session' = NoSession /\ outcome' = NoOutcome
      /\ stage' = "none" /\ wakeProbeFailed' = FALSE
      /\ UNCHANGED <<desired, network, signals, resetRetryState, session, prepared, user, faults>>
  BY DownElsewhere DEF EndRound, IInv, ConsumeMarker, intentVars, leaseVars
<1> DEFINE number == GenerationAfter(outcome)
           count == IF outcome.established /\ outcome.stable THEN 0 ELSE failureCount
           attempt == failureCount + 1
<1>2. number \in Nat /\ count \in Nat /\ attempt \in Nat
  BY <1>1 DEF TypeOK, GenerationAfter
<1>3. /\ generation' \in Nat /\ failureCount' \in Nat
      /\ loop' \in {"top", "blocked", "backoff"}
  <2>1. generation' = number /\ failureCount' \in {0, count, count + 1}
    BY DEF EndRound
  <2>2. loop' \in {"top", "blocked", "backoff"}
    BY DEF EndRound
  <2> QED BY <1>2, <2>1, <2>2
<1>4. latestFailure' \in BOOLEAN
  BY DEF EndRound
<1>5. state' \in State
  <2>1. \/ state' = state
        \/ state' = Shown("blocked", attempt, number, TRUE)
        \/ state' = Shown("connecting", 1, number, TRUE)
        \/ state' = [Shown("backoff", attempt, number, TRUE) EXCEPT !.delay = Rung(count + 1)]
    BY DEF EndRound
  <2>2. Rung(count + 1) \in 0..Rungs
    BY <1>2, RungIs
  <2> HIDE DEF attempt, number, count
  <2>3. /\ Shown("blocked", attempt, number, TRUE) \in State
        /\ Shown("connecting", 1, number, TRUE) \in State
    BY <1>2, ShownIs
  <2>4. [Shown("backoff", attempt, number, TRUE) EXCEPT !.delay = Rung(count + 1)] \in State
    BY <1>2, <2>2, ShownIs
  <2> QED BY <1>1, <2>1, <2>3, <2>4 DEF TypeOK
<1>6. unwaited' \in Nat /\ unwaited' <= 1
  <2>1. unwaited \in Nat /\ unwaited <= 1 /\ (wakeProbeFailed => unwaited = 0)
    BY DEF IInv, TypeOK, MarkerIsShortLived
  <2>2. unwaited' \in {0, unwaited} \/ (wakeProbeFailed /\ unwaited' = unwaited + 1)
    BY DEF EndRound
  <2> QED BY <2>1, <2>2
<1>7. TypeOK'
  <2>1. wakeProbeFailed' \in BOOLEAN
    BY <1>1
  <2> QED BY <1>1, <1>3, <1>4, <1>5, <1>6, <2>1, OutcomeIs DEF TypeOK, Stages
<1>8. RetryIsServed'
  <2>1. outcome.tag = "Interrupted" => loop' = "top"
    BY DEF EndRound
  <2> QED BY <1>1, <2>1 DEF IInv, RetryIsServed, Waiting
<1>9. MarkerIsShortLived'
  BY <1>1, <1>3, <1>6 DEF MarkerIsShortLived
<1> QED BY <1>1, <1>7, <1>8, <1>9, StaysDown DEF IInv

LEMMA NextInv ==
    ASSUME IInv, [Next]_vars
    PROVE  IInv'
<1>1. CASE UNCHANGED vars
  BY <1>1 DEF vars, intentVars, ladderVars, leaseVars, IInv, TypeOK, NoSessionAgainstIntent,
              RetryIsServed, MarkerIsShortLived, Waiting, Offline
<1>2. CASE TakeSignal
  BY <1>2, TakeWhileWaitingKeeps, TakeWhileEstablishingKeeps, TakeWhileConnectedKeeps,
     TakeWhileProbingKeeps DEF TakeSignal
<1>3. CASE Loop
  BY <1>3, RoundKeeps, EndRoundKeeps DEF Loop
<1>4. CASE Driver
  BY <1>4, ProgressKeeps, EstablishedKeeps, ProbeSucceedsKeeps DEF Driver
<1> QED BY <1>1, <1>2, <1>3, <1>4, RequestsKeep, BackoffEndsKeeps, FailuresKeep DEF Next

LEMMA Invariant == Spec => []IInv
BY InitInv, NextInv, PTL DEF Spec

\* Every variable of the supervisor stays in its range: the shown state is one
\* of the contract's, with a delay of the ladder (supervisor.ts 83-143).
THEOREM TypeCorrect == Spec => []TypeOK
<1>1. IInv => TypeOK
  BY DEF IInv
<1> QED BY <1>1, Invariant, PTL

\* No session is kept against what is wanted without the signal that ends it
\* (supervisor.ts 265-366, 434-471).
THEOREM SessionFollowsIntent == Spec => []NoSessionAgainstIntent
<1>1. IInv => NoSessionAgainstIntent
  BY DEF IInv
<1> QED BY <1>1, Invariant, PTL

\* Whatever a request to retry meets, the fiber does not go on waiting
\* (supervisor.ts 269-276, 500-510, 639-642).
THEOREM RetryIsHeard == Spec => []RetryIsNotAbsorbed
<1>1. IInv => RetryIsNotAbsorbed
  BY DEF IInv, RetryIsServed, RetryIsNotAbsorbed
<1> QED BY <1>1, Invariant, PTL

\* At most one failure in a row is not followed by a wait (supervisor.ts 573-602).
THEOREM LadderIsSkippedOnce == Spec => []OnlyOneSkipsTheDelay
<1>1. IInv => OnlyOneSkipsTheDelay
  BY DEF IInv, TypeOK, MarkerIsShortLived, OnlyOneSkipsTheDelay
<1> QED BY <1>1, Invariant, PTL

---------------------------------------------------------------------------
(* The registry: its lock, of any tasks t and lock l.                        *)

Task == [kind : Kinds, step : Steps, lock : Nat, entry : Entries \cup {None}, closes : Nat]

\* Who uses the lock, waiting for it or inside.
Users(t) == {r \in Requesters : t[r].step # "idle"}

Works(t, r) == t[r].step \notin {"idle", "waiting"}

LockOK(t, l) ==
    /\ t \in [Requesters -> Task]
    /\ l \in [current : [id : Nat, users : Nat], made : Nat]
    /\ l.current.users = Cardinality(Users(t))
    /\ \A r \in Users(t) : t[r].lock = l.current.id
    /\ \A r, s \in Requesters : Works(t, r) /\ Works(t, s) => r = s

LEMMA UsersFinite ==
    ASSUME NEW t
    PROVE  IsFiniteSet(Users(t)) /\ Cardinality(Users(t)) \in Nat
<1>1. IsFiniteSet({}) /\ \A S, x : IsFiniteSet(S) => IsFiniteSet(S \cup {x})
  BY FS_EmptySet, FS_AddElement
<1>2. Requesters = ((({} \cup {"platform"}) \cup {"user"}) \cup {"query"}) \cup {"follower"}
  BY DEF Requesters
<1>3. IsFiniteSet(Requesters)
  BY <1>1, <1>2
<1>4. Users(t) \subseteq Requesters
  BY DEF Users
<1> QED BY <1>3, <1>4, FS_Subset, FS_CardinalityType

\* One more user: of the lock that is there, or of a new one if nobody uses it.
Joined(t, l, r, kind, e, new) ==
    LockOK([t EXCEPT ![r] = WaitingTask(kind, new, e)],
           [current |-> [id |-> new, users |-> l.current.users + 1],
            made |-> IF new > l.made THEN new ELSE l.made])

LEMMA Joining ==
    ASSUME NEW t, NEW l, LockOK(t, l), NEW r \in Requesters, t[r].step = "idle",
           NEW kind \in Kinds, NEW e \in Entries \cup {None}, NEW new,
           new = IF l.current.users = 0 THEN l.made + 1 ELSE l.current.id
    PROVE  Joined(t, l, r, kind, e, new)
<1> DEFINE w == WaitingTask(kind, new, e)
           u == [t EXCEPT ![r] = w]
           m == [current |-> [id |-> new, users |-> l.current.users + 1],
                 made |-> IF new > l.made THEN new ELSE l.made]
<1>1. /\ t \in [Requesters -> Task] /\ l.current.users \in Nat /\ l.made \in Nat /\ l.current.id \in Nat
      /\ l.current.users = Cardinality(Users(t))
  BY DEF LockOK
<1>2. new \in Nat
  BY <1>1
<1>3. w \in Task /\ w.step = "waiting" /\ w.lock = new
  BY <1>2 DEF WaitingTask, Task, Steps
<1> HIDE DEF w
<1>4. u \in [Requesters -> Task] /\ u[r] = w /\ \A s \in Requesters \ {r} : u[s] = t[s]
  BY <1>1, <1>3
<1>5. m \in [current : [id : Nat, users : Nat], made : Nat]
  BY <1>1, <1>2
<1> HIDE DEF u
<1>6. Users(u) = Users(t) \cup {r} /\ r \notin Users(t)
  BY <1>3, <1>4 DEF Users
<1>7. Cardinality(Users(u)) = Cardinality(Users(t)) + 1
  BY <1>6, UsersFinite, FS_AddElement
<1>8. \A s \in Users(u) : u[s].lock = new
  <2>1. CASE l.current.users = 0
    <3>1. Users(t) = {}
      BY <1>1, <2>1, UsersFinite, FS_EmptySet
    <3> QED BY <1>3, <1>4, <1>6, <3>1
  <2>2. CASE l.current.users # 0
    <3>1. \A s \in Users(t) : t[s].lock = new
      BY <2>2 DEF LockOK
    <3> QED BY <1>3, <1>4, <1>6, <3>1 DEF Users
  <2> QED BY <2>1, <2>2
<1>9. \A a, b \in Requesters : Works(u, a) /\ Works(u, b) => a = b
  BY <1>3, <1>4 DEF LockOK, Works
<1>10. m.current.users = Cardinality(Users(u)) /\ m.current.id = new
  BY <1>1, <1>7
<1>11. LockOK(u, m)
  <2> HIDE DEF m
  <2> QED BY <1>4, <1>5, <1>8, <1>9, <1>10 DEF LockOK
<1> QED BY <1>11 DEF Joined, u, w

\* One user less, and the lock goes with the last.
LEMMA Leaving ==
    ASSUME LockOK(task, lock), NEW r \in Users(task)
    PROVE  LockOK([task EXCEPT ![r] = NoTask], Dropped(task[r].lock))
<1> DEFINE u == [task EXCEPT ![r] = NoTask]
           m == Dropped(task[r].lock)
<1>1. /\ task \in [Requesters -> Task] /\ r \in Requesters
      /\ lock \in [current : [id : Nat, users : Nat], made : Nat]
      /\ lock.current.users = Cardinality(Users(task)) /\ task[r].lock = lock.current.id
  BY DEF LockOK, Users
<1>2. NoTask \in Task /\ NoTask.step = "idle"
  BY DEF NoTask, Task, Kinds, Steps
<1>3. u \in [Requesters -> Task] /\ u[r] = NoTask /\ \A s \in Requesters \ {r} : u[s] = task[s]
  BY <1>1, <1>2
<1> HIDE DEF u
<1>4. Users(u) = Users(task) \ {r}
  BY <1>2, <1>3 DEF Users
<1>5. Cardinality(Users(u)) = Cardinality(Users(task)) - 1
  BY <1>4, UsersFinite, FS_RemoveElement
<1>6. /\ m \in [current : [id : Nat, users : Nat], made : Nat]
      /\ m.current.users = Cardinality(Users(u))
      /\ \A s \in Users(u) : u[s].lock = m.current.id
  <2>1. CASE lock.current.users = 1
    <3>1. m = [lock EXCEPT !.current = NoLock]
      BY <1>1, <2>1 DEF Dropped
    <3>2. NoLock \in [id : Nat, users : Nat] /\ NoLock.users = 0
      BY DEF NoLock
    <3>3. m \in [current : [id : Nat, users : Nat], made : Nat] /\ m.current = NoLock
      BY <1>1, <3>1, <3>2
    <3>4. Cardinality(Users(u)) = 0
      BY <1>1, <1>5, <2>1
    <3>5. Users(u) = {}
      BY <3>4, UsersFinite, FS_EmptySet
    <3> QED BY <3>2, <3>3, <3>4, <3>5
  <2>2. CASE lock.current.users # 1
    <3> DEFINE c == [id |-> task[r].lock, users |-> lock.current.users - 1]
    <3>1. m = [lock EXCEPT !.current = c]
      BY <1>1, <2>2 DEF Dropped
    <3>2. lock.current.users - 1 = Cardinality(Users(u)) /\ Cardinality(Users(u)) \in Nat
      BY <1>1, <1>5, UsersFinite
    <3>3. /\ m \in [current : [id : Nat, users : Nat], made : Nat]
          /\ m.current.users = lock.current.users - 1 /\ m.current.id = lock.current.id
      <4>1. c \in [id : Nat, users : Nat] /\ c.users = lock.current.users - 1 /\ c.id = lock.current.id
        BY <1>1, <3>2
      <4> HIDE DEF c
      <4> QED BY <1>1, <3>1, <4>1
    <3>4. \A s \in Users(u) : u[s].lock = lock.current.id
      BY <1>3, <1>4 DEF LockOK, Users
    <3> QED BY <3>2, <3>3, <3>4
  <2> QED BY <2>1, <2>2
<1>7. \A a, b \in Requesters : Works(u, a) /\ Works(u, b) => a = b
  BY <1>2, <1>3 DEF LockOK, Works
<1>8. LockOK(u, m)
  <2> HIDE DEF m
  <2> QED BY <1>3, <1>6, <1>7 DEF LockOK
<1> QED BY <1>8 DEF u

\* A user that works, or may enter, goes on to work.
LEMMA Working ==
    ASSUME LockOK(task, lock), NEW r \in Requesters,
           Works(task, r) \/ (task[r].step = "waiting" /\ ~Held(task[r].lock)),
           NEW step \in Steps \ {"idle", "waiting"}, NEW closes \in Nat,
           NEW new, new = [task[r] EXCEPT !.step = step, !.closes = closes],
           task' = [task EXCEPT ![r] = new]
    PROVE  /\ LockOK(task', lock) /\ task'[r].step = step /\ task'[r].closes = closes
           /\ task'[r].kind = task[r].kind /\ task'[r].entry = task[r].entry
           /\ \A s \in Requesters \ {r} : task'[s] = task[s] /\ ~Works(task, s)
<1>1. task \in [Requesters -> Task] /\ task[r] \in Task /\ r \in Users(task)
  BY DEF LockOK, Works, Users
<1>2. /\ new \in Task /\ new.step = step /\ new.closes = closes /\ new.kind = task[r].kind
      /\ new.entry = task[r].entry /\ new.lock = task[r].lock
  BY <1>1 DEF Task
<1>3. /\ task' \in [Requesters -> Task] /\ task'[r] = new
      /\ \A s \in Requesters \ {r} : task'[s] = task[s]
  BY <1>1, <1>2
<1>4. Users(task') = Users(task)
  BY <1>1, <1>2, <1>3 DEF Users
<1>5. \A s \in Requesters \ {r} : ~Works(task, s)
  <2> SUFFICES ASSUME NEW s \in Requesters \ {r}, Works(task, s) PROVE FALSE
    OBVIOUS
  <2>1. s \in Users(task)
    BY DEF Works, Users
  <2>2. task[s].lock = task[r].lock
    BY <1>1, <2>1 DEF LockOK
  <2> QED BY <2>2 DEF LockOK, Held, Works
<1>6. \A a, b \in Requesters : Works(task', a) /\ Works(task', b) => a = b
  BY <1>3, <1>5 DEF Works
<1>7. \A s \in Users(task') : task'[s].lock = lock.current.id
  BY <1>2, <1>3, <1>4 DEF LockOK
<1>8. LockOK(task', lock)
  BY <1>3, <1>4, <1>6, <1>7 DEF LockOK
<1> QED BY <1>2, <1>3, <1>5, <1>8

LEMMA Stepping ==
    ASSUME LockOK(task, lock), NEW r \in Requesters,
           Works(task, r) \/ (task[r].step = "waiting" /\ ~Held(task[r].lock)),
           NEW step \in Steps \ {"idle", "waiting"}, Step(r, step)
    PROVE  /\ LockOK(task', lock) /\ task'[r].step = step /\ task'[r].closes = task[r].closes
           /\ task'[r].kind = task[r].kind /\ task'[r].entry = task[r].entry
           /\ \A s \in Requesters \ {r} : task'[s] = task[s] /\ ~Works(task, s)
<1> DEFINE new == [task[r] EXCEPT !.step = step]
<1>1. task[r] \in Task
  BY DEF LockOK
<1>2. new = [task[r] EXCEPT !.step = step, !.closes = task[r].closes] /\ task[r].closes \in Nat
  BY <1>1 DEF Task
<1>3. task' = [task EXCEPT ![r] = new]
  BY DEF Step
<1> HIDE DEF new
<1> QED BY <1>2, <1>3, Working

---------------------------------------------------------------------------
(* The invariant.                                                           *)

Only(supervisor) == IF supervisor = 0 THEN {} ELSE {supervisor}

\* What is in the table belongs to the entry.
TablesAgree ==
    /\ entry \in Entries \cup {None}
    /\ scope \in [entry : Entries \cup {None}, supervisor : Nat]
    /\ made \in Nat
    /\ scope # NoScope => entry \in Entries /\ scope.entry = entry /\ scope.supervisor # 0

\* What lives is in the table, or in the hands of the one who closes it.
LiveInTable ==
    (\A r \in Requesters : task[r].step # "closing") => live = Only(scope.supervisor)

\* What each requester has established.
TasksAgree ==
    \A r \in Requesters :
        /\ task[r].step = "closing" =>
               scope = NoScope /\ live = Only(task[r].closes) /\ task[r].kind # "acquire"
        /\ task[r].step = "creating" => scope = NoScope /\ live = {} /\ entry \in Entries
        /\ task[r].step = "installing" => task[r].kind \in {"register", "install"}
        /\ task[r].kind \in {"register", "install"} /\ task[r].step # "idle" =>
               task[r].entry \in Entries
        /\ task[r].kind \in {"register", "remove", "removePlatform"}
           /\ task[r].step \in {"installing", "closing", "creating"} => ~platform

RegistryInv == LockOK(task, lock) /\ TablesAgree /\ LiveInTable /\ TasksAgree

LEMMA InitRegistry == RegistryInit => RegistryInv
<1> SUFFICES ASSUME RegistryInit PROVE RegistryInv
  OBVIOUS
<1>1. NoTask \in Task /\ NoTask.step = "idle" /\ NoTask.kind = "acquire"
  BY DEF NoTask, Task, Kinds, Steps
<1>2. task \in [Requesters -> Task] /\ \A r \in Requesters : task[r] = NoTask
  BY <1>1 DEF RegistryInit
<1>3. Users(task) = {}
  BY <1>1, <1>2 DEF Users
<1>4. Cardinality(Users(task)) = 0
  BY <1>3, FS_EmptySet
<1>5. LockOK(task, lock)
  BY <1>1, <1>2, <1>3, <1>4 DEF LockOK, RegistryInit, NoLock, Works
<1>6. TablesAgree /\ LiveInTable /\ TasksAgree
  BY <1>1, <1>2 DEF TablesAgree, LiveInTable, TasksAgree, RegistryInit, NoScope, Only
<1> QED BY <1>5, <1>6 DEF RegistryInv

\* Whoever joins or leaves touches nothing that lives.
LEMMA OutsideKeeps ==
    ASSUME RegistryInv, LockOK(task', lock'), UNCHANGED <<entry, scope, live, made, platform>>,
           \A r \in Requesters :
               \/ task'[r] = task[r]
               \/ /\ task[r].step \in {"idle", "waiting", "leaving"}
                  /\ \/ task'[r].step = "idle"
                     \/ /\ task'[r].step = "waiting"
                        /\ task'[r].kind \in {"register", "install"} => task'[r].entry \in Entries
    PROVE  RegistryInv'
<1>1. TablesAgree'
  BY DEF RegistryInv, TablesAgree
<1>2. LiveInTable'
  BY DEF RegistryInv, LiveInTable
<1>3. TasksAgree'
  BY DEF RegistryInv, TasksAgree
<1> QED BY <1>1, <1>2, <1>3 DEF RegistryInv

LEMMA RequestKeeps ==
    ASSUME RegistryInv, NEW r \in Requesters, NEW kind \in Kinds, NEW e \in Entries \cup {None},
           kind \in {"register", "install"} => e \in Entries, Request(r, kind, e)
    PROVE  RegistryInv'
<1> DEFINE new == IF lock.current.users = 0 THEN lock.made + 1 ELSE lock.current.id
<1>1. /\ task[r].step = "idle"
      /\ lock' = [current |-> [id |-> new, users |-> lock.current.users + 1],
                  made |-> IF new > lock.made THEN new ELSE lock.made]
      /\ task' = [task EXCEPT ![r] = WaitingTask(kind, new, e)]
      /\ UNCHANGED <<entry, scope, live, made, platform>>
  BY DEF Request, Join
<1>2. LockOK(task, lock) /\ task \in [Requesters -> Task]
  BY DEF RegistryInv, LockOK
<1> HIDE DEF new
<1>3. Joined(task, lock, r, kind, e, new)
  BY <1>1, <1>2, Joining DEF new
<1>4. LockOK(task', lock')
  BY <1>1, <1>3 DEF Joined
<1>5. task'[r] = WaitingTask(kind, new, e) /\ \A s \in Requesters \ {r} : task'[s] = task[s]
  BY <1>1, <1>2
<1>6. task'[r].step = "waiting" /\ task'[r].kind = kind /\ task'[r].entry = e
  BY <1>5 DEF WaitingTask
<1> QED BY <1>1, <1>4, <1>5, <1>6, OutsideKeeps

LEMMA LeaveKeeps == ASSUME RegistryInv, NEW r \in Requesters, Leave(r) PROVE RegistryInv'
<1>1. LockOK(task, lock) /\ task \in [Requesters -> Task] /\ r \in Users(task)
  BY DEF RegistryInv, LockOK, Leave, Users
<1>2. LockOK(task', lock')
  BY <1>1, Leaving DEF Leave
<1>3. NoTask.step = "idle"
  BY DEF NoTask
<1>4. task[r].step = "leaving" /\ task'[r].step = "idle"
      /\ \A s \in Requesters \ {r} : task'[s] = task[s]
  BY <1>1, <1>3 DEF Leave
<1>5. UNCHANGED <<entry, scope, live, made, platform>>
  BY DEF Leave
<1> QED BY <1>2, <1>4, <1>5, OutsideKeeps

\* The follower gives up its place and may ask again.
LEMMA WatchKeeps == ASSUME RegistryInv, Watch PROVE RegistryInv'
<1> DEFINE f == "follower"
           waits == task[f].step = "waiting"
           t == IF waits THEN [task EXCEPT ![f] = NoTask] ELSE task
           l == IF waits THEN Dropped(task[f].lock) ELSE lock
           new == IF l.current.users = 0 THEN l.made + 1 ELSE l.current.id
           next == Head(emissions)
<1>1. f \in Requesters /\ LockOK(task, lock) /\ task \in [Requesters -> Task] /\ task[f].step \in {"idle", "waiting"}
  BY DEF RegistryInv, LockOK, Requesters, Watch
<1>2. NoTask.step = "idle"
  BY DEF NoTask
<1>3. LockOK(t, l) /\ t[f].step = "idle" /\ \A s \in Requesters \ {f} : t[s] = task[s]
  <2>1. CASE waits
    <3>1. f \in Users(task)
      BY <1>1, <2>1 DEF Users
    <3>2. LockOK([task EXCEPT ![f] = NoTask], Dropped(task[f].lock))
      BY <1>1, <3>1, Leaving
    <3> QED BY <1>1, <1>2, <2>1, <3>2
  <2>2. CASE ~waits
    BY <1>1, <2>2
  <2> QED BY <2>1, <2>2
<1>4. UNCHANGED <<entry, scope, live, made, platform>>
  BY DEF Watch
<1>5. \/ lock' = lock /\ task' = task
      \/ lock' = l /\ task' = t
      \/ /\ lock' = [current |-> [id |-> new, users |-> l.current.users + 1],
                     made |-> IF new > l.made THEN new ELSE l.made]
         /\ task' = [t EXCEPT ![f] = WaitingTask("acquire", new, None)]
  <2> DEFINE freed == IF task[f].step = "waiting"
                      THEN [lock |-> Dropped(task[f].lock), task |-> [task EXCEPT ![f] = NoTask]]
                      ELSE [lock |-> lock, task |-> task]
  <2>1. freed.lock = l /\ freed.task = t
    OBVIOUS
  <2>2. IF next = seen THEN UNCHANGED <<seen, following, lock, task>>
        ELSE /\ seen' = next /\ following' = 0
             /\ IF next = None
                THEN lock' = freed.lock /\ task' = freed.task
                ELSE LET id == IF freed.lock.current.users = 0 THEN freed.lock.made + 1 ELSE freed.lock.current.id
                     IN  /\ lock' = [current |-> [id |-> id, users |-> freed.lock.current.users + 1],
                                     made |-> IF id > freed.lock.made THEN id ELSE freed.lock.made]
                         /\ task' = [freed.task EXCEPT ![f] = WaitingTask("acquire", id, None)]
    BY DEF Watch
  <2> HIDE DEF freed, t, l
  <2> QED BY <2>1, <2>2
<1>6. CASE lock' = lock /\ task' = task
  BY <1>1, <1>4, <1>6, OutsideKeeps
<1>7. CASE lock' = l /\ task' = t
  <2> HIDE DEF t, l
  <2> QED BY <1>1, <1>3, <1>4, <1>7, OutsideKeeps
<1>8. CASE /\ lock' = [current |-> [id |-> new, users |-> l.current.users + 1],
                       made |-> IF new > l.made THEN new ELSE l.made]
           /\ task' = [t EXCEPT ![f] = WaitingTask("acquire", new, None)]
  <2> HIDE DEF t, l
  <2>1. "acquire" \in Kinds /\ t \in [Requesters -> Task]
    BY <1>3 DEF Kinds, LockOK
  <2> DEFINE n == new
  <2>2. n = IF l.current.users = 0 THEN l.made + 1 ELSE l.current.id
    OBVIOUS
  <2> HIDE DEF n
  <2>3. Joined(t, l, f, "acquire", None, n)
    BY <1>1, <1>3, <2>1, <2>2, Joining
  <2>4. LockOK(task', lock')
    BY <1>8, <2>3 DEF Joined, n
  <2>5. task'[f].step = "waiting" /\ task'[f].kind = "acquire"
        /\ \A s \in Requesters \ {f} : task'[s] = task[s]
    BY <1>1, <1>3, <1>8, <2>1 DEF WaitingTask
  <2> QED BY <1>1, <1>4, <2>4, <2>5, OutsideKeeps
<1> QED BY <1>5, <1>6, <1>7, <1>8

\* The one who works.
LEMMA InsideKeeps ==
    ASSUME RegistryInv, NEW r \in Requesters, Enter(r) \/ Inside(r)
    PROVE  RegistryInv'
<1> DEFINE Others == \A s \in Requesters \ {r} : task'[s] = task[s] /\ ~Works(task, s)
           Went(step) == /\ LockOK(task', lock) /\ task'[r].step = step
                         /\ task'[r].kind = task[r].kind /\ task'[r].entry = task[r].entry
                         /\ Others
<1>1. LockOK(task, lock) /\ TablesAgree /\ LiveInTable /\ TasksAgree /\ task[r] \in Task
  BY DEF RegistryInv, LockOK
<1>2. \A step \in Steps \ {"idle", "waiting"} :
          Step(r, step) /\ (Works(task, r) \/ (task[r].step = "waiting" /\ ~Held(task[r].lock)))
              => Went(step)
  BY <1>1, Stepping
<1>3. /\ "inside" \in Steps \ {"idle", "waiting"} /\ "leaving" \in Steps \ {"idle", "waiting"}
      /\ "installing" \in Steps \ {"idle", "waiting"} /\ "creating" \in Steps \ {"idle", "waiting"}
      /\ "closing" \in Steps \ {"idle", "waiting"}
  BY DEF Steps
<1>4. TakeScope(r) /\ Works(task, r) => Went("closing") /\ task'[r].closes = scope.supervisor
  <2> SUFFICES ASSUME TakeScope(r), Works(task, r)
               PROVE  Went("closing") /\ task'[r].closes = scope.supervisor
    OBVIOUS
  <2> DEFINE new == [task[r] EXCEPT !.step = "closing", !.closes = scope.supervisor]
  <2>1. scope.supervisor \in Nat
    BY <1>1 DEF TablesAgree
  <2>2. task' = [task EXCEPT ![r] = new]
    BY <1>1 DEF TakeScope, LockOK
  <2>3. new = [task[r] EXCEPT !.step = "closing", !.closes = scope.supervisor]
    OBVIOUS
  <2> HIDE DEF new
  <2> QED BY <1>1, <1>3, <2>1, <2>2, <2>3, Working
<1>5. ASSUME NEW step \in {"inside", "leaving"}, Went(step), task[r].step \notin {"closing", "idle"},
             UNCHANGED <<entry, scope, live, made, lock>>
      PROVE  RegistryInv'
  <2>1. TablesAgree'
    BY <1>1, <1>5 DEF TablesAgree
  <2>2. LiveInTable'
    BY <1>1, <1>5 DEF LiveInTable, Works
  <2>3. TasksAgree'
    BY <1>1, <1>5 DEF TasksAgree, Works
  <2> QED BY <1>5, <2>1, <2>2, <2>3 DEF RegistryInv
<1>6. CASE Enter(r)
  <2>1. task[r].step = "waiting" /\ Step(r, "inside") /\ ~Held(task[r].lock)
        /\ UNCHANGED <<entry, scope, live, made, lock>>
    BY <1>6 DEF Enter, Step
  <2>2. Went("inside")
    BY <1>2, <1>3, <2>1
  <2> QED BY <1>5, <2>1, <2>2
<1>7. CASE BeginRegister(r)
  <2>1. task[r].step = "inside" /\ task[r].kind = "register" /\ Works(task, r)
        /\ UNCHANGED <<entry, scope, live, made, lock, platform>>
    BY <1>7 DEF BeginRegister, Works, EntriesUnchanged
  <2>2. CASE Step(r, "leaving")
    <3>1. Went("leaving")
      BY <1>2, <1>3, <2>1, <2>2
    <3> QED BY <1>5, <2>1, <3>1
  <2>3. CASE ~platform /\ Step(r, "installing")
    <3>1. Went("installing")
      BY <1>2, <1>3, <2>1, <2>3
    <3>2. TablesAgree'
      BY <1>1, <2>1 DEF TablesAgree
    <3>3. LiveInTable'
      BY <1>1, <2>1, <3>1 DEF LiveInTable, Works
    <3>4. TasksAgree'
      BY <1>1, <2>1, <2>3, <3>1 DEF TasksAgree, Works
    <3> QED BY <3>1, <3>2, <3>3, <3>4, <2>1 DEF RegistryInv
  <2> QED BY <1>7, <2>2, <2>3 DEF BeginRegister, OwnedByPlatform
<1>8. CASE BeginInstall(r)
  <2>1. task[r].step = "inside" /\ task[r].kind = "install" /\ Works(task, r)
        /\ UNCHANGED <<entry, scope, live, made, lock>>
    BY <1>8 DEF BeginInstall, Works, EntriesUnchanged
  <2>2. CASE Step(r, "leaving")
    <3>1. Went("leaving")
      BY <1>2, <1>3, <2>1, <2>2
    <3> QED BY <1>5, <2>1, <3>1
  <2>3. CASE Step(r, "installing")
    <3>1. Went("installing")
      BY <1>2, <1>3, <2>1, <2>3
    <3>2. TablesAgree'
      BY <1>1, <2>1 DEF TablesAgree
    <3>3. LiveInTable'
      BY <1>1, <2>1, <3>1 DEF LiveInTable, Works
    <3>4. TasksAgree'
      BY <1>1, <2>1, <3>1 DEF TasksAgree, Works
    <3> QED BY <3>1, <3>2, <3>3, <3>4, <2>1 DEF RegistryInv
  <2> QED BY <1>8, <2>2, <2>3 DEF BeginInstall
<1>9. ASSUME TakeScope(r), Works(task, r), task[r].step # "closing",
             task[r].kind \in {"register", "install", "remove", "removePlatform"},
             task[r].kind # "install" => ~platform',
             task[r].kind \in {"register", "install"} => task[r].entry \in Entries,
             UNCHANGED <<entry, lock>>
      PROVE  RegistryInv'
  <2>1. Went("closing") /\ task'[r].closes = scope.supervisor
    BY <1>4, <1>9
  <2>2. scope' = NoScope /\ UNCHANGED <<live, made>>
    BY <1>9 DEF TakeScope
  <2>3. TablesAgree'
    BY <1>1, <1>9, <2>2 DEF TablesAgree, NoScope
  <2>4. live = Only(scope.supervisor)
    BY <1>1, <1>9, <2>1 DEF LiveInTable, Works
  <2>5. LiveInTable'
    BY <2>1 DEF LiveInTable
  <2>6. TasksAgree'
    BY <1>1, <1>9, <2>1, <2>2, <2>4 DEF TasksAgree, Works
  <2> QED BY <2>1, <2>3, <2>5, <2>6, <1>9 DEF RegistryInv
<1>10. CASE BeginRemove(r)
  <2>1. task[r].step = "inside" /\ task[r].kind = "remove" /\ Works(task, r)
        /\ UNCHANGED <<entry, lock, platform>>
    BY <1>10 DEF BeginRemove, Works, EntriesUnchanged
  <2>2. CASE Step(r, "leaving") /\ UNCHANGED <<scope, live, made>>
    <3>1. Went("leaving")
      BY <1>2, <1>3, <2>1, <2>2
    <3> QED BY <1>5, <2>1, <2>2, <3>1
  <2>3. CASE ~platform /\ TakeScope(r)
    BY <1>9, <2>1, <2>3
  <2> QED BY <1>10, <2>2, <2>3 DEF BeginRemove, OwnedByPlatform
<1>11. CASE BeginRemovePlatform(r)
  <2>1. /\ task[r].step = "inside" /\ task[r].kind = "removePlatform" /\ Works(task, r)
        /\ UNCHANGED <<entry, lock>> /\ TakeScope(r)
    BY <1>11 DEF BeginRemovePlatform, Works, EntriesUnchanged
  <2>2. ~platform'
    BY <1>11 DEF BeginRemovePlatform
  <2> QED BY <1>9, <2>1, <2>2
<1>12. CASE BeginInstallEntry(r)
  <2>1. /\ task[r].step = "installing" /\ Works(task, r) /\ TakeScope(r)
        /\ UNCHANGED <<entry, lock, platform>>
    BY <1>12 DEF BeginInstallEntry, Works, EntriesUnchanged
  <2>2. task[r].kind \in {"register", "install"} /\ task[r].entry \in Entries
    BY <1>1, <2>1 DEF TasksAgree
  <2>3. task[r].kind # "install" => ~platform'
    BY <1>1, <2>1, <2>2 DEF TasksAgree
  <2> QED BY <1>9, <2>1, <2>2, <2>3
<1>13. CASE ReplaceEntry(r)
  <2>1. /\ task[r].step = "closing" /\ Works(task, r) /\ live' = live \ {task[r].closes}
        /\ entry' = IF Removal(r) THEN None ELSE task[r].entry
        /\ Step(r, IF Removal(r) THEN "leaving" ELSE "creating")
        /\ UNCHANGED <<scope, made, platform, lock>>
    BY <1>13 DEF ReplaceEntry, Works, CloseOld
  <2>2. scope = NoScope /\ live' = {}
    BY <1>1, <2>1 DEF TasksAgree, Only
  <2>3. CASE Removal(r)
    <3>1. Went("leaving") /\ entry' = None
      BY <1>2, <1>3, <2>1, <2>3
    <3>2. TablesAgree'
      BY <1>1, <2>1, <2>2, <3>1 DEF TablesAgree
    <3>3. LiveInTable'
      BY <2>1, <2>2 DEF LiveInTable, NoScope, Only
    <3>4. TasksAgree'
      BY <1>1, <2>1, <2>3, <3>1 DEF TasksAgree, Works, Removal
    <3> QED BY <2>1, <3>1, <3>2, <3>3, <3>4 DEF RegistryInv
  <2>4. CASE ~Removal(r)
    <3>1. task[r].kind \in Kinds
      BY <1>1 DEF Task
    <3>2. task[r].kind \in {"register", "install"}
      BY <1>1, <2>1, <2>4, <3>1 DEF TasksAgree, Removal, Kinds
    <3>3. task[r].entry \in Entries /\ Step(r, "creating")
      BY <1>1, <2>1, <2>4, <3>2 DEF TasksAgree
    <3>4. Went("creating") /\ entry' \in Entries
      BY <1>2, <1>3, <2>1, <2>4, <3>3
    <3>5. TablesAgree'
      BY <1>1, <2>1, <2>2, <3>4 DEF TablesAgree
    <3>6. LiveInTable'
      BY <2>1, <2>2 DEF LiveInTable, NoScope, Only
    <3>7. TasksAgree'
      BY <1>1, <2>1, <2>2, <3>2, <3>4 DEF TasksAgree, Works
    <3> QED BY <2>1, <3>4, <3>5, <3>6, <3>7 DEF RegistryInv
  <2> QED BY <2>3, <2>4
<1>14. CASE Create(r)
  <2>1. /\ task[r].step = "creating" /\ Works(task, r) /\ Step(r, "leaving")
        /\ made' = made + 1 /\ live' = live \cup {made + 1}
        /\ scope' = [entry |-> entry, supervisor |-> made + 1]
        /\ UNCHANGED <<entry, platform, lock>>
    BY <1>14 DEF Create, Works, EntriesUnchanged
  <2>2. live = {} /\ entry \in Entries /\ made \in Nat
    BY <1>1, <2>1 DEF TasksAgree, TablesAgree
  <2>3. Went("leaving")
    BY <1>2, <1>3, <2>1
  <2>4. TablesAgree'
    BY <2>1, <2>2 DEF TablesAgree
  <2>5. LiveInTable'
    BY <2>1, <2>2 DEF LiveInTable, Only
  <2>6. TasksAgree'
    BY <1>1, <2>1, <2>3 DEF TasksAgree, Works
  <2> QED BY <2>1, <2>3, <2>4, <2>5, <2>6 DEF RegistryInv
<1>15. CASE BeginAcquire(r)
  <2>1. /\ task[r].step = "inside" /\ task[r].kind = "acquire" /\ Works(task, r)
        /\ UNCHANGED <<entry, scope, live, made, platform, lock>>
    BY <1>15 DEF BeginAcquire, Works, EntriesUnchanged
  <2>2. CASE Step(r, "leaving")
    <3>1. Went("leaving")
      BY <1>2, <1>3, <2>1, <2>2
    <3> QED BY <1>5, <2>1, <3>1
  <2>3. CASE entry # None /\ scope.entry # entry /\ Step(r, "creating")
    <3>1. Went("creating")
      BY <1>2, <1>3, <2>1, <2>3
    <3>2. scope = NoScope /\ entry \in Entries
      BY <1>1, <2>3 DEF TablesAgree
    <3>3. live = Only(scope.supervisor)
      BY <1>1, <2>1, <3>1 DEF LiveInTable, Works
    <3>4. live = {}
      BY <3>2, <3>3 DEF Only, NoScope
    <3>5. TablesAgree'
      BY <1>1, <2>1 DEF TablesAgree
    <3>6. LiveInTable'
      BY <2>1, <3>3 DEF LiveInTable
    <3>7. TasksAgree'
      BY <1>1, <2>1, <3>1, <3>2, <3>4 DEF TasksAgree, Works
    <3> QED BY <2>1, <3>1, <3>5, <3>6, <3>7 DEF RegistryInv
  <2> QED BY <1>15, <2>2, <2>3 DEF BeginAcquire
<1> QED BY <1>6, <1>7, <1>8, <1>10, <1>11, <1>12, <1>13, <1>14, <1>15 DEF Inside

LEMMA RegistryStep == RegistryInv /\ [RegistryNext]_registryVars => RegistryInv'
<1> SUFFICES ASSUME RegistryInv, [RegistryNext]_registryVars PROVE RegistryInv'
  OBVIOUS
<1>1. /\ "user" \in Requesters /\ "query" \in Requesters /\ "platform" \in Requesters
      /\ {"register", "remove", "acquire", "install", "removePlatform"} \subseteq Kinds
  BY DEF Requesters, Kinds
<1>2. ASSUME NEW e \in Entries, Request("user", "register", e) PROVE RegistryInv'
  BY <1>1, <1>2, RequestKeeps
<1>3. CASE RemoveEnvironment
  BY <1>1, <1>3, RequestKeeps DEF RemoveEnvironment
<1>4. CASE Query
  BY <1>1, <1>4, RequestKeeps DEF Query
<1>5. CASE Request("platform", "removePlatform", None)
  BY <1>1, <1>5, RequestKeeps
<1>6. ASSUME NEW e \in Entries, Request("platform", "install", e) PROVE RegistryInv'
  BY <1>1, <1>6, RequestKeeps
<1>7. CASE Watch
  BY <1>7, WatchKeeps
<1>8. ASSUME NEW r \in Requesters, Enter(r) \/ Inside(r) PROVE RegistryInv'
  BY <1>8, InsideKeeps
<1>9. ASSUME NEW r \in Requesters, Leave(r) PROVE RegistryInv'
  BY <1>9, LeaveKeeps
<1>10. CASE UNCHANGED registryVars
  <2>1. UNCHANGED <<entry, scope, live, made, platform, task, lock>>
    BY <1>10 DEF registryVars
  <2> QED BY <2>1 DEF RegistryInv, TablesAgree, LiveInTable, TasksAgree
<1> QED BY <1>2, <1>3, <1>4, <1>5, <1>6, <1>7, <1>8, <1>9, <1>10
        DEF RegistryNext, Requested, Register, Reconcile, Work

LEMMA RegistryInvariant == RegistrySpec => []RegistryInv
<1> QED BY InitRegistry, RegistryStep, PTL DEF RegistrySpec

---------------------------------------------------------------------------
(* The registry's types: the invariant has those of the tasks, the lock and    *)
(* the tables; what is left is what has been made and what the follower sees.  *)

MadeBefore ==
    /\ scope.supervisor <= made /\ live \subseteq 1..made
    /\ \A r \in Requesters : task[r].closes <= made

FollowerTyped ==
    emissions \in Seq(Entries \cup {None}) /\ seen \in Entries \cup {None} /\ following \in Nat

FlagsTyped == platform \in BOOLEAN /\ persisted \in BOOLEAN /\ repeated \in BOOLEAN

LEMMA MadeBeforeKept ==
    ASSUME RegistryInv, RegistryInv', MadeBefore, [RegistryNext]_registryVars
    PROVE  MadeBefore'
<1>1. /\ task \in [Requesters -> Task] /\ made \in Nat /\ scope.supervisor \in Nat
      /\ NoScope.supervisor = 0
      /\ \A r \in Requesters : task[r] \in Task /\ task[r].closes \in Nat
  BY DEF RegistryInv, LockOK, TablesAgree, NoScope, Task
<1>2. /\ NoTask.closes = 0 /\ \A kind, id, e : WaitingTask(kind, id, e).closes = 0
      /\ 0 <= made
  BY <1>1 DEF NoTask, WaitingTask
<1>3. ASSUME NEW r \in Requesters, NEW kind, NEW e, Request(r, kind, e) PROVE MadeBefore'
  <2>1. UNCHANGED <<scope, live, made>> /\ \E id : task' = [task EXCEPT ![r] = WaitingTask(kind, id, e)]
    BY <1>3 DEF Request, Join
  <2> QED BY <1>1, <1>2, <2>1 DEF MadeBefore
<1>4. CASE Watch
  <2>1. /\ UNCHANGED <<scope, live, made>> /\ "follower" \in Requesters
        /\ \E t \in {task, [task EXCEPT !["follower"] = NoTask]} :
             \/ task' = t
             \/ \E id : task' = [t EXCEPT !["follower"] = WaitingTask("acquire", id, None)]
    BY <1>4 DEF Watch, Requesters
  <2> QED BY <1>1, <1>2, <2>1 DEF MadeBefore
<1>5. ASSUME NEW r \in Requesters, Leave(r) PROVE MadeBefore'
  BY <1>1, <1>2, <1>5 DEF Leave, MadeBefore
<1>6. ASSUME NEW r \in Requesters, NEW step, Step(r, step)
      PROVE  \A s \in Requesters : task'[s].closes = task[s].closes
  BY <1>1, <1>6 DEF Step, Task
<1>7. ASSUME NEW r \in Requesters, TakeScope(r), made' = made PROVE MadeBefore'
  <2>1. \A s \in Requesters : task'[s].closes \in {task[s].closes, scope.supervisor}
    BY <1>1, <1>7 DEF TakeScope, Task
  <2> QED BY <1>1, <1>2, <1>7, <2>1 DEF TakeScope, MadeBefore
<1>8. ASSUME NEW r \in Requesters, Create(r) PROVE MadeBefore'
  <2>1. \A s \in Requesters : task'[s].closes = task[s].closes
    BY <1>6, <1>8 DEF Create
  <2>2. made' = made + 1 /\ live' = live \cup {made + 1} /\ scope'.supervisor = made + 1
    BY <1>8 DEF Create
  <2> QED BY <1>1, <2>1, <2>2 DEF MadeBefore
<1>9. ASSUME NEW r \in Requesters, NEW step, Step(r, step), UNCHANGED <<scope, made>>,
             live' \subseteq live
      PROVE  MadeBefore'
  <2>1. \A s \in Requesters : task'[s].closes = task[s].closes
    BY <1>6, <1>9
  <2> QED BY <1>9, <2>1 DEF MadeBefore
<1>10. ASSUME NEW r \in Requesters, Enter(r) PROVE MadeBefore'
  BY <1>9, <1>10 DEF Enter, Step
<1>11. ASSUME NEW r \in Requesters, Inside(r) PROVE MadeBefore'
  <2>1. CASE BeginRegister(r)
    BY <1>9, <2>1 DEF BeginRegister
  <2>2. CASE BeginInstall(r)
    BY <1>9, <2>2 DEF BeginInstall
  <2>3. CASE BeginRemove(r)
    BY <1>7, <1>9, <2>3 DEF BeginRemove, TakeScope
  <2>4. CASE BeginRemovePlatform(r)
    BY <1>7, <2>4 DEF BeginRemovePlatform, TakeScope
  <2>5. CASE BeginInstallEntry(r)
    BY <1>7, <2>5 DEF BeginInstallEntry, TakeScope
  <2>6. CASE ReplaceEntry(r)
    BY <1>9, <2>6 DEF ReplaceEntry, CloseOld
  <2>7. CASE BeginAcquire(r)
    BY <1>9, <2>7 DEF BeginAcquire
  <2> QED BY <1>8, <1>11, <2>1, <2>2, <2>3, <2>4, <2>5, <2>6, <2>7 DEF Inside
<1>12. CASE UNCHANGED registryVars
  BY <1>12 DEF registryVars, MadeBefore
<1> QED BY <1>3, <1>4, <1>5, <1>10, <1>11, <1>12
        DEF RegistryNext, Requested, Register, RemoveEnvironment, Query, Reconcile, Work, Requesters

LEMMA FollowerTypedKept ==
    ASSUME RegistryInv, RegistryInv', FollowerTyped, [RegistryNext]_registryVars
    PROVE  FollowerTyped'
<1>1. /\ entry \in Entries \cup {None} /\ entry' \in Entries \cup {None}
      /\ made \in Nat /\ scope.supervisor \in Nat
  BY DEF RegistryInv, TablesAgree
<1>2. CASE Watch
  <2>1. /\ emissions # <<>> /\ emissions' = Tail(emissions) /\ emissions \in Seq(Entries \cup {None})
        /\ seen' \in {seen, Head(emissions)} /\ following' \in {following, 0}
    BY <1>2 DEF Watch, FollowerTyped
  <2>2. Head(emissions) \in Entries \cup {None} /\ emissions' \in Seq(Entries \cup {None})
    BY <2>1
  <2> QED BY <2>1, <2>2 DEF FollowerTyped
<1>3. ASSUME NEW r \in Requesters, ReplaceEntry(r) PROVE FollowerTyped'
  <2>1. emissions' = Append(emissions, entry') /\ UNCHANGED <<seen, following>>
    BY <1>3 DEF ReplaceEntry, Emitted, FollowerUnchanged
  <2> QED BY <1>1, <2>1 DEF FollowerTyped
<1>4. ASSUME NEW r \in Requesters, Create(r) \/ BeginAcquire(r) PROVE FollowerTyped'
  <2>1. /\ UNCHANGED <<emissions, seen>>
        /\ following' \in {following, made + 1, scope.supervisor}
    BY <1>4 DEF Create, BeginAcquire, EntriesUnchanged
  <2> QED BY <1>1, <2>1 DEF FollowerTyped
<1>5. CASE UNCHANGED <<emissions, seen, following>>
  BY <1>5 DEF FollowerTyped
<1>6. ASSUME NEW r \in Requesters, Inside(r) PROVE FollowerTyped'
  BY <1>3, <1>4, <1>5, <1>6
     DEF Inside, BeginRegister, BeginInstall, BeginRemove, BeginRemovePlatform,
         BeginInstallEntry, EntriesUnchanged, FollowerUnchanged
<1> QED BY <1>2, <1>5, <1>6
        DEF RegistryNext, Requested, Register, RemoveEnvironment, Query, Reconcile, Request, Work,
            Enter, Leave, registryVars

LEMMA FlagsTypedKept ==
    ASSUME FlagsTyped, [RegistryNext]_registryVars
    PROVE  FlagsTyped'
<1>1. CASE UNCHANGED <<platform, persisted, repeated>>
  BY <1>1 DEF FlagsTyped
<1>2. ASSUME NEW r \in Requesters, Inside(r) PROVE FlagsTyped'
  <2>1. platform' = platform \/ platform' = TRUE \/ platform' = FALSE
    BY <1>2, Zenon DEF Inside, BeginRegister, BeginInstall, BeginRemove, BeginRemovePlatform,
                BeginInstallEntry, ReplaceEntry, Create, BeginAcquire
  <2>2. persisted' = persisted \/ persisted' = TRUE \/ persisted' = FALSE
    BY <1>2, Zenon DEF Inside, BeginRegister, BeginInstall, BeginRemove, BeginRemovePlatform,
                BeginInstallEntry, ReplaceEntry, Create, BeginAcquire
  <2>3. repeated' = repeated \/ repeated' \in BOOLEAN
    BY <1>2, Zenon DEF Inside, BeginRegister, BeginInstall, BeginRemove, BeginRemovePlatform,
                BeginInstallEntry, ReplaceEntry, Create, BeginAcquire, EntriesUnchanged
  <2> QED BY <2>1, <2>2, <2>3, Zenon DEF FlagsTyped
<1> QED BY <1>1, <1>2
        DEF RegistryNext, Requested, Register, RemoveEnvironment, Query, Reconcile, Request, Work,
            Enter, Leave, Watch, registryVars

LEMMA RequestsCounted ==
    ASSUME requests \in 0..MaxRequests, [RegistryNext]_registryVars
    PROVE  requests' \in 0..MaxRequests
<1>1. requests' = requests \/ (requests < MaxRequests /\ requests' = requests + 1)
  BY DEF RegistryNext, Requested, Register, RemoveEnvironment, Query, Reconcile, Request, Work,
         Enter, Leave, Watch, Inside, BeginRegister, BeginInstall, BeginRemove,
         BeginRemovePlatform, BeginInstallEntry, ReplaceEntry, Create, BeginAcquire, registryVars
<1> QED BY <1>1, RegistryAssumption

\* Every variable of the registry keeps its type; the lock has no more users
\* than there are requesters, and nobody closes a supervisor that was not made.
THEOREM RegistryTypeCorrect == RegistrySpec => []RegistryTypeOK
<1> DEFINE Rest == MadeBefore /\ FollowerTyped /\ FlagsTyped /\ requests \in 0..MaxRequests
<1>1. RegistryInit => Rest
  <2> SUFFICES ASSUME RegistryInit PROVE Rest
    OBVIOUS
  <2>1. MadeBefore
    BY DEF RegistryInit, MadeBefore, NoScope, NoTask
  <2>2. FollowerTyped
    BY DEF RegistryInit, FollowerTyped
  <2>3. FlagsTyped
    BY DEF RegistryInit, FlagsTyped
  <2> QED BY <2>1, <2>2, <2>3, RegistryAssumption DEF RegistryInit
<1>2. RegistryInv /\ RegistryInv' /\ Rest /\ [RegistryNext]_registryVars => Rest'
  BY MadeBeforeKept, FollowerTypedKept, FlagsTypedKept, RequestsCounted
<1>3. RegistryInv /\ Rest => RegistryTypeOK
  <2> SUFFICES ASSUME RegistryInv, Rest PROVE RegistryTypeOK
    OBVIOUS
  <2>1. Cardinality(Users(task)) \in 0..Cardinality(Requesters)
    <3>1. IsFiniteSet({}) /\ \A S, x : IsFiniteSet(S) => IsFiniteSet(S \cup {x})
      BY FS_EmptySet, FS_AddElement
    <3>2. Requesters = ((({} \cup {"platform"}) \cup {"user"}) \cup {"query"}) \cup {"follower"}
      BY DEF Requesters
    <3>3. IsFiniteSet(Requesters) /\ Users(task) \subseteq Requesters
      BY <3>1, <3>2 DEF Users
    <3>4. Cardinality(Users(task)) <= Cardinality(Requesters) /\ Cardinality(Requesters) \in Nat
      BY <3>3, FS_Subset, FS_CardinalityType
    <3> QED BY <3>4, UsersFinite
  <2>2. lock \in [current : [id : Nat, users : 0..Cardinality(Requesters)], made : Nat]
    BY <2>1 DEF RegistryInv, LockOK
  <2>3. task \in [Requesters -> [kind : Kinds, step : Steps, lock : Nat,
                                 entry : Entries \cup {None}, closes : 0..made]]
    <3>1. made \in Nat /\ task \in [Requesters -> Task]
      BY DEF RegistryInv, LockOK, TablesAgree
    <3> QED BY <3>1 DEF Task, MadeBefore
  <2>4. {platform, persisted, repeated} \subseteq BOOLEAN
    BY Zenon DEF FlagsTyped
  <2> QED BY <2>2, <2>3, <2>4 DEF RegistryTypeOK, RegistryInv, TablesAgree, MadeBefore, FollowerTyped
<1> HIDE DEF Rest
<1> QED BY <1>1, <1>2, <1>3, RegistryInvariant, PTL DEF RegistrySpec

---------------------------------------------------------------------------
\* There is never a supervisor beside the one in the table, whoever registers,
\* removes, reconciles and asks for it at the same time (registry.ts 231-266,
\* 377-390).
THEOREM OneSupervisor == RegistrySpec => []NoStraySupervisor
<1>1. RegistryInv => NoStraySupervisor
  <2> SUFFICES ASSUME RegistryInv PROVE NoStraySupervisor
    OBVIOUS
  <2>1. \A n : Cardinality(Only(n)) <= 1
    <3>1. Cardinality({}) = 0 /\ \A n : Cardinality({n}) = 1
      BY FS_EmptySet, FS_Singleton
    <3> QED BY <3>1 DEF Only
  <2>2. \E n : live = Only(n)
    BY DEF RegistryInv, LiveInTable, TasksAgree
  <2>3. Cardinality(live) <= 1
    BY <2>1, <2>2
  <2>4. ASSUME Busy = {}
        PROVE  /\ live = (IF scope = NoScope THEN {} ELSE {scope.supervisor})
               /\ scope.entry \in {None, entry}
    BY <2>4 DEF RegistryInv, LiveInTable, TablesAgree, Busy, Only, NoScope
  <2> QED BY <2>3, <2>4 DEF NoStraySupervisor
<1> QED BY <1>1, RegistryInvariant, PTL

\* What the platform reports keeps its entry (registry.ts 400-405, 554-559).
THEOREM ReportedEntryStays == RegistrySpec => PlatformKeepsItsEntry
<1>1. ASSUME RegistryInv, [RegistryNext]_registryVars, platform, platform', entry' # entry
      PROVE  \E r \in Requesters : task[r].kind = "install" /\ task[r].step = "closing"
  <2>1. PICK r \in Requesters : ReplaceEntry(r)
    <3>1. \A r \in Requesters : Inside(r) => ReplaceEntry(r)
      BY <1>1 DEF Inside, BeginRegister, BeginInstall, BeginRemove, BeginRemovePlatform,
                  BeginInstallEntry, Create, BeginAcquire, EntriesUnchanged
    <3>2. \A r \in Requesters : ~Enter(r) /\ ~Leave(r)
      BY <1>1 DEF Enter, Leave
    <3>3. ~Watch /\ \A r, kind, e : ~Request(r, kind, e)
      BY <1>1 DEF Watch, Request
    <3>4. ~UNCHANGED registryVars
      BY <1>1 DEF registryVars
    <3> QED BY <1>1, <3>1, <3>2, <3>3, <3>4
            DEF RegistryNext, Requested, Register, RemoveEnvironment, Query, Reconcile, Work
  <2>2. task[r].step = "closing"
    BY <2>1 DEF ReplaceEntry
  <2>3. task[r].kind \in Kinds
    BY <1>1 DEF RegistryInv, LockOK, Task
  <2>4. task[r].kind = "install"
    BY <1>1, <2>2, <2>3 DEF RegistryInv, TasksAgree, Kinds
  <2> QED BY <2>2, <2>4
<1> QED BY <1>1, RegistryInvariant, PTL DEF RegistrySpec, PlatformKeepsItsEntry
=============================================================================
