------------------------ MODULE ConnectionSupervisor ------------------------
(***************************************************************************)
(* The supervisor that keeps a client's connection to one environment         *)
(* (client-runtime, connection/supervisor.ts).  What is wanted and what the   *)
(* network allows is an intent; every change of it, a request to retry and    *)
(* every wake-up is also a signal in a queue.  One fiber runs attempts: it     *)
(* takes signals while an attempt is being established, while a session is     *)
(* up, while a health check of it is under way, while it waits for the next    *)
(* attempt and while there is nothing to attempt.                             *)
(*                                                                         *)
(* Abstractions: a session is the generation it is published under.  Delays   *)
(* are steps that may be taken at any time, and whether a session was up for   *)
(* 30 seconds is left open.  An unknown network counts as online.  The two     *)
(* health checks differ only in their time-out.  Closing what an attempt has   *)
(* opened takes a step of its own, since it waits for sockets to close.        *)
(***************************************************************************)
EXTENDS Naturals, Sequences, FiniteSets, SequencesExt

CONSTANTS
    Rungs,            \* delays of the ladder (RETRY_DELAYS_MS has 4)
    MaxUser,          \* bound: requests and wake-ups
    MaxFaults,        \* bound: failures of attempts, sessions and health checks
    MaxSignals        \* bound: signals waiting

ASSUME SupervisorAssumption ==
    /\ Rungs \in Nat \ {0} /\ MaxUser \in Nat /\ MaxFaults \in Nat /\ MaxSignals \in Nat \ {0}

VARIABLES
    desired, network,         \* the intent
    signals,                  \* the queue
    resetRetryState,          \* a request to retry was made since the last round
    wakeProbeFailed,
    loop,                     \* where the fiber stands
    stage,                    \* what the driver has reported of the attempt
    outcome,                  \* of the attempt that is being closed
    failureCount, generation, latestFailure,
    state,                    \* what is shown
    session, prepared,        \* what is published to the other parts
    unwaited,                 \* bookkeeping: failures in a row without a wait
    user, faults              \* bounds

intentVars == <<desired, network, signals, resetRetryState>>
ladderVars == <<failureCount, generation, latestFailure>>
leaseVars  == <<session, prepared>>
vars == <<intentVars, wakeProbeFailed, loop, stage, outcome, ladderVars, state, leaseVars,
          unwaited, user, faults>>

NoSession == 0

Wakeups == {"application-active", "application-active-reconnect", "credentials-changed"}
Signals == {"ConnectRequested", "DisconnectRequested", "RetryRequested", "online", "offline"} \cup Wakeups

Stages == {"none", "preparing", "opening", "synchronizing"}
Outcome == [tag : {"Interrupted", "Failure", "Blocked"}, established : BOOLEAN,
            stable : BOOLEAN, resetRetry : BOOLEAN]
NoOutcome == [tag |-> "Interrupted", established |-> FALSE, stable |-> FALSE, resetRetry |-> FALSE]
Interrupted(reset) == [NoOutcome EXCEPT !.resetRetry = reset]

State == [phase : {"available", "offline", "connecting", "connected", "blocked", "backoff"},
          attempt : Nat, generation : Nat, failed : BOOLEAN, delay : 0..Rungs]
Shown(phase, attempt, number, failed) ==
    [phase |-> phase, attempt |-> attempt, generation |-> number, failed |-> failed, delay |-> 0]

Offline == network = "offline"

---------------------------------------------------------------------------
Init ==
    /\ desired \in BOOLEAN /\ network \in {"online", "offline"}
    /\ signals = <<>> /\ resetRetryState = FALSE /\ wakeProbeFailed = FALSE
    /\ loop = "top" /\ stage = "none" /\ outcome = NoOutcome
    /\ failureCount = 0 /\ generation = 0 /\ latestFailure = FALSE
    /\ state = IF ~desired THEN Shown("available", 0, 0, FALSE)
               ELSE IF Offline THEN Shown("offline", 0, 0, FALSE)
               ELSE Shown("connecting", 1, 0, FALSE)
    /\ session = NoSession /\ prepared = FALSE
    /\ unwaited = 0
    /\ user = 0 /\ faults = 0

---------------------------------------------------------------------------
(* Requests: each changes the intent, then leaves a signal.                   *)

LoopUnchanged == UNCHANGED <<wakeProbeFailed, loop, stage, outcome, ladderVars, state, leaseVars,
                             unwaited, faults>>

Signal(s) ==
    /\ Len(signals) < MaxSignals
    /\ user < MaxUser /\ user' = user + 1
    /\ signals' = Append(signals, s)
    /\ LoopUnchanged

Connect == Signal("ConnectRequested") /\ desired' = TRUE /\ UNCHANGED <<network, resetRetryState>>

Disconnect == Signal("DisconnectRequested") /\ desired' = FALSE /\ UNCHANGED <<network, resetRetryState>>

RetryNow == Signal("RetryRequested") /\ resetRetryState' = TRUE /\ UNCHANGED <<desired, network>>

\* The intent changes and the fiber is told of losses only.
NetworkLossesOnly ==
    /\ network' \in {"online", "offline"} \ {network}
    /\ IF network' = "offline" THEN Signal(network')
       ELSE user < MaxUser /\ user' = user + 1 /\ UNCHANGED signals /\ LoopUnchanged
    /\ UNCHANGED <<desired, resetRetryState>>

NetworkChanged ==
    /\ network' \in {"online", "offline"} \ {network}
    /\ Signal(network')
    /\ UNCHANGED <<desired, resetRetryState>>

Wakeup == \E reason \in Wakeups : Signal(reason) /\ UNCHANGED <<desired, network, resetRetryState>>

---------------------------------------------------------------------------
(* The loop.                                                                *)

Fault == faults < MaxFaults /\ faults' = faults + 1
NoRequest == UNCHANGED <<desired, network, resetRetryState, user>>

\* isApplicationActiveWakeup.
ApplicationActive(s) == s \in {"application-active", "application-active-reconnect"}

\* The marker of a failed health check stays for the next failure.
KeepMarker == wakeProbeFailed
\* Ref.getAndSet: consumed in every round.
ConsumeMarker == FALSE

\* A round begins: nothing is wanted, nothing is possible, or an attempt runs.
Round ==
    /\ loop = "top"
    /\ resetRetryState' = FALSE
    /\ LET count == IF resetRetryState THEN 0 ELSE failureCount
           failure == latestFailure /\ ~resetRetryState
       IN  \/ /\ ~desired
              /\ loop' = "available"
              /\ failureCount' = 0 /\ latestFailure' = FALSE
              /\ session' = NoSession /\ prepared' = FALSE
              /\ state' = Shown("available", 0, generation, FALSE)
              /\ UNCHANGED stage
           \/ /\ desired /\ Offline
              /\ loop' = "offline"
              /\ failureCount' = count /\ latestFailure' = failure
              /\ session' = NoSession /\ prepared' = FALSE
              /\ state' = Shown("offline", count + 1, generation, failure)
              /\ UNCHANGED stage
           \/ /\ desired /\ ~Offline
              /\ loop' = "establishing" /\ stage' = "none"
              /\ failureCount' = count /\ latestFailure' = failure
              /\ prepared' = FALSE
              /\ UNCHANGED <<session, state>>
    /\ UNCHANGED <<desired, network, signals, wakeProbeFailed, outcome, generation, unwaited, user, faults>>

\* waitForSignal and waitForRetrySignal: the first signal ends the wait, and the
\* return of the user resets the ladder.
TakeWhileWaiting ==
    /\ loop \in {"available", "offline", "blocked", "backoff"} /\ signals # <<>>
    /\ signals' = Tail(signals)
    /\ loop' = "top"
    /\ failureCount' = IF ApplicationActive(Head(signals)) THEN 0 ELSE failureCount
    /\ UNCHANGED <<desired, network, resetRetryState, wakeProbeFailed, stage, outcome, generation,
                   latestFailure, state, leaseVars, unwaited, user, faults>>

BackoffEnds ==
    /\ loop = "backoff" /\ loop' = "top"
    /\ UNCHANGED <<intentVars, wakeProbeFailed, stage, outcome, ladderVars, state, leaseVars,
                   unwaited, user, faults>>

\* runAttempt returns: what was published is withdrawn, then its scope closes.
EndAttempt(result) ==
    /\ loop' = "closing" /\ outcome' = result
    /\ session' = NoSession /\ prepared' = FALSE

\* reportProgress of the driver.
Progress ==
    /\ loop = "establishing" /\ stage # "synchronizing"
    /\ stage' = CASE stage = "none" -> "preparing" [] stage = "preparing" -> "opening"
                  [] OTHER -> "synchronizing"
    /\ prepared' = (stage' # "preparing")
    /\ state' = Shown("connecting", failureCount + 1, generation + 1, latestFailure)
    /\ UNCHANGED <<intentVars, wakeProbeFailed, loop, outcome, ladderVars, session, unwaited, user, faults>>

\* Signals that end an attempt in favour of the next round.
DropsRetry(s) == s \in {"DisconnectRequested", "offline"}
EndsAttempt(s) == s \in {"DisconnectRequested", "RetryRequested", "offline"}

\* waitForEstablishmentInterrupt.
TakeWhileEstablishing ==
    /\ loop = "establishing" /\ signals # <<>>
    /\ signals' = Tail(signals)
    /\ IF EndsAttempt(Head(signals)) \/ Head(signals) = "application-active-reconnect"
       THEN EndAttempt(Interrupted(~EndsAttempt(Head(signals))))
       ELSE UNCHANGED <<loop, outcome, leaseVars>>
    /\ NoRequest
    /\ UNCHANGED <<wakeProbeFailed, stage, ladderVars, state, unwaited, faults>>

\* The driver fails, or 15 seconds are over.
AttemptFails ==
    /\ loop = "establishing" /\ Fault
    /\ \E tag \in {"Failure", "Blocked"} : EndAttempt([NoOutcome EXCEPT !.tag = tag])
    /\ UNCHANGED <<intentVars, wakeProbeFailed, stage, ladderVars, state, unwaited, user>>

\* The driver's session is ready; the intent is read again.
Established ==
    /\ loop = "establishing" /\ stage = "synchronizing"
    /\ IF ~desired \/ Offline
       THEN EndAttempt(Interrupted(FALSE)) /\ UNCHANGED <<state, unwaited>>
       ELSE /\ loop' = "connected"
            /\ session' = generation + 1 /\ prepared' = TRUE
            /\ state' = Shown("connected", failureCount + 1, generation + 1, FALSE)
            /\ unwaited' = 0
            /\ UNCHANGED outcome
    /\ UNCHANGED <<intentVars, wakeProbeFailed, stage, ladderVars, user, faults>>

\* How a session's end is told from that of an attempt that never had one.
Up(result) == \E stable \in BOOLEAN : EndAttempt([result EXCEPT !.established = TRUE, !.stable = stable])

\* monitorConnectedLease takes a signal.
TakeWhileConnected ==
    /\ loop = "connected" /\ signals # <<>>
    /\ signals' = Tail(signals)
    /\ LET s == Head(signals)
       IN  \/ EndsAttempt(s) /\ Up(Interrupted(FALSE))
           \/ s = "application-active-reconnect" /\ Up(Interrupted(TRUE))
           \/ /\ s = "application-active"
              /\ loop' = "probing" /\ UNCHANGED <<outcome, leaseVars>>
           \/ /\ s \in {"ConnectRequested", "online", "credentials-changed"}
              /\ UNCHANGED <<loop, outcome, leaseVars>>
    /\ NoRequest
    /\ UNCHANGED <<wakeProbeFailed, stage, ladderVars, state, unwaited, faults>>

\* Only a reconnection interrupts a health check.
ProbeInterruptOnlyReconnect(s) == s = "application-active-reconnect"
\* What interrupts a health check.
ProbeInterrupt(s) == EndsAttempt(s) \/ s = "application-active-reconnect"

\* A signal beside a health check.
TakeWhileProbing ==
    /\ loop = "probing" /\ signals # <<>>
    /\ signals' = Tail(signals)
    /\ IF ProbeInterrupt(Head(signals))
       THEN Up(Interrupted(~EndsAttempt(Head(signals))))
       ELSE UNCHANGED <<loop, outcome, leaseVars>>
    /\ NoRequest
    /\ UNCHANGED <<wakeProbeFailed, stage, ladderVars, state, unwaited, faults>>

ProbeSucceeds ==
    /\ loop = "probing" /\ loop' = "connected"
    /\ UNCHANGED <<intentVars, wakeProbeFailed, stage, outcome, ladderVars, state, leaseVars,
                   unwaited, user, faults>>

ProbeFails ==
    /\ loop = "probing" /\ Fault
    /\ wakeProbeFailed' = TRUE
    /\ \E tag \in {"Failure", "Blocked"} : Up([NoOutcome EXCEPT !.tag = tag])
    /\ UNCHANGED <<intentVars, stage, ladderVars, state, unwaited, user>>

\* session.closed, beside a health check or not.
SessionCloses ==
    /\ loop \in {"connected", "probing"} /\ Fault
    /\ \E tag \in {"Failure", "Blocked"} : Up([NoOutcome EXCEPT !.tag = tag])
    /\ UNCHANGED <<intentVars, wakeProbeFailed, stage, ladderVars, state, unwaited, user>>

\* A number is used up by the session it was published with.
GenerationAfter(result) == IF result.established THEN generation + 1 ELSE generation

\* The rung of the ladder a failure waits on: the last one for all that follow.
Rung(count) == IF count < Rungs THEN count ELSE Rungs

\* The scope of the attempt is closed and its outcome is dealt with.
EndRound ==
    /\ loop = "closing"
    /\ LET number == GenerationAfter(outcome)
           count == IF outcome.established /\ outcome.stable THEN 0 ELSE failureCount
           attempt == failureCount + 1
       IN  /\ wakeProbeFailed' = ConsumeMarker
           /\ generation' = number
           /\ \/ /\ outcome.tag = "Interrupted"
                 /\ loop' = "top"
                 /\ failureCount' = IF outcome.resetRetry THEN 0 ELSE count
                 /\ latestFailure' = (latestFailure /\ ~(outcome.established /\ outcome.stable))
                 /\ UNCHANGED <<state, unwaited>>
              \/ /\ outcome.tag = "Blocked"
                 /\ loop' = "blocked"
                 /\ failureCount' = count /\ latestFailure' = TRUE
                 /\ state' = Shown("blocked", attempt, number, TRUE)
                 /\ unwaited' = 0
              \/ /\ outcome.tag = "Failure" /\ wakeProbeFailed
                 /\ loop' = "top"
                 /\ failureCount' = 0 /\ latestFailure' = TRUE
                 /\ state' = Shown("connecting", 1, number, TRUE)
                 /\ unwaited' = unwaited + 1
              \/ /\ outcome.tag = "Failure" /\ ~wakeProbeFailed
                 /\ loop' = "backoff"
                 /\ failureCount' = count + 1 /\ latestFailure' = TRUE
                 /\ state' = [Shown("backoff", attempt, number, TRUE) EXCEPT !.delay = Rung(count + 1)]
                 /\ unwaited' = 0
    /\ outcome' = NoOutcome /\ stage' = "none"
    /\ UNCHANGED <<intentVars, leaseVars, user, faults>>

---------------------------------------------------------------------------
Requests == Connect \/ Disconnect \/ RetryNow \/ NetworkChanged \/ Wakeup

TakeSignal == TakeWhileWaiting \/ TakeWhileEstablishing \/ TakeWhileConnected \/ TakeWhileProbing

Loop == Round \/ EndRound

Driver == Progress \/ Established \/ ProbeSucceeds

Failures == AttemptFails \/ ProbeFails \/ SessionCloses

Next == Requests \/ TakeSignal \/ Loop \/ Driver \/ BackoffEnds \/ Failures

Spec == Init /\ [][Next]_vars

\* Signals are taken, rounds end, the driver gets on unless it fails (it has 15
\* seconds), and a delay is over some time.
Fairness == WF_vars(TakeSignal) /\ WF_vars(Loop) /\ WF_vars(Driver) /\ WF_vars(BackoffEnds)
FairSpec == Spec /\ Fairness

---------------------------------------------------------------------------
TypeOK ==
    /\ desired \in BOOLEAN /\ network \in {"online", "offline"}
    /\ signals \in Seq(Signals) /\ Len(signals) <= MaxSignals
    /\ resetRetryState \in BOOLEAN /\ wakeProbeFailed \in BOOLEAN
    /\ loop \in {"top", "available", "offline", "establishing", "connected", "probing", "closing",
                 "blocked", "backoff"}
    /\ stage \in Stages /\ outcome \in Outcome
    /\ failureCount \in Nat /\ generation \in Nat /\ latestFailure \in BOOLEAN
    /\ state \in State
    /\ session \in Nat /\ prepared \in BOOLEAN
    /\ unwaited \in Nat /\ user \in 0..MaxUser /\ faults \in 0..MaxFaults

Waiting(s) == \E n \in 1..Len(signals) : signals[n] = s

\* A published session is the one that is shown, and it never outlives what is
\* wanted unnoticed: while it is not wanted, or the network is gone, the signal
\* that ends it still waits (supervisor.ts 265-366, 434-471).
NoSessionAgainstIntent ==
    session # NoSession =>
        /\ loop \in {"connected", "probing"} /\ prepared
        /\ state.phase = "connected" /\ state.generation = session
        /\ ~desired => Waiting("DisconnectRequested")
        /\ Offline => Waiting("offline")

\* A request to retry is never absorbed by something that goes on to wait: it
\* is still to be taken when the fiber waits (supervisor.ts 269-276, 500-510, 639-642).
RetryIsNotAbsorbed ==
    resetRetryState /\ loop \in {"available", "offline", "blocked", "backoff"} => Waiting("RetryRequested")

\* Of the failures in a row only that of a health check skips the delay: "Only
\* this first attempt skips the ladder; if it fails too, normal backoff resumes".
OnlyOneSkipsTheDelay == unwaited <= 1 /\ (loop = "establishing" => ~wakeProbeFailed)

\* Once a connection is wanted, the network is there and failures end, there is
\* a session, unless the last failure said that trying again is useless.
ConnectionComesBack ==
    <>[](desired /\ ~Offline) => <>[](session # NoSession \/ state.phase = "blocked")
=============================================================================
