------------------------ MODULE KeyedCoalescingWorker ------------------------
(***************************************************************************)
(* A worker that processes one value per key at a time and merges what comes  *)
(* in while it is busy (shared/KeyedCoalescingWorker.ts); the terminals use it *)
(* to write their histories.  One fiber takes keys from a queue; the table of  *)
(* latest values, queued and active keys is changed in transactions.           *)
(*                                                                         *)
(* Abstractions: a value is the set of the requests merged into it, so that    *)
(* a request that is lost or processed twice is told from one that is not.     *)
(***************************************************************************)
EXTENDS Naturals, Sequences, FiniteSets

CONSTANTS
    Keys,
    Inputs,           \* what is enqueued, each at most once
    KeyOf,            \* the key of a request
    MaxValueFailures  \* bound: failures of process

ASSUME WorkerAssumption == KeyOf \in [Inputs -> Keys] /\ MaxValueFailures \in Nat

VARIABLES
    keyQueue,         \* keys to be taken
    latestByKey,      \* merged values; {} where there is none
    queuedKeys, activeKeys,
    taken,            \* the key that was taken, and not yet looked up
    current,          \* what the worker processes
    enqueued, processed, failed,
    drained,          \* requests that a drainKey said were done
    valueFailures

workerVars ==
    <<keyQueue, latestByKey, queuedKeys, activeKeys, taken, current, enqueued, processed,
      failed, drained, valueFailures>>

NoKey == [tag |-> "none"]
Some(k) == [tag |-> "key", key |-> k]
Idle == [tag |-> "none"]
Item(k, v) == [tag |-> "item", key |-> k, value |-> v]

WorkerInit ==
    /\ keyQueue = <<>> /\ latestByKey = [k \in Keys |-> {}]
    /\ queuedKeys = {} /\ activeKeys = {}
    /\ taken = NoKey /\ current = Idle
    /\ enqueued = {} /\ processed = {} /\ failed = {} /\ drained = {}
    /\ valueFailures = 0

\* A value replaces the one that waits.
Replace(old, new) == new
Merge(old, new) == old \cup new

\* The key is known to the worker: it will look at the table again.
KnownIfQueued(k) == k \in queuedKeys
Known(k) == k \in queuedKeys \/ k \in activeKeys

Enqueue(r) ==
    /\ r \notin enqueued
    /\ enqueued' = enqueued \cup {r}
    /\ LET k == KeyOf[r]
       IN  /\ latestByKey' = [latestByKey EXCEPT ![k] = Merge(@, {r})]
           /\ IF Known(k) THEN UNCHANGED <<keyQueue, queuedKeys>>
              ELSE keyQueue' = Append(keyQueue, k) /\ queuedKeys' = queuedKeys \cup {k}
    /\ UNCHANGED <<activeKeys, taken, current, processed, failed, drained, valueFailures>>

\* Nothing came in for the key.
Absent(k) == latestByKey[k] = {}

TakeKey ==
    /\ taken = NoKey /\ current = Idle /\ keyQueue # <<>>
    /\ taken' = Some(Head(keyQueue)) /\ keyQueue' = Tail(keyQueue)
    /\ UNCHANGED <<latestByKey, queuedKeys, activeKeys, current, enqueued, processed, failed,
                   drained, valueFailures>>

\* The transaction that makes a key active.
ActivateKey ==
    /\ taken # NoKey
    /\ taken' = NoKey
    /\ LET k == taken.key
       IN  /\ queuedKeys' = queuedKeys \ {k}
           /\ IF Absent(k) THEN UNCHANGED <<latestByKey, activeKeys, current>>
              ELSE /\ current' = Item(k, latestByKey[k])
                   /\ latestByKey' = [latestByKey EXCEPT ![k] = {}]
                   /\ activeKeys' = activeKeys \cup {k}
    /\ UNCHANGED <<keyQueue, enqueued, processed, failed, drained, valueFailures>>

\* processKey goes on with what came in for the key, or ends.
ProcessKey ==
    /\ current # Idle
    /\ processed' = processed \cup current.value
    /\ LET k == current.key
       IN  IF Absent(k)
           THEN /\ activeKeys' = activeKeys \ {k} /\ current' = Idle
                /\ UNCHANGED latestByKey
           ELSE /\ current' = Item(k, latestByKey[k])
                /\ latestByKey' = [latestByKey EXCEPT ![k] = {}]
                /\ UNCHANGED activeKeys
    /\ UNCHANGED <<keyQueue, queuedKeys, taken, enqueued, failed, drained, valueFailures>>

\* The key is given up with what came in for it.
ForgetKey(k) == FALSE
\* Something came in for the key while its value failed.
Requeue(k) == latestByKey[k] # {} /\ k \notin queuedKeys

\* cleanupFailedKey: the value is gone, what came in meanwhile is not.
ProcessFails ==
    /\ current # Idle
    /\ valueFailures < MaxValueFailures /\ valueFailures' = valueFailures + 1
    /\ failed' = failed \cup current.value
    /\ LET k == current.key
       IN  /\ activeKeys' = activeKeys \ {k}
           /\ IF Requeue(k)
              THEN queuedKeys' = queuedKeys \cup {k} /\ keyQueue' = Append(keyQueue, k)
              ELSE UNCHANGED <<queuedKeys, keyQueue>>
    /\ current' = Idle
    /\ UNCHANGED <<latestByKey, taken, enqueued, processed, drained>>

\* Nothing waits for the key, which may still be active.
NothingWaits(k) == latestByKey[k] = {} /\ k \notin queuedKeys
\* Nothing of the key is known to the worker.
Drained(k) == latestByKey[k] = {} /\ k \notin queuedKeys /\ k \notin activeKeys

\* drainKey retries its transaction until then.
DrainKey(k) ==
    /\ Drained(k)
    /\ drained' = drained \cup {r \in enqueued : KeyOf[r] = k}
    /\ UNCHANGED <<keyQueue, latestByKey, queuedKeys, activeKeys, taken, current, enqueued,
                   processed, failed, valueFailures>>

Worker == TakeKey \/ ActivateKey \/ ProcessKey \/ ProcessFails

WorkerNext == Worker \/ (\E r \in Inputs : Enqueue(r)) \/ (\E k \in Keys : DrainKey(k))

WorkerSpec == WorkerInit /\ [][WorkerNext]_workerVars

WorkerFairSpec == WorkerSpec /\ WF_workerVars(Worker)

---------------------------------------------------------------------------
KeyState == [tag : {"none"}] \cup [tag : {"key"}, key : Keys]
ItemState == [tag : {"none"}] \cup [tag : {"item"}, key : Keys, value : (SUBSET Inputs) \ {{}}]

WorkerTypeOK ==
    /\ keyQueue \in Seq(Keys) /\ latestByKey \in [Keys -> SUBSET Inputs]
    /\ queuedKeys \subseteq Keys /\ activeKeys \subseteq Keys
    /\ taken \in KeyState /\ current \in ItemState
    /\ enqueued \subseteq Inputs /\ processed \subseteq Inputs
    /\ failed \subseteq Inputs /\ drained \subseteq Inputs
    /\ valueFailures \in 0..MaxValueFailures

\* No request is lost, none is handled twice, whatever fails: each one waits, is
\* in hand, was processed or failed (KeyedCoalescingWorker.ts 38-76).
EachRequestOnce ==
    \A r \in enqueued :
        Cardinality({c \in {"waiting", "current", "processed", "failed"} :
            \/ c = "waiting" /\ r \in latestByKey[KeyOf[r]]
            \/ c = "current" /\ current.tag = "item" /\ r \in current.value
            \/ c = "processed" /\ r \in processed
            \/ c = "failed" /\ r \in failed}) = 1

\* drainKey returns only when everything enqueued before has been dealt with
\* (KeyedCoalescingWorker.ts 130-139): a terminal's history is on disk.
DrainedMeansDone == drained \subseteq processed \cup failed

\* Every request is dealt with some time, also one that came in for a key whose
\* value failed.
AllDealtWith == \A r \in Inputs : r \in enqueued ~> r \in processed \cup failed
=============================================================================
