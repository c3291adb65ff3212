------------------------ MODULE VcsStatusBroadcaster ------------------------
(***************************************************************************)
(* The remote status of one working directory, cached and followed by         *)
(* clients (server/src/vcs/VcsStatusBroadcaster.ts).  A poller runs while      *)
(* somebody follows; explicit refreshes and the refresh at the end of a turn   *)
(* read the status too.  All readers write the cache under one lock, and a     *)
(* changed status is published to the followers' queues.                       *)
(*                                                                         *)
(* Abstractions: a status is the version of the repository and its hosts that  *)
(* it was read from; two versions may look alike (FingerprintOf).  Clients may *)
(* name the directory by different paths (SpellingOf).  The local half of the  *)
(* status, delays and git itself are left out: whether a stored local half     *)
(* changed is a choice.                                                        *)
(***************************************************************************)
EXTENDS Naturals, Sequences, FiniteSets

CONSTANTS
    Followers, Spellings, SpellingOf,
    Requests, KindOf,    \* "refresh": refreshStatus, "turnEnd": refreshPullRequestStatus
    PathOf,              \* the path a request names the directory by
    FingerprintOf,
    MaxVersion, MaxFailures, MaxChanges    \* bounds

ASSUME BroadcasterAssumption ==
    /\ IsFiniteSet(Followers)
    /\ SpellingOf \in [Followers -> Spellings] /\ PathOf \in [Requests -> Spellings]
    /\ KindOf \in [Requests -> {"refresh", "turnEnd"}]
    /\ MaxVersion \in Nat \ {0} /\ MaxFailures \in Nat /\ MaxChanges \in Nat
    /\ DOMAIN FingerprintOf = 0..MaxVersion
    /\ \A v \in 1..MaxVersion : FingerprintOf[v] # FingerprintOf[0]

Poller == [task |-> "poller"]
Task(r) == [task |-> "request", of |-> r]
Tasks == {Poller} \cup {Task(r) : r \in Requests}

Unknown == 0             \* no status yet
Free == [task |-> "none"]
Dying == [task |-> "dying"]    \* an interrupted poller that still unwinds

VARIABLES
    version,             \* of the repository and its hosts
    foreground,          \* paths a client in the foreground is interested in
    automatic,           \* the setting: periodic refreshes
    cached,              \* the cached status
    count, demand,       \* of the poller: its subscribers, and their number per path
    needsInitial,        \* the poller refreshes whatever the setting and the foreground
    lock,                \* who holds the lock for remote reads
    pc, read,            \* of a task: where it is, and what it read
    following, queue, view,    \* of a follower
    failures, changes

vars == <<version, foreground, automatic, cached, count, demand, needsInitial, lock, pc, read,
          following, queue, view, failures, changes>>
poller == <<count, demand, needsInitial>>
clients == <<following, view>>
world == <<version, foreground, automatic, changes>>

Init ==
    /\ version = 1 /\ foreground = {} /\ automatic = TRUE
    /\ cached = Unknown
    /\ count = 0 /\ demand = [s \in Spellings |-> 0] /\ needsInitial = FALSE
    /\ lock = Free
    /\ pc = [t \in Tasks |-> "off"] /\ read = [t \in Tasks |-> Unknown]
    /\ following = [f \in Followers |-> "no"] /\ queue = [f \in Followers |-> <<>>]
    /\ view = [f \in Followers |-> Unknown]
    /\ failures = 0 /\ changes = 0

Alike(v, w) == FingerprintOf[v] = FingerprintOf[w]

Demanded == {s \in Spellings : demand[s] > 0}

TurnEnd(t) == t # Poller /\ KindOf[t.of] = "turnEnd"

---------------------------------------------------------------------------
\* The readers.

\* refreshStatus and refreshPullRequestStatus; each request is made once.
Ask(r) ==
    /\ pc[Task(r)] = "off"
    /\ pc' = [pc EXCEPT ![Task(r)] = "waiting"]
    /\ UNCHANGED <<world, cached, poller, lock, read, clients, queue, failures>>

\* The poller's delay is over and its policy lets it run; else it waits again.
PollerWakes ==
    /\ pc[Poller] = "sleeping"
    /\ needsInitial \/ (automatic /\ Demanded \cap foreground # {})
    /\ pc' = [pc EXCEPT ![Poller] = "waiting"]
    /\ UNCHANGED <<world, cached, poller, lock, read, clients, queue, failures>>

\* The refresh of a turn's end is not among those that take turns.
LocksPollsOnly(t) == lock = Free \/ TurnEnd(t)
\* withRemoteWriteLock: one reader at a time.
Locks(t) == lock = Free

\* The refresh at the end of a turn needs a status to refresh, and interest.
Needed(t) ==
    TurnEnd(t) =>
        /\ cached # Unknown
        /\ (IF count > 0 THEN Demanded ELSE {PathOf[t.of]}) \cap foreground # {}

Enter(t) ==
    /\ pc[t] = "waiting" /\ Locks(t)
    /\ IF Needed(t)
       THEN lock' = t /\ pc' = [pc EXCEPT ![t] = "reading"]
       ELSE pc' = [pc EXCEPT ![t] = "done"] /\ UNCHANGED lock
    /\ UNCHANGED <<world, cached, poller, read, clients, queue, failures>>

\* What a task does when it leaves the lock.
Leaves(t) == [pc EXCEPT ![t] = IF t = Poller THEN "sleeping" ELSE "done"]

ReadStatus(t) ==
    /\ pc[t] = "reading"
    /\ read' = [read EXCEPT ![t] = version]
    /\ pc' = [pc EXCEPT ![t] = "read"]
    /\ UNCHANGED <<world, cached, poller, lock, clients, queue, failures>>

\* A read fails, or the request is interrupted: the cache stays as it is.
ReadFails(t) ==
    /\ pc[t] \in {"reading", "read", "pulled", "reread", "kept"}
    /\ t = Poller => pc[t] = "reading"
    /\ failures < MaxFailures /\ failures' = failures + 1
    /\ lock' = Free /\ pc' = Leaves(t)
    /\ UNCHANGED <<world, cached, poller, read, clients, queue>>

\* maybeAutoPull: the branch is behind, clean, and its project wants it; the pull
\* itself changes the status.
AutoPull(t) ==
    /\ pc[t] = "read" /\ ~TurnEnd(t)
    /\ version < MaxVersion /\ version' = version + 1
    /\ pc' = [pc EXCEPT ![t] = "pulled"]
    /\ UNCHANGED <<foreground, automatic, changes, cached, poller, lock, read, clients, queue,
                   failures>>

ReadAgain(t) ==
    /\ pc[t] = "pulled"
    /\ read' = [read EXCEPT ![t] = version]
    /\ pc' = [pc EXCEPT ![t] = "reread"]
    /\ UNCHANGED <<world, cached, poller, lock, clients, queue, failures>>

\* The read after a pull fails: what was read before the pull is stored.
ReadAgainFails(t) ==
    /\ pc[t] = "pulled"
    /\ failures < MaxFailures /\ failures' = failures + 1
    /\ pc' = [pc EXCEPT ![t] = "kept"]
    /\ UNCHANGED <<world, cached, poller, lock, read, clients, queue>>

\* A refresh at the end of a turn stores without publishing.
PublishesUnlessTurnEnd(t) == ~Alike(read[t], cached) /\ ~TurnEnd(t)
\* A status that looks different is published.
Publishes(t) == ~Alike(read[t], cached)

Subscribed(f) == following[f] # "no"

\* updateCachedRemoteStatus, or updateCachedStatus with a local half.
Store(t) ==
    /\ pc[t] \in {"read", "reread", "kept"}
    /\ cached' = read[t]
    /\ \E localChanged \in BOOLEAN :
          /\ localChanged => pc[t] = "reread" \/ (t # Poller /\ ~TurnEnd(t))
          /\ IF Publishes(t) \/ localChanged
             THEN queue' = [f \in Followers |-> IF Subscribed(f) THEN Append(queue[f], read[t])
                                                ELSE queue[f]]
             ELSE UNCHANGED queue
    /\ needsInitial' = (needsInitial /\ t # Poller)
    /\ lock' = Free /\ pc' = Leaves(t)
    /\ UNCHANGED <<world, count, demand, read, clients, failures>>

---------------------------------------------------------------------------
\* The followers.

\* A new poller never refreshes at once.
NeverAtOnce == FALSE
\* A new poller refreshes at once when there is no status.
AtOnce == cached = Unknown

\* streamStatus subscribes, then loads the local half.
Subscribe(f) ==
    /\ following[f] = "no"
    /\ changes < MaxChanges /\ changes' = changes + 1
    /\ following' = [following EXCEPT ![f] = "loading"]
    /\ queue' = [queue EXCEPT ![f] = <<>>]
    /\ UNCHANGED <<version, foreground, automatic, cached, poller, lock, pc, read, view, failures>>

\* The snapshot is taken and the poller retained, or started.
Snapshot(f) ==
    /\ following[f] = "loading"
    /\ following' = [following EXCEPT ![f] = "yes"]
    /\ view' = [view EXCEPT ![f] = cached]
    /\ count' = count + 1
    /\ demand' = [demand EXCEPT ![SpellingOf[f]] = @ + 1]
    /\ IF count > 0 THEN UNCHANGED <<needsInitial, pc>>
       ELSE needsInitial' = AtOnce /\ pc' = [pc EXCEPT ![Poller] = "sleeping"]
    /\ UNCHANGED <<world, cached, lock, read, queue, failures>>

Receive(f) ==
    /\ following[f] = "yes" /\ queue[f] # <<>>
    /\ view' = [view EXCEPT ![f] = Head(queue[f])]
    /\ queue' = [queue EXCEPT ![f] = Tail(@)]
    /\ UNCHANGED <<world, cached, poller, lock, pc, read, following, failures>>

\* The load of the local half fails, or the client leaves during it.
LoadEnds(f) ==
    /\ following[f] = "loading"
    /\ following' = [following EXCEPT ![f] = "no"]
    /\ queue' = [queue EXCEPT ![f] = <<>>]
    /\ UNCHANGED <<world, cached, poller, lock, pc, read, view, failures>>

\* The path is forgotten with any of its followers.
ForgetPath(s) == [demand EXCEPT ![s] = 0]
\* The path is forgotten with its last follower.
ReleasePath(s) == [demand EXCEPT ![s] = @ - 1]

\* releaseRemotePoller: the last follower interrupts the poller, wherever it is.
Leave(f) ==
    /\ following[f] = "yes"
    /\ following' = [following EXCEPT ![f] = "no"]
    /\ queue' = [queue EXCEPT ![f] = <<>>]
    /\ count' = count - 1
    /\ IF count > 1
       THEN /\ demand' = ReleasePath(SpellingOf[f])
            /\ UNCHANGED <<needsInitial, pc, lock>>
       ELSE /\ demand' = [s \in Spellings |-> 0] /\ needsInitial' = FALSE
            /\ pc' = [pc EXCEPT ![Poller] = "off"]
            /\ lock' = IF lock = Poller THEN Dying ELSE lock
    /\ UNCHANGED <<world, cached, read, view, failures>>

\* The interrupted poller's git process is gone.
PollerGone ==
    /\ lock = Dying /\ lock' = Free
    /\ UNCHANGED <<world, cached, poller, pc, read, clients, queue, failures>>

---------------------------------------------------------------------------
\* Somebody pushes, commits or merges.
RepositoryChanges ==
    /\ version < MaxVersion /\ version' = version + 1
    /\ UNCHANGED <<foreground, automatic, changes, cached, poller, lock, pc, read, clients, queue,
                   failures>>

\* A client comes to the foreground or goes, or the setting is changed.
InterestChanges ==
    /\ changes < MaxChanges /\ changes' = changes + 1
    /\ \/ /\ \E s \in Spellings : foreground' = IF s \in foreground THEN foreground \ {s}
                                                ELSE foreground \cup {s}
          /\ UNCHANGED automatic
       \/ automatic' = ~automatic /\ UNCHANGED foreground
    /\ UNCHANGED <<version, cached, poller, lock, pc, read, clients, queue, failures>>

Reads(t) ==
    Enter(t) \/ ReadStatus(t) \/ AutoPull(t) \/ ReadAgain(t) \/ ReadAgainFails(t) \/ Store(t)
      \/ ReadFails(t)

Follows(f) == Subscribe(f) \/ Snapshot(f) \/ Receive(f) \/ LoadEnds(f) \/ Leave(f)

Next ==
    \/ \E r \in Requests : Ask(r)
    \/ PollerWakes \/ PollerGone
    \/ \E t \in Tasks : Reads(t)
    \/ \E f \in Followers : Follows(f)
    \/ RepositoryChanges \/ InterestChanges

Spec == Init /\ [][Next]_vars

\* The poller's delay ends, the lock is given to somebody who waits for it, what
\* its holder asks git ends, and clients read what they are sent.
Fairness ==
    /\ WF_vars(PollerWakes) /\ WF_vars(PollerGone)
    /\ WF_vars(\E t \in Tasks : Enter(t))
    /\ WF_vars(\E t \in Tasks : ReadStatus(t) \/ ReadAgain(t) \/ Store(t))
    /\ \A f \in Followers : WF_vars(Receive(f))

FairSpec == Spec /\ Fairness

---------------------------------------------------------------------------
Phases == {"off", "waiting", "reading", "read", "pulled", "reread", "kept"}

TypeOK ==
    /\ version \in 1..MaxVersion /\ foreground \subseteq Spellings /\ automatic \in BOOLEAN
    /\ cached \in 0..MaxVersion
    /\ count \in Nat /\ demand \in [Spellings -> Nat] /\ needsInitial \in BOOLEAN
    /\ lock \in Tasks \cup {Free, Dying}
    /\ pc \in [Tasks -> Phases \cup {"sleeping", "done"}] /\ read \in [Tasks -> 0..MaxVersion]
    /\ following \in [Followers -> {"no", "loading", "yes"}]
    /\ queue \in [Followers -> Seq(0..MaxVersion)] /\ view \in [Followers -> 0..MaxVersion]
    /\ failures \in 0..MaxFailures /\ changes \in 0..MaxChanges

\* A status is never replaced by one that was read from an earlier version, not
\* even by a poll that began before the refresh at the end of a turn: what the
\* comment at VcsStatusBroadcaster.ts 234-236 wants the lock for.
StatusNeverGoesBack == [][cached' >= cached]_vars

\* When a follower has read what it was sent, it shows what the cache holds:
\* nothing that was published while it subscribed is lost, and nothing is stored
\* without being published (VcsStatusBroadcaster.ts 284-354, 697-735).
LastSent(f) == IF queue[f] = <<>> THEN view[f] ELSE queue[f][Len(queue[f])]
FollowersShowTheCache == \A f \in Followers : following[f] = "yes" => Alike(LastSent(f), cached)

\* The poller runs exactly while somebody follows, and knows exactly the paths
\* they follow by: it neither outlives them nor polls for somebody who left
\* (VcsStatusBroadcaster.ts 606-695).
FollowersBy(s) == {f \in Followers : following[f] = "yes" /\ SpellingOf[f] = s}
PolledWhileFollowed ==
    /\ (pc[Poller] # "off") = (\E f \in Followers : following[f] = "yes")
    /\ \A s \in Spellings : demand[s] = Cardinality(FollowersBy(s))

\* A client that goes on following comes to show the repository's status as it
\* then is, when periodic refreshes are on and it stays in the foreground
\* (VcsStatusBroadcaster.ts 531-584).
FollowersCatchUp ==
    \A f \in Followers :
        <>[](following[f] = "yes" /\ SpellingOf[f] \in foreground /\ automatic)
            => []<>Alike(view[f], version)

\* A client that goes on following is sent a first status, also when periodic
\* refreshes are off, nobody is in the foreground and the first attempts fail
\* (VcsStatusBroadcaster.ts 536-547, 706-712).
EveryFollowerLearns == \A f \in Followers : <>[](following[f] = "yes") => <>(view[f] # Unknown)
=============================================================================
