------------------------ MODULE BackgroundWorkProofs ------------------------
(***************************************************************************)
(* Theorems of two parts that work in the background: the status broadcaster,   *)
(* for any clients, paths, requests, versions and bounds, and the coalescing    *)
(* worker, for any keys, values and failures.                                *)
(*                                                                         *)
(* A status cannot go back because of two facts: whoever is between his read    *)
(* and his store holds the lock, and what he has read is at least as new as     *)
(* what the cache holds.                                                     *)
(*                                                                         *)
(* The invariant of the worker says where a value is: it waits in the table     *)
(* under its own key, is in what is being processed, or has been dealt with,    *)
(* and in one of these places only; and a key in hand is active.             *)
(***************************************************************************)
EXTENDS VcsStatusBroadcaster, KeyedCoalescingWorker, FiniteSetTheorems, SequenceTheorems, TLAPS

USE DEF world, poller, clients

LEMMA SomeTasks ==
    /\ Poller \in Tasks /\ \A r \in Requests : Task(r) \in Tasks /\ Task(r) # Poller
    /\ Free \notin Tasks /\ Dying \notin Tasks /\ Free # Dying
    /\ \A t \in Tasks : TurnEnd(t) => t # Poller
BY DEF Tasks, Poller, Task, Free, Dying, TurnEnd

---------------------------------------------------------------------------
(* The counts of the poller are those of the followers.                      *)

Following == {f \in Followers : following[f] = "yes"}

Counted ==
    /\ count = Cardinality(Following)
    /\ \A s \in Spellings : demand[s] = Cardinality(FollowersBy(s))

PollerRuns == (pc[Poller] # "off") = (count > 0)

LEMMA FollowersAreFinite ==
    /\ IsFiniteSet(Following) /\ \A s \in Spellings : IsFiniteSet(FollowersBy(s))
BY BroadcasterAssumption, FS_Subset DEF Following, FollowersBy

\* Nobody follows exactly when the count is zero.
LEMMA NobodyFollows ==
    ASSUME Counted
    PROVE  (count = 0) = (Following = {})
BY FollowersAreFinite, FS_EmptySet DEF Counted

\* A step of the clients that leaves "following" or makes it "loading" or "no" from
\* one another leaves the counts.
LEMMA SameFollowers ==
    ASSUME Counted, UNCHANGED <<count, demand>>,
           \A f \in Followers : (following'[f] = "yes") = (following[f] = "yes")
    PROVE  Counted'
<1>1. Following' = Following
  BY DEF Following
<1>2. \A s : FollowersBy(s)' = FollowersBy(s)
  BY DEF FollowersBy
<1> QED BY <1>1, <1>2 DEF Counted

LEMMA SnapshotCounted ==
    ASSUME TypeOK, Counted, NEW f \in Followers, Snapshot(f)
    PROVE  Counted'
<1>1. following[f] # "yes" /\ following' = [following EXCEPT ![f] = "yes"]
  BY DEF Snapshot
<1>2. Following' = Following \cup {f} /\ f \notin Following
  BY <1>1 DEF Following, TypeOK
<1>3. Cardinality(Following') = Cardinality(Following) + 1
  BY <1>2, FollowersAreFinite, FS_AddElement
<1>4. count' = Cardinality(Following')
  BY <1>3 DEF Snapshot, Counted
<1>5. ASSUME NEW s \in Spellings PROVE demand'[s] = Cardinality(FollowersBy(s)')
  <2>1. CASE s = SpellingOf[f]
    <3>1. FollowersBy(s)' = FollowersBy(s) \cup {f} /\ f \notin FollowersBy(s)
      BY <1>1, <2>1 DEF FollowersBy, TypeOK
    <3>2. Cardinality(FollowersBy(s)') = Cardinality(FollowersBy(s)) + 1
      BY <3>1, FollowersAreFinite, FS_AddElement
    <3> QED BY <2>1, <3>2 DEF Snapshot, Counted, TypeOK
  <2>2. CASE s # SpellingOf[f]
    <3>1. FollowersBy(s)' = FollowersBy(s)
      BY <1>1, <2>2 DEF FollowersBy, TypeOK
    <3> QED BY <2>2, <3>1 DEF Snapshot, Counted, TypeOK
  <2> QED BY <2>1, <2>2
<1> QED BY <1>4, <1>5 DEF Counted

LEMMA LeaveCounted ==
    ASSUME TypeOK, Counted, NEW f \in Followers, Leave(f)
    PROVE  Counted' /\ count > 0 /\ \A s \in Spellings : demand'[s] \in Nat
<1>1. following[f] = "yes" /\ following' = [following EXCEPT ![f] = "no"]
  BY DEF Leave
<1>2. Following' = Following \ {f} /\ f \in Following
  BY <1>1 DEF Following, TypeOK
<1>3. Cardinality(Following') = Cardinality(Following) - 1
  BY <1>2, FollowersAreFinite, FS_RemoveElement
<1>4. count' = Cardinality(Following') /\ count > 0
  BY <1>2, <1>3, NobodyFollows DEF Leave, Counted, TypeOK
<1>5. ASSUME NEW s \in Spellings PROVE demand'[s] = Cardinality(FollowersBy(s)')
  <2>1. CASE count > 1 /\ s = SpellingOf[f]
    <3>1. FollowersBy(s)' = FollowersBy(s) \ {f} /\ f \in FollowersBy(s)
      BY <1>1, <2>1 DEF FollowersBy, TypeOK
    <3>2. Cardinality(FollowersBy(s)') = Cardinality(FollowersBy(s)) - 1
      BY <3>1, FollowersAreFinite, FS_RemoveElement
    <3> QED BY <2>1, <3>2 DEF Leave, ReleasePath, Counted, TypeOK
  <2>2. CASE count > 1 /\ s # SpellingOf[f]
    <3>1. FollowersBy(s)' = FollowersBy(s)
      BY <1>1, <2>2 DEF FollowersBy, TypeOK
    <3> QED BY <2>2, <3>1 DEF Leave, ReleasePath, Counted, TypeOK
  <2>3. CASE ~(count > 1)
    <3>1. count = 1
      BY <1>4, <2>3 DEF TypeOK
    <3>2. Cardinality(Following') = 0
      BY <1>3, <3>1 DEF Counted
    <3>3. IsFiniteSet(Following')
      BY <1>2, FollowersAreFinite, FS_RemoveElement
    <3>4. Following' = {}
      BY <3>2, <3>3, FS_EmptySet
    <3>5. FollowersBy(s)' = {}
      BY <3>4 DEF Following, FollowersBy
    <3> QED BY <2>3, <3>5, FS_EmptySet DEF Leave
  <2> QED BY <2>1, <2>2, <2>3
<1>6. \A s \in Spellings : IsFiniteSet(FollowersBy(s)')
  <2>1. \A s \in Spellings : FollowersBy(s)' \subseteq FollowersBy(s)
    BY <1>1 DEF FollowersBy, TypeOK
  <2> QED BY <2>1, FollowersAreFinite, FS_Subset
<1> QED BY <1>4, <1>5, <1>6, FS_CardinalityType DEF Counted

---------------------------------------------------------------------------
(* Types and counts.                                                        *)

TypeInv == TypeOK /\ Counted /\ PollerRuns

PcType == [Tasks -> Phases \cup {"sleeping", "done"}]

LEMMA LeavesType ==
    ASSUME pc \in PcType, NEW t \in Tasks
    PROVE  Leaves(t) \in PcType
BY DEF Leaves, PcType

LEMMA InitType == Init => TypeInv
<1> SUFFICES ASSUME Init PROVE TypeInv
  OBVIOUS
<1> USE BroadcasterAssumption DEF Init, Unknown
<1>1. version \in 1..MaxVersion /\ foreground \subseteq Spellings /\ automatic \in BOOLEAN
  OBVIOUS
<1>2. cached \in 0..MaxVersion /\ count \in Nat /\ demand \in [Spellings -> Nat]
  OBVIOUS
<1>3. needsInitial \in BOOLEAN /\ lock \in Tasks \cup {Free, Dying}
  OBVIOUS
<1>4. pc \in [Tasks -> Phases \cup {"sleeping", "done"}] /\ read \in [Tasks -> 0..MaxVersion]
  BY DEF Phases
<1>5. /\ following \in [Followers -> {"no", "loading", "yes"}]
      /\ queue \in [Followers -> Seq(0..MaxVersion)] /\ view \in [Followers -> 0..MaxVersion]
  OBVIOUS
<1>6. failures \in 0..MaxFailures /\ changes \in 0..MaxChanges
  OBVIOUS
<1>7. Following = {} /\ \A s : FollowersBy(s) = {}
  BY DEF Following, FollowersBy
<1>8. Counted
  BY <1>7, FS_EmptySet DEF Counted
<1>9. PollerRuns
  BY SomeTasks DEF PollerRuns
<1> QED BY <1>1, <1>2, <1>3, <1>4, <1>5, <1>6, <1>8, <1>9 DEF TypeOK, TypeInv

\* A step of a reader.
LEMMA ReadsType ==
    ASSUME TypeInv, NEW t \in Tasks, Reads(t)
    PROVE  TypeInv'
<1> USE BroadcasterAssumption, SomeTasks DEF TypeOK
<1>1. TypeOK
  BY DEF TypeInv
<1>2. pc[t] \notin {"off", "done"} /\ UNCHANGED <<count, demand, following>>
  BY DEF Reads, Enter, ReadStatus, AutoPull, ReadAgain, ReadAgainFails, ReadFails, Store
<1>3. pc'[t] # "off" /\ \A u \in Tasks : u # t => pc'[u] = pc[u]
  BY <1>1 DEF Reads, Enter, ReadStatus, AutoPull, ReadAgain, ReadAgainFails, ReadFails, Store, Leaves
<1>4. Counted'
  BY <1>2, SameFollowers DEF TypeInv
<1>5. PollerRuns'
  BY <1>2, <1>3 DEF TypeInv, PollerRuns
<1>6. TypeOK'
  <2>1. CASE Enter(t)
    BY <1>1, <2>1 DEF Enter, Phases
  <2>2. CASE ReadStatus(t)
    BY <1>1, <2>2 DEF ReadStatus, Phases
  <2>3. CASE AutoPull(t)
    BY <1>1, <2>3 DEF AutoPull, Phases
  <2>4. CASE ReadAgain(t)
    BY <1>1, <2>4 DEF ReadAgain, Phases
  <2>5. CASE ReadAgainFails(t)
    BY <1>1, <2>5 DEF ReadAgainFails, Phases
  <2>6. CASE ReadFails(t)
    BY <1>1, <2>6, LeavesType DEF ReadFails, PcType
  <2>7. CASE Store(t)
    <3>1. needsInitial' \in BOOLEAN
      BY <1>1, <2>7 DEF Store
    <3>2. read[t] \in 0..MaxVersion
      BY <1>1
    <3>3. \A f \in Followers : Append(queue[f], read[t]) \in Seq(0..MaxVersion)
      BY <1>1, <3>2
    <3>4. \/ queue' = queue
          \/ queue' = [f \in Followers |-> IF Subscribed(f) THEN Append(queue[f], read[t])
                                           ELSE queue[f]]
      BY <2>7 DEF Store
    <3> DEFINE q(f) == IF Subscribed(f) THEN Append(queue[f], read[t]) ELSE queue[f]
    <3>5. \A f \in Followers : q(f) \in Seq(0..MaxVersion)
      BY <1>1, <3>3
    <3>6. queue' = queue \/ queue' = [f \in Followers |-> q(f)]
      BY <3>4
    <3> HIDE DEF q
    <3>7. queue' \in [Followers -> Seq(0..MaxVersion)]
      BY <1>1, <3>5, <3>6
    <3> QED BY <1>1, <2>7, <3>1, <3>2, <3>7, LeavesType DEF Store, PcType
  <2> QED BY <2>1, <2>2, <2>3, <2>4, <2>5, <2>6, <2>7 DEF Reads
<1> QED BY <1>4, <1>5, <1>6 DEF TypeInv

\* A step of a follower.
LEMMA FollowsType ==
    ASSUME TypeInv, NEW f \in Followers, Follows(f)
    PROVE  TypeInv'
<1> USE BroadcasterAssumption, SomeTasks DEF TypeOK
<1>1. TypeOK /\ Counted /\ PollerRuns
  BY DEF TypeInv
<1>2. CASE Subscribe(f)
  <2>1. TypeOK'
    BY <1>1, <1>2 DEF Subscribe
  <2>2. \A g \in Followers : (following'[g] = "yes") = (following[g] = "yes")
    BY <1>1, <1>2 DEF Subscribe
  <2>3. UNCHANGED <<count, demand, pc>>
    BY <1>2 DEF Subscribe
  <2> QED BY <1>1, <2>1, <2>2, <2>3, SameFollowers DEF TypeInv, PollerRuns
<1>3. CASE Snapshot(f)
  <2>1. needsInitial' \in BOOLEAN
    BY <1>1, <1>3 DEF Snapshot, AtOnce
  <2>2. pc' \in [Tasks -> Phases \cup {"sleeping", "done"}]
    BY <1>1, <1>3 DEF Snapshot
  <2>3. TypeOK'
    BY <1>1, <1>3, <2>1, <2>2 DEF Snapshot
  <2>4. PollerRuns'
    BY <1>1, <1>3 DEF Snapshot, PollerRuns
  <2> QED BY <1>1, <1>3, <2>3, <2>4, SnapshotCounted DEF TypeInv
<1>4. CASE Receive(f)
  <2>1. Head(queue[f]) \in 0..MaxVersion /\ Tail(queue[f]) \in Seq(0..MaxVersion)
    BY <1>1, <1>4 DEF Receive
  <2> QED BY <1>1, <1>4, <2>1, SameFollowers DEF Receive, TypeInv, PollerRuns
<1>5. CASE LoadEnds(f)
  BY <1>1, <1>5, SameFollowers DEF LoadEnds, TypeInv, PollerRuns
<1>6. CASE Leave(f)
  <2>1. Counted' /\ count > 0 /\ \A s \in Spellings : demand'[s] \in Nat
    BY <1>1, <1>6, LeaveCounted
  <2>2. needsInitial' \in BOOLEAN
    BY <1>1, <1>6 DEF Leave
  <2>3. pc' \in [Tasks -> Phases \cup {"sleeping", "done"}]
    BY <1>1, <1>6 DEF Leave, Phases
  <2>4. count' \in Nat
    BY <1>1, <1>6, <2>1 DEF Leave
  <2>5. demand' \in [Spellings -> Nat]
    <3>1. demand' = [s \in Spellings |-> demand'[s]]
      BY <1>1, <1>6 DEF Leave, ReleasePath
    <3> QED BY <2>1, <3>1
  <2>6. PollerRuns'
    BY <1>1, <1>6, <2>1 DEF Leave, PollerRuns
  <2>7. TypeOK'
    BY <1>1, <1>6, <2>2, <2>3, <2>4, <2>5 DEF Leave
  <2> QED BY <2>1, <2>6, <2>7 DEF TypeInv
<1> QED BY <1>2, <1>3, <1>4, <1>5, <1>6 DEF Follows

LEMMA NextType == TypeInv /\ [Next]_vars => TypeInv'
<1> SUFFICES ASSUME TypeInv, [Next]_vars PROVE TypeInv'
  OBVIOUS
<1> USE BroadcasterAssumption, SomeTasks DEF TypeOK
<1>1. TypeOK /\ Counted /\ PollerRuns
  BY DEF TypeInv
<1>2. ASSUME NEW r \in Requests, Ask(r) PROVE TypeInv'
  BY <1>1, <1>2, SameFollowers DEF Ask, Phases, PollerRuns, TypeInv
<1>3. CASE PollerWakes
  BY <1>1, <1>3, SameFollowers DEF PollerWakes, Phases, PollerRuns, TypeInv
<1>4. CASE PollerGone
  BY <1>1, <1>4, SameFollowers DEF PollerGone, PollerRuns, TypeInv
<1>5. ASSUME NEW t \in Tasks, Reads(t) PROVE TypeInv'
  BY <1>5, ReadsType
<1>6. ASSUME NEW f \in Followers, Follows(f) PROVE TypeInv'
  BY <1>6, FollowsType
<1>7. CASE RepositoryChanges
  BY <1>1, <1>7, SameFollowers DEF RepositoryChanges, PollerRuns, TypeInv
<1>8. CASE InterestChanges
  <2>1. automatic' \in BOOLEAN
    BY <1>1, <1>8 DEF InterestChanges
  <2> QED BY <1>1, <1>8, <2>1, SameFollowers DEF InterestChanges, PollerRuns, TypeInv
<1>9. CASE UNCHANGED vars
  BY <1>1, <1>9, SameFollowers DEF vars, PollerRuns, TypeInv
<1> QED BY <1>2, <1>3, <1>4, <1>5, <1>6, <1>7, <1>8, <1>9 DEF Next

LEMMA TypeInvariant == Spec => []TypeInv
BY InitType, NextType, PTL DEF Spec

\* Every variable keeps its range.
THEOREM TypeCorrect == Spec => []TypeOK
<1>1. TypeInv => TypeOK
  BY DEF TypeInv
<1> QED BY <1>1, TypeInvariant, PTL

\* The poller runs exactly while somebody follows, and the paths it polls for are
\* those of its followers (VcsStatusBroadcaster.ts 606-695).
THEOREM PolledExactlyWhileFollowed == Spec => []PolledWhileFollowed
<1>1. TypeInv => PolledWhileFollowed
  <2> SUFFICES ASSUME TypeInv PROVE PolledWhileFollowed
    OBVIOUS
  <2>1. (Following # {}) <=> \E f \in Followers : following[f] = "yes"
    BY DEF Following
  <2>2. (count > 0) <=> (Following # {})
    BY NobodyFollows DEF TypeInv, TypeOK
  <2> QED BY <2>1, <2>2 DEF TypeInv, PollerRuns, Counted, PolledWhileFollowed
<1> QED BY <1>1, TypeInvariant, PTL

---------------------------------------------------------------------------
(* A status is never replaced by an older one.                               *)

\* Where a task is that has the lock, and where it has something to store.
Inside == {"reading", "read", "pulled", "reread", "kept"}
Holding == {"read", "pulled", "reread", "kept"}

\* The lock protects: whoever is inside has it.
Exclusive == \A t \in Tasks : pc[t] \in Inside => lock = t

\* What was read is not older than the cache, nor newer than the repository.
ReadsAreFresh ==
    /\ cached <= version
    /\ \A t \in Tasks : pc[t] \in Holding => cached <= read[t] /\ read[t] <= version

FreshInv == TypeOK /\ Exclusive /\ ReadsAreFresh

LEMMA InitFresh == Init => Exclusive /\ ReadsAreFresh
BY DEF Init, Exclusive, ReadsAreFresh, Inside, Holding, Unknown

LEMMA NextFresh == FreshInv /\ [Next]_vars => Exclusive' /\ ReadsAreFresh' /\ cached' >= cached
<1> SUFFICES ASSUME FreshInv, [Next]_vars
             PROVE  Exclusive' /\ ReadsAreFresh' /\ cached' >= cached
  OBVIOUS
<1> USE BroadcasterAssumption, SomeTasks DEF TypeOK, Exclusive, ReadsAreFresh, Inside, Holding
<1>1. TypeOK /\ Exclusive /\ ReadsAreFresh
  BY DEF FreshInv
<1>2. ASSUME NEW r \in Requests, Ask(r)
      PROVE  Exclusive' /\ ReadsAreFresh' /\ cached' >= cached
  BY <1>1, <1>2 DEF Ask
<1>3. CASE PollerWakes
  BY <1>1, <1>3 DEF PollerWakes
<1>4. CASE PollerGone
  BY <1>1, <1>4 DEF PollerGone
<1>5. ASSUME NEW t \in Tasks, Reads(t)
      PROVE  Exclusive' /\ ReadsAreFresh' /\ cached' >= cached
  <2>1. CASE Enter(t)
    BY <1>1, <2>1 DEF Enter, Locks
  <2>2. CASE ReadStatus(t)
    BY <1>1, <2>2 DEF ReadStatus
  <2>3. CASE AutoPull(t)
    BY <1>1, <2>3 DEF AutoPull
  <2>4. CASE ReadAgain(t)
    BY <1>1, <2>4 DEF ReadAgain
  <2>5. CASE ReadAgainFails(t)
    BY <1>1, <2>5 DEF ReadAgainFails
  <2>6. CASE ReadFails(t)
    BY <1>1, <2>6 DEF ReadFails, Leaves
  <2>7. CASE Store(t)
    BY <1>1, <2>7 DEF Store, Leaves
  <2> QED BY <1>5, <2>1, <2>2, <2>3, <2>4, <2>5, <2>6, <2>7 DEF Reads
<1>6. ASSUME NEW f \in Followers, Follows(f)
      PROVE  Exclusive' /\ ReadsAreFresh' /\ cached' >= cached
  <2>1. CASE Subscribe(f) \/ Receive(f) \/ LoadEnds(f)
    BY <1>1, <2>1 DEF Subscribe, Receive, LoadEnds
  <2>2. CASE Snapshot(f)
    BY <1>1, <2>2 DEF Snapshot
  <2>3. CASE Leave(f)
    BY <1>1, <2>3 DEF Leave
  <2> QED BY <1>6, <2>1, <2>2, <2>3 DEF Follows
<1>7. CASE RepositoryChanges
  BY <1>1, <1>7 DEF RepositoryChanges
<1>8. CASE InterestChanges
  BY <1>1, <1>8 DEF InterestChanges
<1>9. CASE UNCHANGED vars
  BY <1>1, <1>9 DEF vars
<1> QED BY <1>2, <1>3, <1>4, <1>5, <1>6, <1>7, <1>8, <1>9 DEF Next

\* No poll, refresh or turn's end puts an older status over a newer one
\* (VcsStatusBroadcaster.ts 234-245).
THEOREM FreshStatus == Spec => StatusNeverGoesBack
<1>1. TypeOK /\ Exclusive /\ ReadsAreFresh /\ [Next]_vars => [cached' >= cached]_vars
  BY NextFresh DEF FreshInv
<1> QED BY <1>1, TypeCorrect, InitFresh, NextFresh, PTL DEF Spec, StatusNeverGoesBack, FreshInv

---------------------------------------------------------------------------
(* Followers show the cache.                                                 *)

Last(q) == q[Len(q)]

LEMMA LastOfTail ==
    ASSUME NEW S, NEW q \in Seq(S), q # <<>>
    PROVE  /\ Tail(q) = <<>> => Head(q) = Last(q)
           /\ Tail(q) # <<>> => Last(Tail(q)) = Last(q)
<1>1. /\ Len(q) \in Nat \ {0} /\ Tail(q) \in Seq(S) /\ Len(Tail(q)) = Len(q) - 1
      /\ \A i \in 1..Len(q) - 1 : Tail(q)[i] = q[i + 1]
  BY EmptySeq, HeadTailProperties
<1>2. CASE Tail(q) = <<>>
  <2>1. Len(Tail(q)) = Len(<<>>)
    BY <1>2, Zenon
  <2>2. Len(q) = 1
    BY <1>1, <2>1, EmptySeq
  <2> QED BY <1>2, <2>2, HeadTailProperties DEF Last
<1>3. CASE Tail(q) # <<>>
  <2>1. Len(q) - 1 \in 1..Len(q) - 1
    BY <1>1, <1>3, EmptySeq
  <2> QED BY <1>1, <1>3, <2>1 DEF Last
<1> QED BY <1>2, <1>3

\* What is on the way to a follower ends with the cache, also while it loads.
QueuesEndWithTheCache ==
    \A f \in Followers :
        following[f] # "no" /\ queue[f] # <<>> => Alike(Last(queue[f]), cached)

ViewsShowTheCache ==
    \A f \in Followers : following[f] = "yes" /\ queue[f] = <<>> => Alike(view[f], cached)

Shows == QueuesEndWithTheCache /\ ViewsShowTheCache

\* Only the order of a follower's messages matters, not the other variables.
LEMMA SameShows ==
    ASSUME Shows, UNCHANGED <<cached, following, queue, view>>
    PROVE  Shows'
BY DEF Shows, QueuesEndWithTheCache, ViewsShowTheCache, Alike, Last

\* One follower that is reset shows nothing, or what the cache holds.
LEMMA OneResets ==
    ASSUME TypeOK, Shows, NEW f \in Followers, NEW w, w # "yes",
           following' = [following EXCEPT ![f] = w], queue' = [queue EXCEPT ![f] = <<>>],
           UNCHANGED <<cached, view>>
    PROVE  Shows'
BY DEF TypeOK, Shows, QueuesEndWithTheCache, ViewsShowTheCache, Alike, Last

LEMMA InitShows == Init => Shows
BY DEF Init, Shows, QueuesEndWithTheCache, ViewsShowTheCache

LEMMA StoreShows ==
    ASSUME TypeOK, Shows, NEW t \in Tasks, Store(t)
    PROVE  Shows'
<1>1. cached' = read[t] /\ read[t] \in 0..MaxVersion /\ UNCHANGED <<following, view>>
  BY DEF TypeOK, Store, clients
<1>2. CASE UNCHANGED queue
  <2>1. CASE Alike(read[t], cached)
    BY <1>1, <1>2, <2>1 DEF Shows, QueuesEndWithTheCache, ViewsShowTheCache, Alike, Last
  <2>2. CASE ~Alike(read[t], cached)
    <3>1. queue' = [f \in Followers |-> IF Subscribed(f) THEN Append(queue[f], read[t])
                                        ELSE queue[f]]
      BY <2>2 DEF Store, Publishes
    <3>2. ASSUME NEW f \in Followers, Subscribed(f) PROVE FALSE
      <4>1. queue[f] = Append(queue[f], read[t]) /\ queue[f] \in Seq(0..MaxVersion)
        BY <1>2, <3>1, <3>2 DEF TypeOK
      <4>2. Len(Append(queue[f], read[t])) = Len(queue[f]) + 1 /\ Len(queue[f]) \in Nat
        BY <1>1, <4>1
      <4> QED BY <4>1, <4>2
    <3> QED BY <1>1, <3>2 DEF Shows, QueuesEndWithTheCache, ViewsShowTheCache, Subscribed
  <2> QED BY <2>1, <2>2
<1>3. CASE queue' = [f \in Followers |-> IF Subscribed(f) THEN Append(queue[f], read[t])
                                         ELSE queue[f]]
  <2>1. \A f \in Followers : Subscribed(f) =>
            queue'[f] = Append(queue[f], read[t]) /\ queue[f] \in Seq(0..MaxVersion)
    BY <1>3 DEF TypeOK
  <2>2. \A f \in Followers : Subscribed(f) => queue'[f] # <<>> /\ Last(queue'[f]) = read[t]
    BY <1>1, <2>1 DEF Last
  <2> QED BY <1>1, <2>2 DEF Shows, QueuesEndWithTheCache, ViewsShowTheCache, Subscribed, Alike
<1> QED BY <1>2, <1>3 DEF Store

LEMMA ReceiveShows ==
    ASSUME TypeOK, Shows, NEW f \in Followers, Receive(f)
    PROVE  Shows'
<1>1. /\ following[f] = "yes" /\ queue[f] # <<>> /\ queue[f] \in Seq(0..MaxVersion)
      /\ UNCHANGED <<cached, following>>
      /\ queue' = [queue EXCEPT ![f] = Tail(@)] /\ view' = [view EXCEPT ![f] = Head(queue[f])]
  BY DEF TypeOK, Receive, world
<1>2. Alike(Last(queue[f]), cached)
  BY <1>1 DEF Shows, QueuesEndWithTheCache
<1>3. /\ queue'[f] = Tail(queue[f]) /\ view'[f] = Head(queue[f])
      /\ \A g \in Followers : g # f => queue'[g] = queue[g] /\ view'[g] = view[g]
  BY <1>1 DEF TypeOK
<1>4. CASE Tail(queue[f]) = <<>>
  <2>1. Head(queue[f]) = Last(queue[f])
    BY <1>1, <1>4, LastOfTail
  <2> QED BY <1>1, <1>2, <1>3, <1>4, <2>1
          DEF Shows, QueuesEndWithTheCache, ViewsShowTheCache, Alike
<1>5. CASE Tail(queue[f]) # <<>>
  <2>1. Last(Tail(queue[f])) = Last(queue[f])
    BY <1>1, <1>5, LastOfTail
  <2> QED BY <1>1, <1>2, <1>3, <1>5, <2>1
          DEF Shows, QueuesEndWithTheCache, ViewsShowTheCache, Alike
<1> QED BY <1>4, <1>5

LEMMA NextShows == TypeOK /\ Shows /\ [Next]_vars => Shows'
<1> SUFFICES ASSUME TypeOK, Shows, [Next]_vars PROVE Shows'
  OBVIOUS
<1> USE DEF world, poller, clients
<1>1. ASSUME NEW r \in Requests, Ask(r) PROVE Shows'
  BY <1>1, SameShows DEF Ask
<1>2. CASE PollerWakes \/ PollerGone \/ RepositoryChanges \/ InterestChanges
  BY <1>2, SameShows DEF PollerWakes, PollerGone, RepositoryChanges, InterestChanges
<1>3. ASSUME NEW t \in Tasks, Reads(t) PROVE Shows'
  <2>1. CASE Store(t)
    BY <2>1, StoreShows
  <2>2. CASE ~Store(t)
    BY <1>3, <2>2, SameShows
       DEF Reads, Enter, ReadStatus, AutoPull, ReadAgain, ReadAgainFails, ReadFails
  <2> QED BY <2>1, <2>2
<1>4. ASSUME NEW f \in Followers, Follows(f) PROVE Shows'
  <2>1. CASE Subscribe(f)
    BY <2>1, OneResets DEF Subscribe
  <2>2. CASE LoadEnds(f)
    BY <2>2, OneResets DEF LoadEnds
  <2>3. CASE Leave(f)
    BY <2>3, OneResets DEF Leave
  <2>4. CASE Receive(f)
    BY <2>4, ReceiveShows
  <2>5. CASE Snapshot(f)
    BY <2>5 DEF Snapshot, TypeOK, Shows, QueuesEndWithTheCache, ViewsShowTheCache, Alike, Last
  <2> QED BY <1>4, <2>1, <2>2, <2>3, <2>4, <2>5 DEF Follows
<1>5. CASE UNCHANGED vars
  BY <1>5, SameShows DEF vars
<1> QED BY <1>1, <1>2, <1>3, <1>4, <1>5 DEF Next

\* Nothing that is stored is lost to a follower, also not what is published between
\* its subscription and its snapshot (VcsStatusBroadcaster.ts 284-354, 697-735).
THEOREM FollowersAreTold == Spec => []FollowersShowTheCache
<1>1. Shows => FollowersShowTheCache
  BY DEF Shows, QueuesEndWithTheCache, ViewsShowTheCache, FollowersShowTheCache, LastSent, Last
<1> QED BY <1>1, TypeCorrect, InitShows, NextShows, PTL DEF Spec

---------------------------------------------------------------------------
(* The coalescing worker.                                                    *)

HIDE DEF world, poller, clients

Waiting(r) == r \in latestByKey[KeyOf[r]]
InWork(r) == current.tag = "item" /\ r \in current.value

\* The requests of a key that were enqueued.
Of(k) == {r \in enqueued : KeyOf[r] = k}

\* A value holds requests of its key only.
UnderItsKey ==
    /\ \A k \in Keys : latestByKey[k] \subseteq Of(k)
    /\ current.tag = "item" => current.value \subseteq Of(current.key)
    /\ processed \subseteq enqueued /\ failed \subseteq enqueued

InOnePlace ==
    \A r \in enqueued :
        /\ Waiting(r) \/ InWork(r) \/ r \in processed \/ r \in failed
        /\ Waiting(r) => ~InWork(r) /\ r \notin processed /\ r \notin failed
        /\ InWork(r) => r \notin processed /\ r \notin failed
        /\ r \in processed => r \notin failed

ActiveWhileProcessed == current.tag = "item" => current.key \in activeKeys

WorkerInv == WorkerTypeOK /\ UnderItsKey /\ InOnePlace /\ ActiveWhileProcessed /\ DrainedMeansDone

---------------------------------------------------------------------------
\* What is in hand is idle or an item of a key with a value.
LEMMA CurrentIs ==
    ASSUME WorkerTypeOK
    PROVE  /\ current = Idle <=> current.tag # "item"
           /\ current # Idle => /\ current.tag = "item" /\ current.key \in Keys
                                /\ current.value \subseteq Inputs /\ current.value # {}
<1>1. current \in ItemState
  BY DEF WorkerTypeOK
<1>2. CASE current \in [tag : {"none"}]
  <2>1. \A c \in [tag : {"none"}] : c = [tag |-> "none"]
    OBVIOUS
  <2>2. current = Idle /\ current.tag = "none"
    BY <1>2, <2>1 DEF Idle
  <2> QED BY <2>2
<1>3. CASE current \in [tag : {"item"}, key : Keys, value : (SUBSET Inputs) \ {{}}]
  <2>1. /\ current.tag = "item" /\ current.key \in Keys
        /\ current.value \in (SUBSET Inputs) \ {{}}
    BY <1>3
  <2>2. Idle.tag = "none"
    BY DEF Idle
  <2> QED BY <2>1, <2>2
<1> QED BY <1>1, <1>2, <1>3 DEF ItemState

LEMMA TakenIs ==
    ASSUME WorkerTypeOK, taken # NoKey
    PROVE  taken.key \in Keys
BY DEF WorkerTypeOK, KeyState, NoKey

LEMMA ItemIs ==
    ASSUME NEW k \in Keys, NEW v \in SUBSET Inputs, v # {}
    PROVE  /\ Item(k, v) \in ItemState
           /\ Item(k, v).tag = "item" /\ Item(k, v).key = k /\ Item(k, v).value = v
<1>1. v \in (SUBSET Inputs) \ {{}}
  OBVIOUS
<1>2. Item(k, v) \in [tag : {"item"}, key : Keys, value : (SUBSET Inputs) \ {{}}]
  BY <1>1 DEF Item
<1> QED BY <1>2 DEF Item, ItemState

LEMMA IdleIs == Idle \in ItemState /\ Idle.tag # "item"
BY DEF Idle, ItemState

---------------------------------------------------------------------------
LEMMA WorkerInitInv == WorkerInit => WorkerInv
<1> SUFFICES ASSUME WorkerInit PROVE WorkerInv
  OBVIOUS
<1>1. WorkerTypeOK
  <2>1. keyQueue \in Seq(Keys)
    BY DEF WorkerInit
  <2>2. taken \in KeyState
    BY DEF WorkerInit, NoKey, KeyState
  <2> QED BY <2>1, <2>2, IdleIs, WorkerAssumption DEF WorkerInit, WorkerTypeOK
<1>2. UnderItsKey /\ InOnePlace /\ ActiveWhileProcessed /\ DrainedMeansDone
  BY IdleIs DEF WorkerInit, UnderItsKey, InOnePlace, ActiveWhileProcessed, DrainedMeansDone
<1> QED BY <1>1, <1>2 DEF WorkerInv

LEMMA EnqueueKeeps ==
    ASSUME WorkerInv, NEW r \in Inputs, Enqueue(r)
    PROVE  WorkerInv'
<1> DEFINE k == KeyOf[r]
<1>1. k \in Keys /\ WorkerTypeOK /\ r \notin enqueued /\ enqueued' = enqueued \cup {r}
  BY WorkerAssumption DEF WorkerInv, Enqueue
<1>2. latestByKey' = [latestByKey EXCEPT ![k] = @ \cup {r}]
  BY DEF Enqueue, Merge
<1>3. UNCHANGED <<activeKeys, taken, current, processed, failed, drained, valueFailures>>
  BY DEF Enqueue
<1>4. WorkerTypeOK'
  <2>1. keyQueue' \in Seq(Keys) /\ queuedKeys' \subseteq Keys
    BY <1>1, AppendProperties DEF Enqueue, WorkerTypeOK
  <2>2. latestByKey' \in [Keys -> SUBSET Inputs]
    BY <1>1, <1>2 DEF WorkerTypeOK
  <2> QED BY <1>1, <1>3, <2>1, <2>2 DEF WorkerTypeOK
<1>5. UnderItsKey'
  BY <1>1, <1>2, <1>3 DEF UnderItsKey, Of, WorkerInv, WorkerTypeOK
<1>6. InOnePlace'
  <2> SUFFICES ASSUME NEW s \in enqueued'
               PROVE  /\ Waiting(s)' \/ InWork(s)' \/ s \in processed' \/ s \in failed'
                      /\ Waiting(s)' => ~InWork(s)' /\ s \notin processed' /\ s \notin failed'
                      /\ InWork(s)' => s \notin processed' /\ s \notin failed'
                      /\ s \in processed' => s \notin failed'
    BY DEF InOnePlace
  <2>1. InWork(s)' <=> InWork(s)
    BY <1>3 DEF InWork
  <2>2. CASE s = r
    <3>1. ~InWork(r) /\ r \notin processed /\ r \notin failed
      BY <1>1 DEF WorkerInv, UnderItsKey, InWork, Of
    <3>2. Waiting(r)'
      BY <1>1, <1>2 DEF Waiting, WorkerTypeOK
    <3> QED BY <1>3, <2>1, <2>2, <3>1, <3>2
  <2>3. CASE s # r
    <3>1. s \in enqueued /\ KeyOf[s] \in Keys
      BY <1>1, <2>3, WorkerAssumption DEF WorkerTypeOK
    <3>2. Waiting(s)' <=> Waiting(s)
      BY <1>1, <1>2, <2>3, <3>1 DEF Waiting, WorkerTypeOK
    <3> QED BY <1>3, <2>1, <3>1, <3>2 DEF WorkerInv, InOnePlace
  <2> QED BY <2>2, <2>3
<1>7. ActiveWhileProcessed' /\ DrainedMeansDone'
  BY <1>3 DEF WorkerInv, ActiveWhileProcessed, DrainedMeansDone
<1> QED BY <1>4, <1>5, <1>6, <1>7 DEF WorkerInv

LEMMA TakeKeyKeeps ==
    ASSUME WorkerInv, TakeKey
    PROVE  WorkerInv'
<1>1. WorkerTypeOK'
  <2>1. keyQueue \in Seq(Keys) /\ keyQueue # <<>>
    BY DEF TakeKey, WorkerInv, WorkerTypeOK
  <2>2. Head(keyQueue) \in Keys /\ Tail(keyQueue) \in Seq(Keys)
    BY <2>1, HeadTailProperties
  <2>3. Some(Head(keyQueue)) \in KeyState
    BY <2>2 DEF Some, KeyState
  <2> QED BY <2>2, <2>3 DEF TakeKey, WorkerInv, WorkerTypeOK
<1>2. UNCHANGED <<latestByKey, activeKeys, current, enqueued, processed, failed, drained>>
  BY DEF TakeKey
<1>3. UnderItsKey' /\ InOnePlace' /\ ActiveWhileProcessed' /\ DrainedMeansDone'
  BY <1>2 DEF WorkerInv, UnderItsKey, Of, InOnePlace, Waiting, InWork, ActiveWhileProcessed,
              DrainedMeansDone
<1> QED BY <1>1, <1>3 DEF WorkerInv

\* The value that waits under a key goes in hand; what was in hand, if anything,
\* is recorded as dealt with in "processed".
LEMMA TakesUp ==
    ASSUME WorkerInv, WorkerTypeOK', NEW k \in Keys, ~Absent(k),
           current' = Item(k, latestByKey[k]),
           latestByKey' = [latestByKey EXCEPT ![k] = {}],
           processed' = processed \cup (IF current = Idle THEN {} ELSE current.value),
           UNCHANGED <<enqueued, failed, drained>>, k \in activeKeys'
    PROVE  WorkerInv'
<1>1. /\ latestByKey[k] \in SUBSET Inputs /\ latestByKey[k] # {}
      /\ latestByKey \in [Keys -> SUBSET Inputs] /\ WorkerTypeOK
  BY DEF Absent, WorkerInv, WorkerTypeOK
<1>2. current'.tag = "item" /\ current'.key = k /\ current'.value = latestByKey[k]
  BY <1>1, ItemIs
<1>3. UnderItsKey'
  BY <1>1, <1>2, CurrentIs DEF WorkerInv, UnderItsKey, Of
<1>4. InOnePlace'
  <2> SUFFICES ASSUME NEW s \in enqueued
               PROVE  /\ Waiting(s)' \/ InWork(s)' \/ s \in processed' \/ s \in failed'
                      /\ Waiting(s)' => ~InWork(s)' /\ s \notin processed' /\ s \notin failed'
                      /\ InWork(s)' => s \notin processed' /\ s \notin failed'
                      /\ s \in processed' => s \notin failed'
    BY DEF InOnePlace
  <2>1. KeyOf[s] \in Keys
    BY <1>1, WorkerAssumption DEF WorkerTypeOK
  <2>2. s \in latestByKey[k] => KeyOf[s] = k
    BY DEF WorkerInv, UnderItsKey, Of
  <2>3. InWork(s)' <=> (Waiting(s) /\ KeyOf[s] = k)
    BY <1>2, <2>2 DEF InWork, Waiting
  <2>4. Waiting(s)' <=> (Waiting(s) /\ KeyOf[s] # k)
    BY <1>1, <2>1 DEF Waiting
  <2>5. s \in processed' <=> s \in processed \/ InWork(s)
    BY <1>1, CurrentIs DEF InWork
  <2> QED BY <2>3, <2>4, <2>5 DEF WorkerInv, InOnePlace
<1>5. ActiveWhileProcessed'
  BY <1>2 DEF ActiveWhileProcessed
<1>6. DrainedMeansDone'
  BY DEF WorkerInv, DrainedMeansDone
<1> QED BY <1>3, <1>4, <1>5, <1>6 DEF WorkerInv

LEMMA ActivateKeyKeeps ==
    ASSUME WorkerInv, ActivateKey, current = Idle
    PROVE  WorkerInv'
<1> DEFINE k == taken.key
<1>1. k \in Keys
  BY TakenIs DEF ActivateKey, WorkerInv
<1>2. NoKey \in KeyState
  BY DEF NoKey, KeyState
<1>3. CASE Absent(k)
  <2>1. UNCHANGED <<latestByKey, activeKeys, current, enqueued, processed, failed, drained>>
    BY <1>3 DEF ActivateKey
  <2>2. WorkerTypeOK'
    BY <1>2, <2>1 DEF ActivateKey, WorkerInv, WorkerTypeOK
  <2>3. UnderItsKey' /\ InOnePlace' /\ ActiveWhileProcessed' /\ DrainedMeansDone'
    BY <2>1 DEF WorkerInv, UnderItsKey, Of, InOnePlace, Waiting, InWork, ActiveWhileProcessed,
                DrainedMeansDone
  <2> QED BY <2>2, <2>3 DEF WorkerInv
<1>4. CASE ~Absent(k)
  <2>1. /\ current' = Item(k, latestByKey[k])
        /\ latestByKey' = [latestByKey EXCEPT ![k] = {}]
        /\ activeKeys' = activeKeys \cup {k} /\ processed' = processed
        /\ UNCHANGED <<enqueued, failed, drained>>
    BY <1>4 DEF ActivateKey
  <2>2. current' \in ItemState
    BY <1>1, <1>4, <2>1, ItemIs DEF WorkerInv, WorkerTypeOK, Absent
  <2>3. WorkerTypeOK'
    BY <1>1, <1>2, <2>1, <2>2 DEF ActivateKey, WorkerInv, WorkerTypeOK
  <2> QED BY <1>1, <1>4, <2>1, <2>3, TakesUp
<1> QED BY <1>3, <1>4

\* What is in hand goes, and is recorded in "processed" or in "failed".
LEMMA PutsDown ==
    ASSUME WorkerInv, WorkerTypeOK', current # Idle, current' = Idle,
           \/ processed' = processed \cup current.value /\ failed' = failed
           \/ failed' = failed \cup current.value /\ processed' = processed,
           UNCHANGED <<latestByKey, enqueued, drained>>
    PROVE  WorkerInv'
<1>1. current'.tag # "item"
  BY IdleIs
<1>2. current.tag = "item"
  BY CurrentIs DEF WorkerInv
<1>3. UnderItsKey'
  BY <1>1, <1>2 DEF WorkerInv, UnderItsKey, Of
<1>4. InOnePlace'
  BY <1>1, <1>2 DEF WorkerInv, InOnePlace, Waiting, InWork
<1>5. ActiveWhileProcessed' /\ DrainedMeansDone'
  BY <1>1 DEF WorkerInv, ActiveWhileProcessed, DrainedMeansDone
<1> QED BY <1>3, <1>4, <1>5 DEF WorkerInv

LEMMA ProcessKeyKeeps ==
    ASSUME WorkerInv, ProcessKey
    PROVE  WorkerInv'
<1> DEFINE k == current.key
<1>1. /\ current # Idle /\ k \in Keys /\ current.value \subseteq Inputs
      /\ k \in activeKeys /\ processed' = processed \cup current.value
      /\ UNCHANGED <<keyQueue, queuedKeys, taken, enqueued, failed, drained, valueFailures>>
  BY CurrentIs DEF ProcessKey, WorkerInv, ActiveWhileProcessed
<1>2. CASE Absent(k)
  <2>1. activeKeys' = activeKeys \ {k} /\ current' = Idle /\ UNCHANGED latestByKey
    BY <1>2 DEF ProcessKey
  <2>2. WorkerTypeOK'
    BY <1>1, <2>1, IdleIs DEF WorkerInv, WorkerTypeOK
  <2> QED BY <1>1, <2>1, <2>2, PutsDown
<1>3. CASE ~Absent(k)
  <2>1. /\ current' = Item(k, latestByKey[k])
        /\ latestByKey' = [latestByKey EXCEPT ![k] = {}] /\ UNCHANGED activeKeys
    BY <1>3 DEF ProcessKey
  <2>2. current' \in ItemState
    BY <1>1, <1>3, <2>1, ItemIs DEF WorkerInv, WorkerTypeOK, Absent
  <2>3. WorkerTypeOK'
    BY <1>1, <2>1, <2>2 DEF WorkerInv, WorkerTypeOK
  <2> QED BY <1>1, <1>3, <2>1, <2>3, TakesUp
<1> QED BY <1>2, <1>3

LEMMA ProcessFailsKeeps ==
    ASSUME WorkerInv, ProcessFails
    PROVE  WorkerInv'
<1> DEFINE k == current.key
<1>1. /\ current # Idle /\ k \in Keys /\ current.value \subseteq Inputs
      /\ current' = Idle /\ failed' = failed \cup current.value
      /\ UNCHANGED <<latestByKey, taken, enqueued, processed, drained>>
  BY CurrentIs DEF ProcessFails, WorkerInv
<1>2. valueFailures' \in 0..MaxValueFailures
  BY WorkerAssumption DEF ProcessFails, WorkerInv, WorkerTypeOK
<1>3. keyQueue' \in Seq(Keys) /\ queuedKeys' \subseteq Keys /\ activeKeys' \subseteq Keys
  <2>1. /\ activeKeys' = activeKeys \ {k}
        /\ \/ queuedKeys' = queuedKeys \cup {k} /\ keyQueue' = Append(keyQueue, k)
           \/ UNCHANGED <<queuedKeys, keyQueue>>
    BY DEF ProcessFails
  <2>2. keyQueue \in Seq(Keys) /\ queuedKeys \subseteq Keys /\ activeKeys \subseteq Keys
    BY DEF WorkerInv, WorkerTypeOK
  <2> QED BY <1>1, <2>1, <2>2, AppendProperties
<1>4. WorkerTypeOK'
  BY <1>1, <1>2, <1>3, IdleIs DEF WorkerInv, WorkerTypeOK
<1> QED BY <1>1, <1>4, PutsDown

LEMMA DrainKeyKeeps ==
    ASSUME WorkerInv, NEW k \in Keys, DrainKey(k)
    PROVE  WorkerInv'
<1>1. /\ UNCHANGED <<keyQueue, latestByKey, queuedKeys, activeKeys, taken, current, enqueued,
                     processed, failed, valueFailures>>
      /\ drained' = drained \cup Of(k)
  BY DEF DrainKey, Of
<1>2. Of(k) \subseteq processed \cup failed
  <2> SUFFICES ASSUME NEW r \in enqueued, KeyOf[r] = k
               PROVE  r \in processed \cup failed
    BY DEF Of
  <2>1. ~Waiting(r)
    BY DEF DrainKey, Drained, Waiting
  <2>2. ~InWork(r)
    BY DEF DrainKey, Drained, InWork, WorkerInv, UnderItsKey, ActiveWhileProcessed, Of
  <2> QED BY <2>1, <2>2 DEF WorkerInv, InOnePlace
<1>3. WorkerTypeOK'
  BY <1>1 DEF WorkerInv, WorkerTypeOK, Of
<1>4. UnderItsKey' /\ InOnePlace' /\ ActiveWhileProcessed'
  BY <1>1 DEF WorkerInv, UnderItsKey, Of, InOnePlace, Waiting, InWork, ActiveWhileProcessed
<1>5. DrainedMeansDone'
  BY <1>1, <1>2 DEF WorkerInv, DrainedMeansDone
<1> QED BY <1>3, <1>4, <1>5 DEF WorkerInv

---------------------------------------------------------------------------
\* The worker has one fiber: a key that was taken is looked up before the next
\* value is in hand.
OneFiber == taken # NoKey => current = Idle

LEMMA OneFiberHolds ==
    ASSUME OneFiber, WorkerTypeOK, [WorkerNext]_workerVars
    PROVE  OneFiber'
<1>1. CASE UNCHANGED workerVars
  BY <1>1 DEF OneFiber, workerVars
<1>2. CASE TakeKey \/ ActivateKey
  BY <1>2 DEF TakeKey, ActivateKey, OneFiber
<1>3. CASE ProcessKey \/ ProcessFails
  BY <1>3 DEF ProcessKey, ProcessFails, OneFiber
<1>4. CASE \E r \in Inputs : Enqueue(r)
  BY <1>4 DEF Enqueue, OneFiber
<1>5. CASE \E k \in Keys : DrainKey(k)
  BY <1>5 DEF DrainKey, OneFiber
<1> QED BY <1>1, <1>2, <1>3, <1>4, <1>5 DEF WorkerNext, Worker

LEMMA WorkerNextInv ==
    ASSUME WorkerInv, OneFiber, [WorkerNext]_workerVars
    PROVE  WorkerInv'
<1>1. CASE UNCHANGED workerVars
  BY <1>1 DEF workerVars, WorkerInv, WorkerTypeOK, UnderItsKey, Of, InOnePlace, Waiting, InWork,
              ActiveWhileProcessed, DrainedMeansDone
<1>2. CASE ActivateKey
  BY <1>2, ActivateKeyKeeps DEF OneFiber, ActivateKey
<1> QED BY <1>1, <1>2, EnqueueKeeps, TakeKeyKeeps, ProcessKeyKeeps, ProcessFailsKeeps,
           DrainKeyKeeps DEF WorkerNext, Worker

LEMMA WorkerInvariant == WorkerSpec => [](WorkerInv /\ OneFiber)
<1>1. WorkerInit => WorkerInv /\ OneFiber
  BY WorkerInitInv DEF WorkerInit, OneFiber
<1>2. WorkerInv /\ OneFiber /\ [WorkerNext]_workerVars => (WorkerInv /\ OneFiber)'
  BY WorkerNextInv, OneFiberHolds DEF WorkerInv
<1> QED BY <1>1, <1>2, PTL DEF WorkerSpec

\* The tables hold keys, and a value in hand is never empty: the fiber does not
\* process a key for which nothing came in (KeyedCoalescingWorker.ts 79-98).
THEOREM WorkerTypeCorrect == WorkerSpec => []WorkerTypeOK
<1>1. WorkerInv => WorkerTypeOK
  BY DEF WorkerInv
<1> QED BY <1>1, WorkerInvariant, PTL

\* No request is lost or handled twice, for any number of keys, requests and
\* failures (KeyedCoalescingWorker.ts 38-76).
THEOREM NoneLostNoneTwice == WorkerSpec => []EachRequestOnce
<1>1. WorkerInv => EachRequestOnce
  <2> SUFFICES ASSUME WorkerInv, NEW r \in enqueued
               PROVE  Cardinality({c \in {"waiting", "current", "processed", "failed"} :
                          \/ c = "waiting" /\ r \in latestByKey[KeyOf[r]]
                          \/ c = "current" /\ current.tag = "item" /\ r \in current.value
                          \/ c = "processed" /\ r \in processed
                          \/ c = "failed" /\ r \in failed}) = 1
    BY DEF EachRequestOnce
  <2> DEFINE places == {c \in {"waiting", "current", "processed", "failed"} :
                          \/ c = "waiting" /\ r \in latestByKey[KeyOf[r]]
                          \/ c = "current" /\ current.tag = "item" /\ r \in current.value
                          \/ c = "processed" /\ r \in processed
                          \/ c = "failed" /\ r \in failed}
  <2>1. \E c : places = {c}
    <3>1. CASE Waiting(r)
      <4>1. places = {"waiting"}
        BY <3>1 DEF WorkerInv, InOnePlace, Waiting, InWork
      <4> QED BY <4>1
    <3>2. CASE InWork(r)
      <4>1. places = {"current"}
        BY <3>2 DEF WorkerInv, InOnePlace, Waiting, InWork
      <4> QED BY <4>1
    <3>3. CASE r \in processed
      <4>1. places = {"processed"}
        BY <3>3 DEF WorkerInv, InOnePlace, Waiting, InWork
      <4> QED BY <4>1
    <3>4. CASE r \in failed
      <4>1. places = {"failed"}
        BY <3>4 DEF WorkerInv, InOnePlace, Waiting, InWork
      <4> QED BY <4>1
    <3> QED BY <3>1, <3>2, <3>3, <3>4 DEF WorkerInv, InOnePlace
  <2> HIDE DEF places
  <2>2. Cardinality(places) = 1
    BY <2>1, FS_Singleton
  <2> QED BY <2>2 DEF places
<1> QED BY <1>1, WorkerInvariant, PTL

\* A drainKey that returns has waited for everything enqueued before
\* (KeyedCoalescingWorker.ts 130-139).
THEOREM DrainWaits == WorkerSpec => []DrainedMeansDone
<1>1. WorkerInv => DrainedMeansDone
  BY DEF WorkerInv
<1> QED BY <1>1, WorkerInvariant, PTL
=============================================================================
