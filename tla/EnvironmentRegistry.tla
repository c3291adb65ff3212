------------------------- MODULE EnvironmentRegistry -------------------------
(***************************************************************************)
(* How a client keeps one environment: its catalog entry, the supervisor that *)
(* runs for it and the copy of the registration on disk                        *)
(* (client-runtime, connection/registry.ts).  Registrations by the user,       *)
(* reconciliation with what the platform reports, removals and everything      *)
(* that needs the supervisor run under a lock of the environment, which is     *)
(* made when it is first asked for and dropped with its last user.  A          *)
(* follower (followStream) watches the catalog and works with the supervisor   *)
(* of the entry it has last seen.                                           *)
(*                                                                         *)
(* Abstractions: one environment, since locks, entries and scopes are kept by  *)
(* environment.  Supervisors are numbered.  Credentials and the clearing of     *)
(* cached data after a removal are left out.                                   *)
(***************************************************************************)
EXTENDS Naturals, Sequences, FiniteSets

CONSTANTS
    Entries,          \* catalog entries the environment may have
    None,
    MaxRequests       \* bound: requests that are made

ASSUME RegistryAssumption == None \notin Entries /\ MaxRequests \in Nat

VARIABLES
    entry,            \* entries[environment]
    scope,            \* serviceScopes[environment]
    live,             \* supervisors whose scope is not closed
    made,             \* supervisors so far
    platform,         \* the platform reports the environment
    persisted,        \* the registration is on disk
    lock,             \* leaseLocks[environment], and how many were made
    task,             \* what each requester is doing
    emissions,        \* values of entries the follower has not seen yet
    seen, following,  \* the entry and the supervisor the follower works with
    repeated,         \* bookkeeping: the entry was installed again unchanged
    requests          \* bound

registryVars == <<entry, scope, live, made, platform, persisted, lock, task, emissions, seen,
                  following, repeated, requests>>

Supervisors == 1..MaxRequests + 1
\* The platform's reconciliation is one fiber, the user's requests are serial.
Requesters == {"platform", "user", "query", "follower"}
NoScope == [entry |-> None, supervisor |-> 0]
NoLock == [id |-> 0, users |-> 0]

Kinds == {"register", "install", "remove", "removePlatform", "acquire"}
Steps == {"idle", "waiting", "inside", "closing", "installing", "creating", "leaving"}
NoTask == [kind |-> "acquire", step |-> "idle", lock |-> 0, entry |-> None, closes |-> 0]
WaitingTask(kind, id, e) ==
    [kind |-> kind, step |-> "waiting", lock |-> id, entry |-> e, closes |-> 0]

RegistryInit ==
    /\ entry \in Entries \cup {None} /\ scope = NoScope /\ live = {} /\ made = 0
    /\ platform = FALSE /\ persisted = (entry # None)
    /\ lock = [current |-> NoLock, made |-> 0]
    /\ task = [r \in Requesters |-> NoTask]
    /\ emissions = <<entry>> /\ seen = None /\ following = 0
    /\ repeated = FALSE
    /\ requests = 0

---------------------------------------------------------------------------
(* withLeaseLock.                                                           *)

Held(id) == \E r \in Requesters : task[r].lock = id /\ task[r].step \notin {"idle", "waiting"}

\* Joining: the lock that is there, or a new one.
Join(r, kind, e) ==
    /\ task[r].step = "idle"
    /\ LET new == IF lock.current.users = 0 THEN lock.made + 1 ELSE lock.current.id
       IN  /\ lock' = [current |-> [id |-> new, users |-> lock.current.users + 1],
                       made |-> IF new > lock.made THEN new ELSE lock.made]
           /\ task' = [task EXCEPT ![r] = WaitingTask(kind, new, e)]

Enter(r) ==
    /\ task[r].step = "waiting" /\ ~Held(task[r].lock)
    /\ task' = [task EXCEPT ![r].step = "inside"]
    /\ UNCHANGED <<entry, scope, live, made, platform, persisted, lock, emissions, seen,
                   following, repeated, requests>>

\* The lock goes with whoever leaves first.
DroppedWithFirst(id) == IF lock.current.id = id THEN [lock EXCEPT !.current = NoLock] ELSE lock
\* The lock goes with its last user.
Dropped(id) ==
    IF lock.current.id # id THEN lock
    ELSE IF lock.current.users = 1 THEN [lock EXCEPT !.current = NoLock]
    ELSE [lock EXCEPT !.current = [id |-> id, users |-> lock.current.users - 1]]

Leave(r) ==
    /\ task[r].step = "leaving"
    /\ lock' = Dropped(task[r].lock)
    /\ task' = [task EXCEPT ![r] = NoTask]
    /\ UNCHANGED <<entry, scope, live, made, platform, persisted, emissions, seen,
                   following, repeated, requests>>

Step(r, step) == task' = [task EXCEPT ![r].step = step]

---------------------------------------------------------------------------
(* Requests.                                                                *)

Request(r, kind, e) ==
    /\ requests < MaxRequests /\ requests' = requests + 1
    /\ Join(r, kind, e)
    /\ UNCHANGED <<entry, scope, live, made, platform, persisted, emissions, seen,
                   following, repeated>>

Register == \E e \in Entries : Request("user", "register", e)
RemoveEnvironment == Request("user", "remove", None)
Query == Request("query", "acquire", None)

\* reconcilePlatform: what is gone is removed, what is reported is installed.
Reconcile ==
    \/ platform /\ Request("platform", "removePlatform", None)
    \/ \E e \in Entries : Request("platform", "install", e)

---------------------------------------------------------------------------
(* Inside the lock.                                                         *)

EntriesUnchanged == UNCHANGED <<entry, emissions, repeated>>
FollowerUnchanged == UNCHANGED <<seen, following>>

\* closeServiceScope: out of the table first, then closed.
TakeScope(r) ==
    /\ scope' = NoScope
    /\ task' = [task EXCEPT ![r].step = "closing", ![r].closes = scope.supervisor]
    /\ UNCHANGED <<live, made>>

\* Whoever waits for the lock acts on what it decided before.
DecideWithoutPlatform == FALSE
\* "rechecks platform ownership after waiting for the environment lease".
OwnedByPlatform == platform

BeginRegister(r) ==
    /\ task[r].step = "inside" /\ task[r].kind = "register"
    /\ \/ /\ OwnedByPlatform
          /\ Step(r, "leaving") /\ UNCHANGED persisted
       \/ /\ ~OwnedByPlatform
          /\ \/ Step(r, "installing") /\ persisted' = TRUE
             \/ Step(r, "leaving") /\ UNCHANGED persisted      \* the registration cannot be saved
    /\ EntriesUnchanged /\ FollowerUnchanged
    /\ UNCHANGED <<scope, live, made, platform, lock, requests>>

\* The saved registration that the platform's shadows is removed, if it can be.
BeginInstall(r) ==
    /\ task[r].step = "inside" /\ task[r].kind = "install"
    /\ platform' = TRUE
    /\ persisted' \in {FALSE, persisted}
    /\ Step(r, IF entry = task[r].entry /\ scope.entry = task[r].entry THEN "leaving" ELSE "installing")
    /\ EntriesUnchanged /\ FollowerUnchanged
    /\ UNCHANGED <<scope, live, made, lock, requests>>

BeginRemove(r) ==
    /\ task[r].step = "inside" /\ task[r].kind = "remove"
    /\ \/ /\ OwnedByPlatform \/ entry = None
          /\ Step(r, "leaving") /\ UNCHANGED <<persisted, scope, live, made>>
       \/ /\ ~OwnedByPlatform /\ entry # None
          /\ \/ Step(r, "leaving") /\ UNCHANGED <<persisted, scope, live, made>>
             \/ persisted' = FALSE /\ TakeScope(r)
    /\ EntriesUnchanged /\ FollowerUnchanged
    /\ UNCHANGED <<platform, lock, requests>>

BeginRemovePlatform(r) ==
    /\ task[r].step = "inside" /\ task[r].kind = "removePlatform"
    /\ platform' = FALSE
    /\ TakeScope(r)
    /\ EntriesUnchanged /\ FollowerUnchanged
    /\ UNCHANGED <<persisted, lock, requests>>

BeginInstallEntry(r) ==
    /\ task[r].step = "installing"
    /\ TakeScope(r)
    /\ EntriesUnchanged /\ FollowerUnchanged
    /\ UNCHANGED <<platform, persisted, lock, requests>>

\* The supervisor that was in the table is closed.
CloseOld(r) == live \ {task[r].closes}

\* An entry that replaces another is changed in place, unnoticed.
EmittedIfNew(e) == IF e # None /\ entry # None THEN emissions ELSE Append(emissions, e)
\* SubscriptionRef.update: whoever watches the catalog sees every value.
Emitted(e) == Append(emissions, e)

Removal(r) == task[r].kind \in {"remove", "removePlatform"}

\* The old supervisor is closed and the entry replaced or deleted.
ReplaceEntry(r) ==
    /\ task[r].step = "closing"
    /\ live' = CloseOld(r)
    /\ entry' = IF Removal(r) THEN None ELSE task[r].entry
    /\ emissions' = Emitted(entry')
    /\ repeated' = (entry' # None /\ entry' = entry)
    /\ Step(r, IF Removal(r) THEN "leaving" ELSE "creating")
    /\ FollowerUnchanged
    /\ UNCHANGED <<scope, made, platform, persisted, lock, requests>>

\* createServiceScope: a new supervisor, already asked to connect, is published.
Create(r) ==
    /\ task[r].step = "creating"
    /\ made' = made + 1 /\ live' = live \cup {made + 1}
    /\ scope' = [entry |-> entry, supervisor |-> made + 1]
    /\ Step(r, "leaving")
    /\ following' = IF r = "follower" THEN made + 1 ELSE following
    /\ EntriesUnchanged
    /\ UNCHANGED <<platform, persisted, lock, seen, requests>>

\* acquireSupervisor: none without an entry; the one that runs; or a new one.
\* That the one that runs is for another entry, which the code provides for,
\* does not happen (NoStraySupervisor).
BeginAcquire(r) ==
    /\ task[r].step = "inside" /\ task[r].kind = "acquire"
    /\ Step(r, IF entry = None \/ scope.entry = entry THEN "leaving" ELSE "creating")
    /\ following' = IF r = "follower" /\ entry # None /\ scope.entry = entry
                    THEN scope.supervisor ELSE following
    /\ EntriesUnchanged
    /\ UNCHANGED <<scope, live, made, platform, persisted, lock, seen, requests>>

---------------------------------------------------------------------------
(* The follower.                                                            *)

\* A value of the catalog: unchanged ones are dropped, another one ends the work
\* with the old supervisor and asks for the new one.  One that still waits for
\* the lock gives up its place.
Watch ==
    /\ emissions # <<>>
    /\ task["follower"].step \in {"idle", "waiting"}
    /\ emissions' = Tail(emissions)
    /\ LET next == Head(emissions)
           freed == IF task["follower"].step = "waiting"
                    THEN [lock |-> Dropped(task["follower"].lock), task |-> [task EXCEPT !["follower"] = NoTask]]
                    ELSE [lock |-> lock, task |-> task]
           new == IF freed.lock.current.users = 0 THEN freed.lock.made + 1 ELSE freed.lock.current.id
       IN  IF next = seen THEN UNCHANGED <<seen, following, lock, task>>
           ELSE /\ seen' = next /\ following' = 0
                /\ IF next = None
                   THEN lock' = freed.lock /\ task' = freed.task
                   ELSE /\ lock' = [current |-> [id |-> new, users |-> freed.lock.current.users + 1],
                                    made |-> IF new > freed.lock.made THEN new ELSE freed.lock.made]
                        /\ task' = [freed.task EXCEPT !["follower"] = WaitingTask("acquire", new, None)]
    /\ UNCHANGED <<entry, scope, live, made, platform, persisted, repeated, requests>>

---------------------------------------------------------------------------
Inside(r) ==
    \/ BeginRegister(r) \/ BeginInstall(r) \/ BeginRemove(r) \/ BeginRemovePlatform(r)
    \/ BeginInstallEntry(r) \/ ReplaceEntry(r) \/ Create(r) \/ BeginAcquire(r)

Requested == Register \/ RemoveEnvironment \/ Query \/ Reconcile

Work == Watch \/ \E r \in Requesters : Enter(r) \/ Inside(r) \/ Leave(r)

RegistryNext == Requested \/ Work

RegistrySpec == RegistryInit /\ [][RegistryNext]_registryVars

RegistryFairness == WF_registryVars(Work)
RegistryFairSpec == RegistrySpec /\ RegistryFairness

---------------------------------------------------------------------------
RegistryTypeOK ==
    /\ entry \in Entries \cup {None}
    /\ scope \in [entry : Entries \cup {None}, supervisor : Nat]
    /\ live \subseteq 1..made /\ made \in Nat
    /\ {platform, persisted, repeated} \subseteq BOOLEAN
    /\ lock \in [current : [id : Nat, users : 0..Cardinality(Requesters)], made : Nat]
    /\ task \in [Requesters -> [kind : Kinds, step : Steps, lock : Nat,
                             entry : Entries \cup {None}, closes : 0..made]]
    /\ emissions \in Seq(Entries \cup {None}) /\ seen \in Entries \cup {None} /\ following \in Nat
    /\ requests \in 0..MaxRequests

Busy == {r \in Requesters : task[r].step \notin {"idle", "waiting"}}

\* There is never a supervisor beside the one in the table: two would hold two
\* connections to one server, and nobody would close the other (registry.ts
\* 231-266, 377-390).
NoStraySupervisor ==
    /\ Cardinality(live) <= 1
    /\ Busy = {} => /\ live = (IF scope = NoScope THEN {} ELSE {scope.supervisor})
                    /\ scope.entry \in {None, entry}

\* What the platform reports keeps its entry: the user's registrations and
\* removals do not replace it (registry.ts 400-405, 554-559).
PlatformKeepsItsEntry ==
    [][platform /\ platform' /\ entry' # entry =>
         \E r \in Requesters : task[r].kind = "install" /\ task[r].step = "closing"]_registryVars

\* Once all is quiet, the follower works with the supervisor that runs, unless
\* the entry was installed again unchanged, which the follower cannot see
\* (registry.ts 311-344).
FollowerIsCurrent ==
    <>[](Busy = {} /\ emissions = <<>> /\ (following = scope.supervisor \/ repeated))
=============================================================================
