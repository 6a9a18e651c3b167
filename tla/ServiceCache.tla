----------------------------- MODULE ServiceCache -----------------------------
(***************************************************************************)
(* The extension managers of several users around the one cache of the     *)
(* process: every user has an AbilityConnectManager of its own             *)
(* (services/abilitymgr/src/sub_managers_helper.cpp), and all of them      *)
(* share AbilityCacheManager::GetInstance().  A manager that puts a record *)
(* into the cache gets the record eliminated by that, of whichever user,   *)
(* and has to terminate it; answers and deaths of that record are routed   *)
(* to the manager of its own user.                                         *)
(*                                                                         *)
(* A service has one client here: AbilityConnect has the clients, the      *)
(* start and the load of a service, this module what happens between two   *)
(* uses of a service that is cached.                                       *)
(***************************************************************************)
EXTENDS Naturals, Sequences, FiniteSets

CONSTANTS Users,         \* users that have an extension manager
          Keys,          \* service keys: GetServiceKey has no user in it
          AppOf,         \* the application (bundle) of a key
          MaxRecords,    \* bound: records created per service
          DevCapacity, ProcCapacity,
          NoRec,
          Environments   \* the records that come up in a behaviour, the ones whose
                         \* process may die by itself, and the users StopUser stops

Recs == Users \X Keys \X (1..MaxRecords)
NoUser == "none"

ASSUME ServiceAssumption ==
    /\ MaxRecords \in Nat \ {0} /\ DevCapacity \in Nat \ {0} /\ ProcCapacity \in Nat \ {0}
    /\ NoRec \notin Recs /\ NoUser \notin Users
    /\ Environments \subseteq [recs : SUBSET Recs, mortal : SUBSET Recs, stopped : SUBSET Users]

Owner(r) == r[1]
Key(r) == r[2]

\* Every user has an accessTokenId of its own for an application.
Tokens  == {<<u, AppOf[k]>> : u \in Users, k \in Keys}
Names   == Keys
TokenOf == [r \in Recs |-> <<Owner(r), AppOf[Key(r)]>>]
NameOf  == [r \in Recs |-> Key(r)]

VARIABLES env,           \* the environment of this behaviour, which never changes
          running,       \* users whose managers exist
          serviceMap,    \* per manager: serviceMap_
          terminating,   \* per manager: terminatingExtensionList_
          evicted,       \* per manager: what Put returned, still to be terminated
          found,         \* per manager: what TerminateAbilityInner found in the cache,
                         \* still to be moved to terminatingExtensionList_
          rec,           \* per record: its client, process, timers and tasks
          raced,         \* history: records another manager's Put eliminated while
                         \* they were found
          devRecLru, devLruCnt, procKeys, recList, cnt, returned

cache == <<devRecLru, devLruCnt, procKeys, recList, cnt, returned>>
vars == <<env, running, serviceMap, terminating, evicted, found, rec, raced, cache>>

\* The cache is the one AbilityCache specifies.
C == INSTANCE AbilityCache

Fresh == [link |-> "none", proc |-> "none", state |-> "INITIAL", asked |-> FALSE,
          timer |-> NoUser, again |-> NoUser, tasks |-> {}]

Cached(r) == r \in C!Range(devRecLru)
InMap(m, r) == serviceMap[m][Key(r)] = r

\* serialMutex_, which every manager has one of, is held from the Put of a record
\* to the end of the elimination, and from finding a record in the cache to
\* terminating it; the cache's own mutex is not.
Free(m) == m \in running /\ evicted[m] = NoRec /\ found[m] = NoRec

Init == /\ env \in Environments
        /\ running = Users
        /\ serviceMap = [m \in Users |-> [k \in Keys |-> NoRec]]
        /\ terminating = [m \in Users |-> {}]
        /\ evicted = [m \in Users |-> NoRec]
        /\ found = [m \in Users |-> NoRec]
        /\ rec = [r \in Recs |-> Fresh]
        /\ raced = {}
        /\ C!Init
-------------------------------------------------------------------------------
(* Ending a record.                                                        *)

\* MoveToTerminatingMap erases the slot only if it is this record's.
Erase(m, r) == IF InMap(m, r) THEN [serviceMap EXCEPT ![m][Key(r)] = NoRec] ELSE serviceMap

\* AbilityRecord::Terminate for manager m, whose time-out task holds m weakly.
\* The task is submitted under the record's id: where there is one of that name
\* it runs without a name, and no CancelTask reaches it.  The clients that are
\* left are disconnected by a task of their own.
Terminate(x, m) ==
    [x EXCEPT !.link = "none", !.state = "TERMINATING", !.asked = x.proc = "alive",
              !.timer = IF x.timer = NoUser THEN m ELSE x.timer,
              !.again = IF x.timer = NoUser THEN x.again ELSE m]

\* TerminateRecord and MoveToTerminatingMap, for a record found in the map of m
\* or in the cache.
TerminateRecord(m, r, x) ==
    /\ serviceMap' = Erase(m, r)
    /\ terminating' = [terminating EXCEPT ![m] = @ \cup {r}]
    /\ rec' = [rec EXCEPT ![r] = Terminate(x, m)]
    /\ C!Remove(r)
    /\ UNCHANGED <<env, running, evicted, raced>>

\* TerminateDone: the process is ended by the application manager and its
\* death is no longer watched.
TerminateDone(m, r, x) ==
    /\ terminating' = [terminating EXCEPT ![m] = @ \ {r}]
    /\ rec' = [rec EXCEPT ![r] = [x EXCEPT !.proc = "dead", !.asked = FALSE]]
-------------------------------------------------------------------------------
(* Using a service.                                                        *)

Unused(u, k) == {i \in 1..MaxRecords : <<u, k, i>> \in env.recs /\ rec[<<u, k, i>>] = Fresh}
NextRec(u, k) == <<u, k, CHOOSE i \in Unused(u, k) : \A j \in Unused(u, k) : i <= j>>

\* A service that is not in service is taken from the cache, or created.
GetOrCreateServiceRecord(u, k) ==
    \/ /\ C!Get(<<u, AppOf[k]>>, k)
       /\ serviceMap' = [serviceMap EXCEPT ![u][k] = returned']
       /\ rec' = [rec EXCEPT ![returned'].link = "connecting"]
    \/ /\ C!GetNothing(<<u, AppOf[k]>>, k)
       /\ Unused(u, k) # {}
       /\ serviceMap' = [serviceMap EXCEPT ![u][k] = NextRec(u, k)]
       /\ rec' = [rec EXCEPT ![NextRec(u, k)] =
                     [@ EXCEPT !.link = "connecting", !.proc = "alive", !.state = "ACTIVE"]]

ConnectAbilityLocked(u, k) ==
    /\ Free(u) /\ serviceMap[u][k] = NoRec
    /\ GetOrCreateServiceRecord(u, k)
    /\ UNCHANGED <<env, running, terminating, evicted, found, raced>>

ScheduleConnectAbilityDone(r) ==
    /\ Free(Owner(r)) /\ rec[r].link = "connecting" /\ rec[r].proc = "alive"
    /\ rec' = [rec EXCEPT ![r].link = "connected"]
    /\ UNCHANGED <<env, running, serviceMap, terminating, evicted, found, raced, cache>>

HandleConnectTimeoutTask(r) ==
    /\ Free(Owner(r)) /\ rec[r].link = "connecting"
    /\ TerminateRecord(Owner(r), r, rec[r])
    /\ UNCHANGED found

DisconnectAbilityLocked(r) ==
    /\ Free(Owner(r)) /\ rec[r].link = "connected"
    /\ rec' = [rec EXCEPT ![r].link = "disconnecting"]
    /\ UNCHANGED <<env, running, serviceMap, terminating, evicted, found, raced, cache>>

\* Mutant: the record is cached and stays in service.
TerminateOrCacheAbility_KeepsInMap(u, r) ==
    /\ C!Put(r)
    /\ evicted' = [evicted EXCEPT ![u] = returned']
    /\ UNCHANGED <<serviceMap, raced>>

\* The record leaves serviceMap_ and is cached; what the cache eliminates for
\* it is terminated next, by this manager.
TerminateOrCacheAbility(u, r) ==
    /\ serviceMap' = [serviceMap EXCEPT ![u][Key(r)] = NoRec]
    /\ C!Put(r)
    /\ evicted' = [evicted EXCEPT ![u] = returned']
    /\ raced' = raced \cup {e \in Recs : e = returned' /\ found[Owner(e)] = e}

\* The answer to the last disconnect, or the timer that stands in for it.
ScheduleDisconnectAbilityDone(r) ==
    /\ Free(Owner(r)) /\ InMap(Owner(r), r) /\ rec[r].link = "disconnecting"
    /\ rec' = [rec EXCEPT ![r].link = "none"]
    /\ TerminateOrCacheAbility(Owner(r), r)
    /\ UNCHANGED <<env, running, terminating, found>>

\* Mutant: the eliminated record is only dropped from the cache.
ProcessEliminateAbilityRecord_Dropped(m) ==
    /\ evicted[m] # NoRec
    /\ evicted' = [evicted EXCEPT ![m] = NoRec]
    /\ UNCHANGED <<env, running, serviceMap, terminating, found, rec, raced, cache>>

\* AddToServiceMap is an emplace: where the key is in service already, the
\* eliminated record is neither in the map nor in the cache, and
\* TerminateRecord returns.
ProcessEliminateAbilityRecord(m) ==
    LET e == evicted[m]
    IN  /\ e # NoRec
        /\ evicted' = [evicted EXCEPT ![m] = NoRec]
        /\ \/ /\ serviceMap[m][Key(e)] = NoRec
              /\ terminating' = [terminating EXCEPT ![m] = @ \cup {e}]
              /\ rec' = [rec EXCEPT ![e] = Terminate(@, m)]
              /\ C!Remove(e)
           \/ /\ serviceMap[m][Key(e)] # NoRec
              /\ UNCHANGED <<terminating, rec, cache>>
        /\ UNCHANGED <<env, running, serviceMap, found, raced>>
-------------------------------------------------------------------------------
(* Stopping a service.                                                     *)

\* The service in service, or the cached one by way of serviceMap_.
StopServiceAbilityLocked(u, k) ==
    /\ Free(u)
    /\ \/ /\ serviceMap[u][k] # NoRec
          /\ TerminateRecord(u, serviceMap[u][k], rec[serviceMap[u][k]])
       \/ /\ serviceMap[u][k] = NoRec
          /\ C!Get(<<u, AppOf[k]>>, k)
          /\ terminating' = [terminating EXCEPT ![u] = @ \cup {returned'}]
          /\ rec' = [rec EXCEPT ![returned'] = Terminate(@, u)]
          /\ UNCHANGED <<env, running, serviceMap, evicted, raced>>
    /\ UNCHANGED found

\* TerminateAbilityInner: the service ends itself, in service or cached.  The
\* cache is let go of between FindRecordByToken and the Remove of
\* MoveToTerminatingMap.
TerminateAbility(r) ==
    /\ Free(Owner(r)) /\ rec[r].proc = "alive"
    /\ \/ /\ InMap(Owner(r), r)
          /\ TerminateRecord(Owner(r), r, rec[r])
          /\ UNCHANGED found
       \/ /\ ~InMap(Owner(r), r) /\ Cached(r)
          /\ found' = [found EXCEPT ![Owner(r)] = r]
          /\ UNCHANGED <<env, running, serviceMap, terminating, evicted, rec, raced, cache>>

\* MoveToTerminatingMap and TerminateAbilityLocked for the record found in the
\* cache, wherever it is by now: nothing is looked at again, and IsTerminating is
\* never set for an extension.
TerminateFound(u) ==
    /\ found[u] # NoRec
    /\ TerminateRecord(u, found[u], rec[found[u]])
    /\ found' = [found EXCEPT ![u] = NoRec]

\* AbilityTransitionDone asks the manager of the record's user, which looks at
\* its own terminatingExtensionList_ only; any other answer is refused.
DispatchTerminate(r) ==
    LET u == Owner(r)
    IN  /\ rec[r].asked /\ rec[r].proc = "alive"
        /\ u \in running => Free(u)
        /\ \/ /\ u \in running /\ r \in terminating[u]
              /\ TerminateDone(u, r, [rec[r] EXCEPT !.timer = NoUser])
           \/ /\ u \notin running \/ r \notin terminating[u]
              /\ rec' = [rec EXCEPT ![r].asked = FALSE]
              /\ UNCHANGED terminating
        /\ UNCHANGED <<env, running, serviceMap, evicted, found, raced, cache>>

HandleStopTimeoutTask(r) ==
    /\ \/ /\ rec[r].timer # NoUser /\ Free(rec[r].timer)
          /\ TerminateDone(rec[r].timer, r, [rec[r] EXCEPT !.timer = NoUser])
       \/ /\ rec[r].again # NoUser /\ Free(rec[r].again)
          /\ TerminateDone(rec[r].again, r, [rec[r] EXCEPT !.again = NoUser])
    /\ UNCHANGED <<env, running, serviceMap, evicted, found, raced, cache>>
-------------------------------------------------------------------------------
(* Death of services, and of users.                                        *)

Died(x) == IF x.proc = "alive" THEN [x EXCEPT !.proc = "dead", !.tasks = @ \cup {"schedulerDied"}]
                               ELSE x

ServiceDies(r) ==
    /\ rec[r].proc = "alive" /\ r \in env.mortal
    /\ rec' = [rec EXCEPT ![r] = Died(@)]
    /\ UNCHANGED <<env, running, serviceMap, terminating, evicted, found, raced, cache>>

\* AbilityManagerService::OnAbilityDied hands the death to the manager of the
\* record's user, which cancels the terminate timer under the record's id,
\* whichever manager set it; without that manager the death is only logged.
OnAbilityDied(r) ==
    LET u == Owner(r)
        x == [rec[r] EXCEPT !.tasks = @ \ {"schedulerDied"}]
    IN  /\ "schedulerDied" \in rec[r].tasks
        /\ rec' = [rec EXCEPT ![r] = IF u \notin running THEN x
                                     ELSE [x EXCEPT !.tasks = @ \cup {"abilityDied"},
                                                    !.timer = NoUser]]
        /\ UNCHANGED <<env, running, serviceMap, terminating, evicted, found, raced, cache>>

\* Mutant: the cache is not looked at.
HandleExtensionAbilityRemove_NotCached(u, r) == serviceMap' = Erase(u, r) /\ UNCHANGED cache

\* Find, Remove and MoveToTerminatingMap are calls of their own here too, but the
\* record leaves terminatingExtensionList_ again before serialMutex_ is released.
HandleExtensionAbilityRemove(u, r) == serviceMap' = Erase(u, r) /\ C!Remove(r)

HandleAbilityDiedTask(r) ==
    /\ "abilityDied" \in rec[r].tasks /\ Free(Owner(r))
    /\ rec' = [rec EXCEPT ![r].link = "none", ![r].tasks = @ \ {"abilityDied"}]
    /\ HandleExtensionAbilityRemove(Owner(r), r)
    /\ UNCHANGED <<env, running, terminating, evicted, found, raced>>

\* StopUser kills the user's processes, waits for serialMutex_ in
\* DisconnectBeforeCleanup and lets go of the managers; their tasks and timers
\* find nobody.  The cache is not told.
StopUser(u) ==
    LET Ended(r) == IF Owner(r) = u
                       THEN [Died(rec[r]) EXCEPT !.link = "none", !.tasks = @ \ {"abilityDied"}]
                       ELSE rec[r]
    IN  /\ u \in env.stopped /\ Free(u)
        /\ running' = running \ {u}
        /\ serviceMap' = [serviceMap EXCEPT ![u] = [k \in Keys |-> NoRec]]
        /\ terminating' = [terminating EXCEPT ![u] = {}]
        /\ rec' = [r \in Recs |-> [Ended(r) EXCEPT !.timer = IF @ = u THEN NoUser ELSE @,
                                                    !.again = IF @ = u THEN NoUser ELSE @]]
        /\ UNCHANGED <<env, evicted, found, raced, cache>>

\* InitSubManagers, when the user is started again.
StartUser(u) ==
    /\ u \notin running
    /\ running' = running \cup {u}
    /\ UNCHANGED <<env, serviceMap, terminating, evicted, found, rec, raced, cache>>
-------------------------------------------------------------------------------
Client == \E u \in Users, k \in Keys : ConnectAbilityLocked(u, k) \/ StopServiceAbilityLocked(u, k)

Service == \E r \in env.recs : \/ ScheduleConnectAbilityDone(r) \/ DisconnectAbilityLocked(r)
                           \/ ScheduleDisconnectAbilityDone(r) \/ TerminateAbility(r)
                           \/ DispatchTerminate(r) \/ ServiceDies(r)

Timer == \E r \in env.recs : \/ HandleConnectTimeoutTask(r) \/ HandleStopTimeoutTask(r)
                         \/ OnAbilityDied(r) \/ HandleAbilityDiedTask(r)

Next == \/ Client \/ Service \/ Timer
        \/ \E u \in Users : \/ ProcessEliminateAbilityRecord(u) \/ TerminateFound(u)
                          \/ StopUser(u) \/ StartUser(u)

Spec == Init /\ [][Next]_vars
-------------------------------------------------------------------------------
\* The types of the managers and of the records; the cache has its own.
TypeOK ==
    /\ env \in Environments
    /\ running \subseteq Users
    /\ serviceMap \in [Users -> [Keys -> Recs \cup {NoRec}]]
    /\ terminating \in [Users -> SUBSET Recs]
    /\ evicted \in [Users -> Recs \cup {NoRec}]
    /\ found \in [Users -> Recs \cup {NoRec}]
    /\ raced \subseteq Recs
    /\ rec \in [Recs -> [link : {"none", "connecting", "connected", "disconnecting"},
                         proc : {"none", "alive", "dead"},
                         state : {"INITIAL", "ACTIVE", "TERMINATING"},
                         asked : BOOLEAN, timer : Users \cup {NoUser}, again : Users \cup {NoUser},
                         tasks : SUBSET {"schedulerDied", "abilityDied"}]]
    /\ C!TypeOK

Places(r) == {<<"map", m>> : m \in {n \in Users : InMap(n, r)}}
             \cup {<<"terminating", m>> : m \in {n \in Users : r \in terminating[n]}}
             \cup {<<"evicted", m>> : m \in {n \in Users : evicted[n] = r}}
             \cup (IF Cached(r) THEN {<<"cache", NoUser>>} ELSE {})

\* A client can be connected to r.
Usable(r) == Cached(r) \/ \E m \in Users : InMap(m, r)

\* No record is in two of the managers' lists and the cache at once, whichever
\* manager caches, eliminates, stops or loses it: it would be terminated by one
\* while the other connects a client to it.  Two managers end a record only where
\* one eliminates it between the two steps of the other's TerminateAbilityInner,
\* and then nobody can connect to it any more.
KnownOnce == \A r \in Recs : IF r \in raced THEN ~Usable(r) ELSE Cardinality(Places(r)) <= 1

\* A user never has two instances of a service that could be used: whatever is
\* cached is found again before another one is created.
OneInstance ==
    \A r, s \in Recs :
        Owner(r) = Owner(s) /\ Key(r) = Key(s) /\ r # s =>
            ~ (\A x \in {r, s} : Cached(x) \/ InMap(Owner(x), x))

\* A record is in one place, and a user has one record of a service, although the
\* managers of all users move records through the one cache.
Consistent == TypeOK /\ KnownOnce /\ OneInstance

\* A service that a manager has told to end is watched until it has: by that
\* manager's timer, which may be the only thing that can end it, since the answer
\* goes to the manager of the service's user, or by the report of its death.
EndIsWatched ==
    \A r \in Recs, m \in Users :
        r \in terminating[m] => \/ m \in {rec[r].timer, rec[r].again}
                                \/ rec[r].proc = "dead"

\* Two users have a service of this key: GetServiceKey leaves the user out.
Shared(k) == \E r, s \in env.recs : Key(r) = k /\ Key(s) = k /\ Owner(r) # Owner(s)

\* Until its process has ended somebody sees to a service: one that was not told to
\* end is held by a manager or by the cache, a record that is eliminated from the
\* cache included, and one that was told is watched.  The first may fail where two
\* users have the same service, see the README.
NoLostRecord ==
    /\ EndIsWatched
    /\ \A r \in Recs :
           rec[r].proc = "alive" /\ rec[r].state = "ACTIVE" /\ ~Shared(Key(r)) => Places(r) # {}

\* Once the death of a service was handled, it is neither in service nor in the
\* cache, where the next client would be connected to it; for a user who is not
\* stopped, see the README.
DeathHandled ==
    \A r \in Recs :
        rec[r].proc = "dead" /\ (Cached(r) \/ InMap(Owner(r), r)) /\ Owner(r) \notin env.stopped
            => rec[r].tasks # {}
===============================================================================
