# A TLA+ model of the ability runtime's managers

This project models the managers of `ability_runtime` that keep the state of
abilities, services, data providers, want agents and resident processes
(`services/abilitymgr` and a part of `services/appmgr`), checks them with TLC on
small instances and proves their safety invariants with TLAPS, for every number of
services, clients, sessions, threads and records. Paths below are relative to the
repository.

## 1. The system

`AbilityManagerService` is a system service. It is called over IPC by
applications and by the processes that host their abilities, asks `AppMgrService`
to start and kill those processes, and keeps one manager of each kind per user.

| Component | State | Operations | Modelled in |
|---|---|---|---|
| `AbilityConnectManager` (`ability_connect_manager.cpp`, `common_extension_manager.cpp`) | `serviceMap_`, `terminatingExtensionList_`, `connectMap_`, `recipientMap_`, `callerPidConnectionCountMap_`, `startServiceReqList_`, `restartResidentTaskList_` | start, stop, connect, disconnect; answers of the service; timeouts; deaths; restart of resident services | `AbilityConnect`; the caching branch in `ServiceCache` |
| `ConnectionRecord` | state INIT → CONNECTING → CONNECTED → DISCONNECTING → DISCONNECTED, its timers and posted tasks | connect done, disconnect, forced disconnect | `AbilityConnect` |
| `BaseExtensionRecord`, `LifecycleDeal` | `connRecordList_`, `isConnected`, lifecycle state, start id, remote object | calls to the service | `AbilityConnect` |
| `AbilityCacheManager` | `devRecLru_`, `procLruMap_`, a counter for each list | put, get, remove | `AbilityCache`, `AbilityLru`, `ServiceCache` |
| `DataAbilityManager`, `DataAbilityRecord` | loaded and loading providers, clients of each, `mutex_` | acquire with a bounded wait, release, reports, deaths, restart | `DataAbility` |
| `PendingWantManager`, `PendingWantRecord` | want agents by key, `canceled_`, cancel listeners, `mutex_` and `lock_` | get, send, cancel, listen, clear on uninstall | `PendingWant` |
| `ConnectionStateManager` | an item per client process; pending calls to observers | add, remove, suspend, resume, deaths | `ConnectionState` |
| `UIAbilityLifecycleManager`, `AbilityRecord` | `sessionAbilityMap_`, `tmpAbilityMap_`, `terminateAbilityList_`; state, `pendingState_`, `lastWant_` and timers of each record | start, call, show, minimise, close, answers, timeouts, deaths | `UIAbilityLifecycle` |
| `ExitResidentProcessManager`, resident processes of `AppMgrServiceInner` | lists of exited bundles, memory states, web list, running records, restart tasks | exit, death, restart, memory and screen events, user switch | `ResidentProcess` |
| `CallContainer`, `CacheProcessManager`, `DataObsMgr`, `QuickFixManager`, `FreeInstallManager`, `UriPermissionManager`, `MissionListManager`, `UIExtensionAbilityManager` | see `PROJECT.json` | | no (section 6) |
| `frameworks/`, `interfaces/` | application-side libraries | language bindings | an ability is modelled by the answers it gives |

How the modelled parts interact:

* A client gives `AbilityManagerService` a callback object
  (`IAbilityConnection`). `AbilityConnectManager` creates a `ConnectionRecord`
  and stores it in four places: the service record's `connRecordList_`, the
  callback's list in `connectMap_`, a death recipient in `recipientMap_`, and a
  count for the client's process. It tells `ConnectionStateManager`, which tells
  its observers.
* The service's process is called through `LifecycleDeal` and answers with an
  IPC call of its own, in whatever order its callbacks finish, or not at all. The
  same holds of UI abilities and data abilities.
* Every wait has a timer. Timers of the lifecycle are events on a concurrent
  handler; timers of a connection or of a command are delayed tasks on a serial
  queue; freezing submits tasks to the thread pool.
* Deaths of clients and of services arrive as binder notifications, which post a
  task each.
* A want agent's receivers live in other processes; they are called synchronously, the
  one that waits for a trigger with the record's `lock_` held, cancel listeners with the
  manager's `mutex_` held.
* One `AbilityCacheManager` serves the `AbilityConnectManager`s of all users: the
  manager of one user eliminates services of another.
* `AppMgrServiceInner` asks `AbilityManagerService` to start resident processes,
  which asks `AppMgrServiceInner` to load them, each on threads of its own.

Hard behaviours. Most handlers hold a lock, but many decide before they hold it or
go on after they have given it back: `OnTimeOut` and
`CleanActivatingTimeoutAbilityInner` (connections), `WaitForLoaded`, which gives
up the lock of its caller (data abilities), `RegisterCancelListener` (want agents),
the calls to observers, `GetUIAbilityRecordBySessionInfo` (UI abilities),
`StartResidentProcess`, which looks for a record and makes one in two steps. Answers
arrive after the timeout that gave them up; records are replaced while tasks of the
old one are queued; a user is stopped while another user's manager works on its
services. `PROJECT.json` lists these hazards line by line.

What makes each component correct:

* `AbilityConnectManager`: the four places agree; nobody stays connected to, or
  waits for, a service that is gone; a service that exists only for its
  connections goes with the last of them; queued starts are served; every wait
  ends; two records of one service are not confused.
* `ConnectionRecord`: its state only advances; a client is connected at most once
  to a service; a disconnect ends.
* `AbilityCacheManager`: it is an LRU cache with two limits, and with its users a
  record is in one place and never lost.
* `DataAbilityManager`: a name has one provider, which serves; the clients are
  counted exactly; every acquire returns.
* `PendingWantManager`: a one-time agent is executed once, a cancelled one not any
  more; what is found is usable; threads wait for one another in a circle only where a
  receiver does what it should not.
* `ConnectionStateManager`: an observer knows what is so.
* `UIAbilityLifecycleManager`: a session ends up where the last request wanted it,
  with the last want, and every close ends whatever the ability does.
* Resident processes: one that has to run is never forgotten and runs in the end.

## 2. Modules

| Module | What it is |
|---|---|
| `AbilityLru` | Abstract specification: one list of cached records in age order, with a limit for the device and one for each application |
| `AbilityCache` | `AbilityCacheManager`: two lists, two kinds of counters, one action per operation and per branch of `Put`; implements `AbilityLru` |
| `AbilityConnect` | `AbilityConnectManager` with `ConnectionRecord` and `BaseExtensionRecord` |
| `ServiceCache` | composition: the managers of several users around one instance of `AbilityCache` |
| `DataAbility` | `DataAbilityManager` and `DataAbilityRecord` |
| `PendingWant` | `PendingWantManager` and `PendingWantRecord`, with the choice of the user's manager in `AbilityManagerService` |
| `ConnectionState` | `ConnectionStateManager`, fed by the connect manager, the data ability manager and the application manager |
| `UIAbilityLifecycle` | `UIAbilityLifecycleManager` with the lifecycle of `AbilityRecord` |
| `ResidentProcess` | `ExitResidentProcessManager` and the life of resident processes in `AppMgrServiceInner` |
| `AbilityCacheProofs`, `AbilityConnectProofs`, `ServiceCacheProofs`, `DataAbilityProofs`, `PendingWantProofs`, `ConnectionStateProofs`, `UIAbilityLifecycleProofs`, `ResidentProcessProofs` | the theorems about the module of that name and the lemmas they rest on |
| `MC...` | the instances TLC checks |

Most modules take a set `Environments` and a variable that is set in `Init` to one
of them and never changes: what the outside does in that behaviour (which inputs,
which faults, how many). One run then covers several situations, each small, and a
property can say in which of them the code does not keep it. Counters such as
`requests`, `crashes` and `env.left` are budgets of outside events.

### AbilityCache

Every operation of the code holds `mutex_`, so it is one action. `Put` is split by
the branch that decides it: `PutProcFull` (the application is at its limit and
loses its oldest record from both lists), `PutDevFull` (the device is, and its
oldest record leaves the list of its own application, which may be the one just
added to) and `PutFits`. The counters are variables of their own, as in the code,
because the limits are tested on them and with `==`. `returned` is what the
operation returned; it makes the choice of the record visible to the refinement.
The precondition of `Put`, that the record is not cached, is what
`TerminateOrCacheAbility` guarantees by taking the record out of `serviceMap_`.

### AbilityConnect

Records and connections are numbered as they are created. Every list of the code
is only appended to, so that a list is a set of numbers here and "the first
element such that" is the smallest number.

* `ability[r]` is the extension record: lifecycle `state`, `startId`, whether it
  was created by a connect request (`byConnect`), `isConnected`, whether the
  service's last call was onConnect rather than onDisconnect (`told`), the
  `remote` object, the state of its process, the calls the service has still to
  answer (`todo`), and its armed `timers`, posted `tasks` and command timers.
* `conn[c]` is the connection record with its armed timers and posted tasks.
* `cleaning[r]` is the list copied by a `CleanActivatingTimeoutAbilityInner` that
  has not got the lock yet. `raced` is a history variable: the records that a task
  took down, on the strength of something it had read before the lock, while a
  client was registered.

A handler that holds `serialMutex_` is one action. A handler that reads before it
locks is two: `LoadTimeout` / `HandleStartTimeoutTask`, `InactiveTimeout` or
`HandleCommandTimeoutTask` / `CleanActivatingTimeoutAbilityInner`,
`ConnectTimeout` / `HandleConnectTimeoutTask`, `HandleProcessFrozen` /
`FrozenTask`, `OnAbilityDied` / `HandleAbilityDiedTask`, `CallbackDies` /
`HandleCallBackDiedTask`. The service takes the call it answers from `todo` in any
order; a service out of `serviceMap_` is refused, which `Forgotten` expresses by
clearing what it could still answer. `IsNeverStarted` of `ability_record.cpp` is
`startId = 0 /\ byConnect`, and the death of a process (`OnSchedulerDied` there)
puts "schedulerDied" among the tasks of the record.

`Faults` selects which events of the environment an instance allows: a client
dies, a client cannot be told that it is connected, onConnect returns null, a
service dies, its process cannot be started, it is stopped, it is frozen, a
client's request arrives after its process died (`lateConnect`), the report to the
resource scheduler fails (`reportFails`). A callback whose process is dead refuses
the call that reports its connection. Left out: the refusals of `IsForbidStart` (:143,
:978) and a failing report to the resource scheduler in a start
(`StartAbilityLocked`, :175), which returns before the service is loaded as
`reportFails` does in a connect.

### ServiceCache

A record is `<<user, key, number>>`; a service has one client. The cache is
`AbilityCache` by INSTANCE. Its mutex is held for each of its operations, `serialMutex_`
is each manager's own. A manager holds it from its `Put` to the end of the elimination,
which `evicted[m]` expresses, while other managers go on: `TerminateOrCacheAbility` and
`ProcessEliminateAbilityRecord` are two steps. So are the two halves of
`TerminateAbilityInner` for a cached service: `TerminateAbility` finds the record in the
cache (`found`), `TerminateFound` moves and terminates it wherever it is by then; `raced`
is a history: the records another manager eliminated in between. `timer` and `again` are
the time-out tasks of a record. `AbilityRecord::Terminate` submits the second under the
name the first has, and it runs unnamed (`task_handler_wrap.cpp:116`, `forceSubmit`), so
that cancelling by name reaches only the first. `HandleExtensionAbilityRemove` calls the
cache several times too, but nothing depends on what happens in between. The answer
of a service goes to the manager of its own user and is refused there when another
manager has told it to end, so that only that manager's timer is left. `StopUser` is
one step; the tasks and timers of managers that were cleared do nothing.
`DeleteInvalidServiceRecord` is called by nothing.

### DataAbility

`mutex_` is explicit. `WaitForLoaded` adopts it into a `unique_lock` of its own that
unlocks it on return, so what follows in `Acquire` runs without it (`LoadFailed`,
`GiveUp`, `AcquireResumed`, `AcquireReturn`), and the `lock_guard` of `Acquire` unlocks
a mutex that is free or another thread's (`Unlock`). That other thread may be inside
`Acquire` itself, so `Acquire` is cut at every access to the maps: `AcquireFind` (loaded),
`AcquireJoin`, `AcquireRefused` or `AcquireStart` (loading, `StartLoading`), `AcquireInsert`
(which may fail), `EnterWait`, `WaitForLoaded`. `intruded` is a history: the names for which
a thread lost `mutex_` between its look-ups and its insert. The other operations look up
and change in one step from lock to unlock. Whether a client asks to be bound is fixed for each client; operations on a
record's client list are atomic; a record may itself be a client. An obituary keeps
the object it reports to alive. Deaths of HAP page clients are not reported to this
manager. The reports to observers are in `ConnectionState`.

### PendingWant

A manager per user with its `mutex`, a `lock` per record. A trigger runs in the steps
at which it reads what cancels and updates change under the other lock, or calls out:
`SendStart`, `SendCheck`, `SendOnce`, `BuildSendWant`, `ExecuteOperation`, `SendReturn`. A
cancel marks the record (`Cancel`), calls its listeners one by one (`Tell`, `TellNext`) and
erases it (`Erase`), all under `mutex_`; what called it goes on from there (`after`). The
receivers are called with TF_SYNC (`want_receiver_proxy.cpp:35`, :59): the thread keeps its
lock and waits. Meanwhile the receiver may get, cancel or trigger a want agent
(`CallBack`), which another thread serves and the first waits for (`from`, `Serving`); the
receiver's code runs in the binder thread of its process
(`completed_dispatcher.cpp:47`, without a handler). In the client, `PendingWant` holds
`lock_object` during the whole of a register or unregister call, and
`NotifyCancelListeners` takes it (`interfaces/inner_api/wantagent/src/pending_want.cpp:362`):
`ListenStart` and `InClient`. Wants are version numbers. What a trigger starts, permissions,
statistics and a receiver that registers or unregisters listeners before it returns are
left out.

### ConnectionState

The tables are what `ConnectionStateManager` keeps; `live` and `held` are what is so.
Every thread changes the tables under `stateLock_` and calls the observers after it has
given it back (`pending`); `view` is what an observer was told last. The threads are that
of the connect manager (under `serialMutex_`), the application manager's observer, the
task of `OnAbilityDied`, the death recipients, and one for each client of a data ability,
which makes one call at a time. Of `DataAbilityManager` the module has what decides who
reports when: `mutex_`, the wait that loses it, `AddClient` with its death recipient, the
report (`AddDataAbilityConnection`), which asks neither whether the client nor whether the
provider still lives, and the `Return` that unlocks `mutex_` whoever holds it. Deaths of
native processes are heard of by death recipients only (`Native`). `adrift` is a history:
pairs reported after the client or the provider died, or while another thread's call about
the same pair was under way. An obituary whose object is gone (`promote()` null), DLP
tables, listings and the registration of observers are left out.

### UIAbilityLifecycle

A record is its state, `pendingState_`, wants, armed timers and posted tasks, and the
state of its process; each record has a process of its own. A request that looks its
record up first is two steps (`calls`, for the input "late"). `goal`, `asked` and `told`
are histories: where the last request wanted the session, the want it was last started
with (none after a minimise) and the want the ability was told. `terminateAbilityList_`
is a set. With the input "attachFails" the process attachment may be refused
(`status_bar_delegate_manager.cpp:77`): the load timer is off by then and the record stays
INITIAL. The application's own opt-out from new wants (`OnNewWantSkipScenarios`, :295-310
and :4296 of `ui_ability_lifecycle_manager.cpp`) is left out, as are hidden, preloaded, prelaunched, specified, hooked and native starts,
plug-ins, restarts, the low-memory map, debugging, call records and listings.

### ResidentProcess

Empty resident processes (no main ability) of user 0 or the user in front: `rec` are
the running records, `exits` the threads that handle an exit in the steps between which
memory may change, `tasks` and `starting` the restarts under way, `filling` the spawns
whose record is not completed. Lists are sets; the loop over bundles is a task for
each. `keepAlive` stands for `isKeepAliveRdb_` and `isEmptyKeepAliveApp_`. Whether an exit
comes late is nondeterministic, as the clock that decides it is outside. `row` is a
history: immediate restarts in a row. Main abilities of resident bundles, the enable
switch and keep-alive applications that are not resident are left out. A bundle manager
that fails (`app_mgr_service_inner.cpp:7106`, `exit_resident_process_manager.cpp:160`) ends a
restart as a failing spawn does and is not an input of its own. `KillNext` lists the bundle
(:12330) and kills it (:12333) in one step: an exit in between is handled as the exit
that the kill causes.

## 3. Runs

| Run | Instance | States |
|---|---|---|
| `cache_lru` | 6 records of 2 applications and 2 names; limits 3 and 2 | 640 |
| `connect_clients` | 1 service, 2 clients, 2 connections, 1 start; clients and service die, null remote, frozen, stopped, load fails | 1,063,399 |
| `connect_services` | 2 services, one of them resident, 1 client with 1 callback; client and service die, load fails | 1,719,813 |
| `connect_liveness` | 1 service, 2 clients, 8 faults, fair | 81,216 |
| `data_ability` | 2 threads, 3 records in six environments: a resident ability, one with a native client, bound clients with two references, a provider that is a client, overlapping loads of one name; fair | 304,605 |
| `pending_want` | 3 threads, 2 records in four environments: two users and both kinds of keys; updates; a listener and receivers that call back; two listeners without triggers | 1,376,005 |
| `connection_observer` | 3 processes in four environments: 5 connections to 2 services, 3 of them suspendable; 2 connections and a data client; two data clients of a process; one of each of two processes, one of them native | 564,360 |
| `ui_lifecycle` | 1 session, 2 records, 3 requests and 1 crash in five environments; fair | 525,096 |
| `resident_process` | 2 bundles of 2 users in seven environments of exits, shortages, upgrades, switches and faults; fair | 444,962 |
| `shared_cache` | 3 services of 2 applications and 2 users in three environments; the cache holds 1 | 403,168 |
| `connect_forced` | 1 service, 2 clients, null remote, fair: `DisconnectEnds` is violated | |
| `connect_told` | 1 service, 2 clients, 1 start, no fault: `ToldOfLastDisconnect` is violated | |

What the passing runs show:

* **Connections.** `ListsAgree`, `CountsAgree`, `RecipientsAgree`: the service's list, the
  callback's list, the count of each process and the death recipients agree with the
  connections that are not over. `NoDangling`: whoever takes a record out of service
  unregisters its clients, but for tasks that decide before they hold the lock.
  `NoOrphanService`: a service created for a connection and never started does not
  outlive its last connection. `ConnectedIsActive`: while a record is in service its
  connected clients see it ACTIVE. `WaiterIsWatched`: a waiting client has an armed timer
  or a posted task that will end its wait, although most have none of their own.
  `PlacedOnce`, `RequestsServed`: a restart puts the new record under the key once, and
  start requests do not stay queued for an ACTIVE service. `ConnOnlyForward`,
  `OneConnPerTarget`: a connection never goes back; a callback has at most one
  connection to a record. `EveryWaitEnds`, `TerminationEnds`, `GhostsLeave`: waits and
  terminations end, and a connection registered for a dead client is taken down.
* **Cache.** `ListsAgree`, `CountsExact`, `WithinCapacity`, `ImplementsLru`: two lists and
  their counters behave as one LRU list.
* **The shared cache.** `Consistent`: across users a record is in one place, or is ended by two
  managers and in reach of no client (`KnownOnce`), and is found again before another is
  made (`OneInstance`). `NoLostRecord`: a service is not lost while its process runs, and is
  watched while it ends (`EndIsWatched`), also when its answer goes to a manager that refuses
  it. `DeathHandled`: a dead service is found neither
  in service nor in the cache.
* **Data abilities.** `Consistent` (`OnePerName`, `LoadedServes`): waiters that lost the lock
  and erase by name never make a name loaded twice or by the wrong record, unless their
  second unlock lets a thread in between another's look-up and insert.
  `LoadingHasWaiter`: every load has a caller whose timeout ends it. `Accounted`: clients are
  counted exactly. `AcquireReturns`, `StrayGivenUp`: every acquire returns and a process that
  is in neither map is given up.
* **Want agents.** `Consistent` (`OneRecordPerKey`, `PresentUsable`): what is found for a key is
  one record and can be triggered. `OneTimeOnce`, `LateSendRefused`: a one-time agent is
  executed once, a cancelled one not any more. `NoCircularWait`: any set of threads that
  wait for one another's locks or receivers contains one of three kinds of calls
  (`Entangled`, section 4); the receiver of a finished trigger may therefore get and cancel
  want agents although it is called with `lock_` held.
* **Observers.** `Consistent` (`NoEmptyItem`, `NothingStale`): the tables list nothing that is
  over. `ObserverKnows`: when no call is on its way, the observer knows what is so. Both but
  for the pairs that are `adrift` (section 4).
* **UI abilities.** `Consistent`: a record is listed once (`PlacedOnce`), and a request is
  remembered only while something will act on it (`PendingInProgress`). `Watched`: every
  transition has an end that does not depend on the ability. `GoalReached`,
  `LastWantShown`: the last request and the last want win. `CloseEnds`: every close ends.
* **Resident processes.** `Consistent`: no exit is listed for a shortage that is over
  (`NothingLeftListed`) and none is forgotten (`Accounted`). `ComesBack`: without faults the
  process runs in the end.

`Consistent` of each module is the conjunction of its type invariant with the parts named.

Bounds. Two connections are the fewest with which a connection is not the last
one, another client is waiting, and "the first DISCONNECTING" is someone else's;
two records are the fewest with which a restart can be confused with the record
it replaces; one queued start tells a started service from one that was only
connected. When the numbers are used up no further record or connection is made, so
these runs do not check for deadlock.
The run of want agents does not either, because the program may really stop there:
threads that a receiver entangles wait for ever. In the cache each limit is reached on its own
and both at once. Two threads are enough for a step of one between two of the other, three (`pool`, per
environment) for a trigger, the call its receiver makes and a cancel beside both; three
loads of one name for a load that replaces one which replaced the first; two listeners for
a cancel between whose calls something happens; `loads`, `crashes` and one call at a time of
each client bound what the data abilities of a behaviour do;
two users for work on the other's services; a cache of one record for an elimination
at every second `Put`. Three requests let one come in each phase of a transition and a
third overrule it. Where threads or callbacks are interchangeable and no liveness is
checked, symmetry is used; fresh records are interchangeable and taken in order.

Fairness. Connections: weak fairness of each timer and each posted task on its own,
since a delayed task that is not cancelled runs and no handler waits for a client or a
service while it holds `serialMutex_`; nothing of clients, services or AppMgr. Timers are
not armed for an ability that is being debugged (`PostTimeOutTask`), so liveness is
claimed only for abilities that are not. Data abilities: strong fairness of a thread
inside `Acquire`, which waits for `mutex_` in turn with others and whose wait ends by its
timeout. UI abilities: delayed events, tasks, threads that hold a record, the attachment
and the end of a process that was killed; nothing of the ability. Resident processes:
tasks, threads, attachments, death reports and `SwitchToUser`.

## 4. What the code does not keep

Two disagreements between the code and what it says of itself are runs of their own:

* **A forced disconnect may end someone else's connection** (`connect_forced`).
  The timer is described as "force to disconnect time out event"
  (`include/connection_record.h:112`), but it reports the service's token, and
  `ScheduleDisconnectAbilityDoneLocked` completes the first connection of that
  service that is DISCONNECTING, cancelling its timer. A task posted for a null
  remote object does the same. The counterexample: client a is being disconnected
  (its timer is armed), client b connects and the service's remote object is null;
  b's task completes a; b stays DISCONNECTING with no timer and no task.
* **A service may not be told that its last client is gone** (`connect_told`).
  onDisconnect is documented as "Called when all abilities connected to this
  Service extension are disconnected" (`ets_service_extension.h:95`). When the
  answer of onConnect comes between the lookup in `OnTimeOut` and the lock in
  `HandleConnectTimeoutTask`, the established connections are dropped; a service
  that was also started is not terminated and not disconnected.

The others are exceptions written into the properties, or properties at the end of a
module that no run checks. Dropping the exception, adding the fault or adding the
property to the configuration gives the counterexample described.

**Connections.** `NoDangling` exempts the three tasks that act on what they read before
the lock. `TerminationEnds` exempts a service whose process dies while it terminates
(`OnAbilityDied` cancels its timer and the record stays in `terminatingExtensionList_`).
With the fault `reportFails`, `EveryWaitEnds` fails: `ConnectAbilityLocked` returns the
error of `ReportXiaoYiToRSSIfNeeded` (`ability_connect_manager.cpp:457`) after it has
registered the connection and before it loads the service, and undoes nothing.

**The shared cache.**
* `NoLostRecord` exempts keys that two users have. `GetServiceKey` leaves the user out;
  when u1 has kA in service and its manager eliminates u2's kA, the `emplace` of
  `ProcessEliminateAbilityRecord` (:948) does nothing, `TerminateRecord` finds the record
  nowhere and returns (:714), and u2's service runs on with no manager that knows it.
* `KnownOnce` says less of the records in `raced`. `TerminateAbilityInner` finds a cached record
  (`ability_connect_manager.cpp:125`), and before it takes it out of the cache (:3054) the
  manager of another user eliminates and terminates it (:948). The first goes on all the
  same: the record is in two `terminatingExtensionList_`s, is told to end twice and has two
  time-out tasks, of which only the first has a name to be cancelled by. No client can be
  connected to it, and its end stays watched in both managers.
* `DeathHandled` exempts stopped users. `ClearUserData` does not touch the cache, and
  `OnAbilityDied` without a manager only logs (`ability_manager_service.cpp:9264`): the
  dead record stays cached and the user's next connect, after a restart, finds it ACTIVE.
* `NoLostRecord` is about services not told to end: when a user is stopped whose manager
  is ending another user's service, the timer goes with the manager and, the answer
  being refused, nobody ends that service.

**Data abilities.**
* `OnePerName` and `StrayGivenUp` exempt the names in `intruded`. Thread a waits for one load
  and returns while b, which holds `mutex_`, is between its look-ups and its insert for
  another name or a later load: a's `lock_guard` unlocks b's `mutex_`. A third call of that
  name then finds nothing either and starts a second process. The insert that comes second
  fails (`data_ability_manager.cpp:457`), its Acquire returns null, and nobody gives its
  process up; or the first load has become the loaded one meanwhile, the name is loaded and
  loading, and the second load replaces a provider that serves.
* `BoundClientKilled`: "tryBind, true: when a data ability is died, ams will kill this
  client" (`ability_manager_interface.h:900`). The provider dies between the end of the wait
  and `AddClient`, where `mutex_` is no longer held (`data_ability_record.cpp:79`): the client
  is not in the list yet, is not killed and is handed the dead provider's scheduler.
* `DiedServerRemoved`: `OnAbilityDied` looks among the loaded records only
  (`data_ability_manager.cpp:292`). When a provider dies while loading and its last report is
  handled after its death, the dead record becomes the loaded one and stays.

**Want agents.**
* `NoCircularWait` leaves out three kinds of calls (`Entangled`), and with each of them the code
  does stop for ever. A cancel listener is called with `mutex_` held: any call it makes to the
  manager of the same user waits for it. Any receiver that triggers a want agent before it
  returns may wait for the `lock_` its own caller holds, or hold the `lock_` of another while
  it waits. And without any call of a receiver: a client that registers or unregisters a
  cancel listener holds its `lock_object` while it waits for `mutex_`
  (`interfaces/inner_api/wantagent/src/pending_want.cpp:402`), a thread that cancels the record
  holds `mutex_` while it waits for the client's `NotifyCancelListeners`, which waits for
  `lock_object` (:384).
* `PresentUsable` exempts keys without a user. Such an agent lives in the manager of the
  user in front when it was made; a cancel goes to the manager of the user in front now
  (`ability_manager_service.cpp:7285`), marks the record and erases it from the wrong map.
* Flags are not part of the key (`pending_want_manager.cpp:263`): an agent asked for with
  ONE_TIME_FLAG may be the reusable one that existed, so `OneTimeOnce` is about records
  made with the flag.
* `PresentUsable` is claimed when `mutex_` is free: a record is marked before its listeners are
  called and erased after it.
* `ListenerTold`: `RegisterCancelListener` reads `canceled_` before it takes `mutex_` (:647); a
  cancel in between leaves a registered listener that is never called.
* `OneVersionSent`: an update replaces the wants under `mutex_` while a trigger reads them
  one after the other under `lock_` (`pending_want_record.cpp:146`): a trigger of several wants
  sends some of the old and some of the new object.

**Observers.** `ObserverKnows` exempts three kinds of pairs, and dead processes; `NothingStale`
exempts the first of them.
* An `Acquire` that waited reports without `mutex_` and asks nothing
  (`data_ability_manager.cpp:109-117`). When the provider's `OnAbilityDied`, or the report of the
  client's death, comes before it, the tables list for good a data ability or a process that
  is gone. When another thread (a release, a death) reports the same pair at the time, its
  Disconnected may be told before the Connected it follows. These are the pairs in `adrift`.
* When the last connection that is not suspended ends, `ConnectionStateItem::RemoveConnection`
  erases the entry (`connection_state_item.cpp:428`) although suspended ones remain; nobody
  hears of their resumption. These are the pairs with several connections, one of them
  suspendable.
* A data client is listed once however often it acquires (:275); its first release reports a
  disconnection. These are the clients in `Repeated`.
* Observers are called after `stateLock_` was released (`connection_state_manager.cpp:111`): a
  process's death can be reported before the connection another thread has added, and a
  dead process's last report is then that it connected.

**UI abilities** (`ui_ability_lifecycle_manager.cpp`). The inputs named in the properties:
* newWant: `CompleteForegroundSuccess` hands over a waiting want without a foreground
  timeout (:1342), so an ability that hangs then hangs for good, also when it is closed
  (`Watched`, `CloseEnds`).
* byCall: a start that finds the record of a call under way notes its pending state, which
  `CallUIAbilityBySCB` overwrites with BACKGROUND (:1943): the start is lost (`GoalReached`),
  and with it the new want it may have come with (`LastWantShown`).
* show, showNew: `ChangeUIAbilityVisibilityBySCB` sets `isNewWant` before it looks at the
  pending state (:4298), so a show that is only remembered takes back the mark a start has
  set and the ability is not told the want (`LastWantShown`).
* freezed: `DispatchForeground` leaves `pendingState_` set when the window is frozen (:1177);
  later requests are only remembered (`PendingInProgress`, `CloseEnds`).
* late: a close whose record dies between its lookup and the lock puts the record into
  `terminateAbilityList_` after it was removed (:2410); it stays there.
* attachCrash: a process that dies after `AttachAbilityThread` has found its record is set to
  FOREGROUNDING after its death was dealt with (:651), and `CompleteTerminate` refuses to run.
* attachFails: when the process attachment is refused, the load timer is already off (:621), and
  `TerminateSession` (:630) only asks the scene board to close the session: the record stays
  INITIAL with FOREGROUND pending until the scene board does (`LeftToSceneBoard` in `Watched`).
* disown: after an independent-recovery close, which removes the foreground timeout,
  `OnAbilityRequestDone` takes the record back to FOREGROUNDING (:669), with nothing to
  watch it.

**Resident processes** (`app_mgr_service_inner.cpp`). The faults named in the properties:
* spawn: when the spawn of a restart fails the record is removed (:6163), the error is
  ignored and nothing tries again.
* stillborn: a process that dies before `AttachApplication` is never noticed (:6995), and
  later starts find that it "already exists".
* early: a process that attaches and dies before the thread that spawned it marks its
  record as resident (:7007) exits as any process does and is not restarted.
* switch: `StartUser` puts the new user in front before `SwitchToUser`
  (`ability_manager_service.cpp:10767`); an exit before that fails is not restarted.
* `IsKilledForUpgradeWeb` compares bundle names and not uids
  (`exit_resident_process_manager.cpp:187`): with one bundle for two users (`MCBundleOf`
  constant) an exit of the other user's process is neither restarted nor listed. `Accounted`
  and `ComesBack` exempt such bundles (`Shared`); the run gives each user a bundle of its own.
* `OneProcess`: two restarts of one process on the concurrent queue both find no record
  (:6956) and start two. `EmptyStaged`: with the fault early, a process that attaches before
  its record is marked (:7007) gets no ability stage. `ScreenOffWatched`: a REQUIRE_BIG_MEMORY
  before the removal of the last subscription has run (:10627) ends up unsubscribed.
  `Throttled`: the restart count is not handed on below 1 (:7003), so the delayed restart is
  never taken.

## 5. Proofs

Every theorem is about the specification TLC runs, for every value of the constants that
satisfies the module's ASSUMEs: sentinels such as `NoRec` differ from what they stand
beside, maps such as `CallerPid` and `UserOf` have their domain and range, limits are
natural numbers (those of the cache positive), threads, processes and connections are
finite sets where they are counted. Each proof has the same form. An inductive invariant
`IInv` is stated at the head of the module; one lemma says that `Init` implies it, one
lemma per action that the action keeps it, one lemma collects the actions of `Next`; each
theorem then follows from `Spec => []IInv` by propositional temporal logic.

| Module | Theorem | States |
|---|---|---|
| `AbilityCacheProofs` | `CacheConsistent`, `CachedInBothLists`, `CountersExact` | `WithinCapacity`, `ListsAgree`, `CountsExact` |
| | `CacheIsLru` | `ImplementsLru` (refinement) |
| `AbilityConnectProofs` | `BooksAgree`, `ClientsWatched`, `ConnectedOnce`, `ConnectionsCounted` | `ListsAgree`, `RecipientsAgree`, `OneConnPerTarget`, `CountsAgree` |
| | `ConnectionsOnlyAdvance` | `ConnOnlyForward` (action property) |
| | `ConnectTyped`, `PlacedWell`, `NoOrphans`, `ConnectedToActive`, `NoneDangles`, `QueueServed`, `WaitersWatched` | `TypeOK`, `PlacedOnce`, `NoOrphanService`, `ConnectedIsActive`, `NoDangling`, `RequestsServed`, `WaiterIsWatched` |
| `ServiceCacheProofs` | `OnePlaceEach`, `NothingLost`, `DeadNotServed` | `Consistent`, `NoLostRecord`, `DeathHandled` |
| `DataAbilityProofs` | `MapsAgree`, `LoadsAreAwaited`, `ClientsAccounted` | `Consistent`, `LoadingHasWaiter`, `Accounted` |
| `PendingWantProofs` | `FoundUsable`, `TriggeredOnce`, `CancelIsFinal`, `LockOrder` | `Consistent`, `OneTimeOnce`, `LateSendRefused`, `NoCircularWait` |
| `ConnectionStateProofs` | `TablesCurrent`, `ObserversInformed` | `Consistent`, `ObserverKnows` |
| `UIAbilityLifecycleProofs` | `PlacedAndPending`, `TransitionsWatched`, `LastRequestWins`, `LastWantWins` | `Consistent`, `Watched`, `GoalReached`, `LastWantShown` |
| `ResidentProcessProofs` | `NeverForgotten` | `Consistent` |

**Cache.** `TypeOK /\ ListsAgree /\ CountsExact /\ WithinCapacity` is its own inductive
invariant and no part of it is inductive alone: a limit tested with `==` holds only if the
counter is the length of the list, the counters stay exact only if the record one list
eliminates is found in the other, and that is `ListsAgree`. `CacheIsLru` adds `InOrder`: the
list of an application has its records in the order they have in the device's list. With
it the first of either list is the oldest of its kind, which is what `AbilityLru` removes,
and each action is shown to be the abstract operation of its name.

**Connections, the books.** `OneConnPerTarget` needs `ListsAgree`, because the code looks
for an existing connection in the callback's list; `ListsAgree` needs that a new connection
is really new, i.e. that the connections in use are exactly the numbers up to some n
(`Numbered`), and that a list copied before the lock contains only connections of that
record (`CleaningOK`). With `CountsAgree` and the types these are `IInv`. The actions are
reduced to two shapes: a `Registration` (one fresh connection enters all the books) and a
`BookStep` (a set S of connections leaves the books, exactly those in S are over, and all
others stay or advance). Each action is one of the two, and each shape keeps `IInv`.

**Connections, the services.** `ManagerInv` adds three parts. `SInv` is about records: they
are numbered, one that was made has a key (`Born`), a service that still has to answer a
connect or a command is in service (`AnswersOK`), and `PlacedOnce`. `LInv` relates records
and connections: `ConnectedIsActive`, `NoOrphanService`, `NoDangling`, `RequestsServed` and
that a service marked connected has a connection (`Linked`). It needs `SInv`: a late answer
of onConnect makes connections CONNECTED, and by `AnswersOK` only those of a record in
service. `WInv` says
what watches a record in each phase of its start (`Watch`), which is more than
`WaiterIsWatched`: an armed timer of one client keeps the others' waits bounded only as
long as every way to disarm it also ends those waits. Each action is shown to be a
`ServiceStep` (a set T of records leaves service, at most one is made), a `LinkStep` (it
connects only to ACTIVE services and ends the connections of T) and to leave every
remaining record watched. `WaitersWatched` assumes that `"reportFails"` is not among the
faults: with it a client may wait for a service that is never loaded (section 4).

**The shared cache.** What the cache does is taken from `AbilityCacheProofs` by INSTANCE.
`Managers` says that a record's state tells what kind of place it can be in, that no two
places hold it (`Apart`), and that a manager's slot for the key of a record of its own that
was just eliminated is free (`SlotFree`): only `OneInstance` at the moment of the `Put` says
so, and `serialMutex_` that it stays so. Without it the `emplace` would do nothing and the
service be lost. What a manager found is its own and still cached, or in `raced` (`FoundOK`);
a record in `raced` is out of service, and its second time-out task is free until both
managers have come to terminate it (`RacedOK`), which is why its end is watched by both.
`Promises` are the three properties proper.

**Data abilities.** The second half of `Acquire` does not hold `mutex_`, and the argument rests
on what a thread that lost it still knows (`CallOK`): the record it waits for was made for the
name it asked for, so that erasing by name never leaves another load without its caller
(`WaitersOK`); and a record that became ACTIVE stays so, so that what it saw is true when it
goes on (`StatesOK`). `mutex_` is needed for one thing: a thread between its look-ups and its
insert holds it, and nobody has loaded the name since it looked, unless the name was intruded
on (`LockOK`); the record it is about to insert is known to it alone (`StartsOK`). `CountsOK` is
`Accounted` with the records that are clients and died set apart.

**Want agents.** Each lock is held exactly by the thread whose place in the code says so, also
while it waits for a receiver (`LocksOK`); a record is only ever in the map of the manager that
made it (`PlacesOK`), which is why a cancel that goes to the manager a key names finds it; one
that is marked and still there is being cancelled by the thread that has `mutex_` (`MarkedOK`).
A ONE_TIME record that was executed is cancelled (`OnceOK`), and a trigger before its execution
has its `lock_` (`CallOK`), so nobody is inside to execute it again. `LockOrder`: take a set of
threads that wait for one another and none of which is entangled. A thread that has `mutex_`
waits only for a client whose registration would be entangled, or for a cancel listener whose
call would be; so none of the set has `mutex_`, and none waits for it. One that waits for the
receiver of its trigger waits for a call that receiver makes, which can then only be a trigger,
and that is entangled. So all of them wait for a `lock_`, whose holder is past that wait.

**Observers.** The calls are made outside `stateLock_` and may be stale when they are made.
What saves them is that all changes of one pair of a living process and an extension are made
by one thread (`RightThread`), which makes its calls before it goes on, and that the threads of
the data ability manager have `mutex_` meanwhile or the pair is adrift: every call on the way
about a pair that is not says what is so, and with none on the way the observer knows
(`Informed`). `TInv` keeps the tables: besides `NothingStale`, that nothing is missing. `LInv` is
about the threads inside the data ability manager: a living client that was granted a data
ability, or is listed, has its death recipient (`AcquireOK`, `ListedWatched`), so that a listed
client's death will be heard of.

**UI abilities.** The four properties have one invariant, which says of every record what the
place it is in promises. A record of a session is `InUse`: `pendingState_` tells what the end
of the transition under way will do (`PendingOK`), so that the history `goal` is the state at
rest or what is pending (`GoalOK`), and the last want is in `lastWant_`, marked in `want_`, or
told (`WantOK`). What makes this inductive is `Orders`: an ability has at most one order to
come forward, and none once its record has turned to another transition, so that a late
answer is never taken for the end of a transition it does not belong to. A record in
`terminateAbilityList_` only goes towards its end (`Ending`: BACKGROUND is pending in every
state before TERMINATING), one in `tmpAbilityMap_` was not loaded yet (`Fresh`), and a listed one is
`Guarded`: alive and armed for its state, attached in vain, or dead and with the task that says
so. `CallsOK` is
about requests that wait for `sessionLock_`: a close that nothing overtakes still finds its
record in a session. Each operation is shown once to keep what a record is (`Keeps`) or to
bring it to its end (`Ends`), and each action to be such a step of one record; only
`CompleteBackground` changes several. The proof did not go through for a start with a new want
that meets a call under way: the exception byCall of `LastWantShown` (section 4), which no
environment of the run combines with newWant.

**Resident processes.** From the exit of a process to the record of the next one there is
always a thread, a task, a notice or a list that knows of it. The chain could break where
an exit is dropped: because the record is not marked resident (`Marked`), because
its bundle is already registered for a restart (`Registered`: then the restart is queued),
or because it is listed after its list was emptied (`NothingLeftListed`). Two exceptions of
`Accounted` were found by the proof, where the run had not reached them: an early death (now
an environment of the run) and a bundle of two users.

Only model-checked: the liveness properties (`EveryWaitEnds`, `TerminationEnds`,
`GhostsLeave`, `AcquireReturns`, `StrayGivenUp`, `CloseEnds`, `ComesBack`), which need fairness
and ENABLED and are out of the prover's reach. Every invariant and action property of a
passing run is proved.

## 6. Not modelled

Of the modelled components, what section 2 names as left out, and: extensions of type
UI_SERVICE and AGENT, which are connected once per client; window commands, foreground
and background of UI extensions; `OnAppStateChanged`; specified processes; the assert
dialog; `DisconnectBeforeCleanup` and `PauseExtensions` (shutdown); the delayed
disconnect task, which the code does not post for SERVICE extensions; permission checks;
dumps and queries.

Whole components:

* `CacheProcessManager` (the queue of cached processes and its limit), `CallContainer`,
  `FreeInstallManager`, `QuickFixManager`, `DataObsMgr`: state machines of the kind modelled
  here, left for later.
* `MissionListManager` (devices without scene board) and `UIExtensionAbilityManager`: 4,000
  lines and more each; the lifecycle they drive is the one of `UIAbilityLifecycle` and
  `AbilityConnect` with other containers.
* `UriPermissionManager`: grant tables behind services outside the repository.
* The IPC proxies and stubs, the parameter classes and the application-side libraries under
  `frameworks/` and `interfaces/`, which are the larger part of the repository's lines, hold no
  state machine of the services; they marshal, check permissions and bind languages.

## 7. Plan

1. Done: `AbilityLru`, `AbilityCache`, `AbilityConnect`, `ServiceCache`, `DataAbility`,
   `PendingWant`, `ConnectionState`, `UIAbilityLifecycle` and `ResidentProcess` with their runs;
   the theorems of section 5.
2. Next: an abstract specification of a connection as a client sees it, implemented by
   `AbilityConnect`; per-connection extensions; `CacheProcessManager` and `CallContainer`.
