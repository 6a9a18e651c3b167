----------------------------- MODULE DataAbility ------------------------------
(***************************************************************************)
(* DataAbilityManager and DataAbilityRecord                                *)
(* (services/abilitymgr/src/data_ability): a call of Acquire looks a data  *)
(* ability up by name, starts its process if needed and blocks, at most    *)
(* DATA_ABILITY_LOAD_TIMEOUT, until the provider has reported itself       *)
(* active; Release, the provider's own reports and the deaths of providers *)
(* and clients come in on other threads.                                   *)
(*                                                                         *)
(* mutex_ is explicit, because WaitForLoaded adopts it into a unique_lock  *)
(* of its own: after a wait the lock is free, the rest of Acquire runs     *)
(* without it, and Acquire's lock_guard unlocks it a second time, whoever  *)
(* holds it then.  Acquire is therefore cut at every access to the maps.   *)
(*                                                                         *)
(* The reports to ConnectionStateManager are in ConnectionState.           *)
(***************************************************************************)
EXTENDS Naturals, FiniteSets

CONSTANTS Threads,    \* IPC and task threads of the ability manager
          Names,      \* "bundleName.abilityName"
          Recs,       \* DataAbilityRecords, one per load
          Clients,    \* client tokens; a record's own token can be one
          Hap,        \* the clients for which isNotHap is false
          Binds,      \* the clients that ask for tryBind
          Environments, \* the environments a behaviour may run in
          MaxHeld,    \* bounds what one client holds or asks for
          NoRec, NoClient, Free

ASSUME ClientAssumption == /\ Hap \subseteq Clients
                           /\ Binds \subseteq Clients
                           /\ Recs \cap Clients \subseteq Hap
                           /\ Environments \subseteq
                                [asks : SUBSET (Names \X (Clients \cup {NoClient})),
                                 keepAlive : SUBSET Names, most : 1..MaxHeld,
                                 loads : Nat, crashes : Nat]
                           /\ NoRec \notin Recs
                           /\ NoClient \notin Clients
                           /\ Free \notin Threads
ASSUME BoundAssumption == MaxHeld \in Nat /\ IsFiniteSet(Threads)

VARIABLES env,        \* fixed from the start: who asks for which data ability and
                      \* how often at most, which of these are main abilities of
                      \* resident bundles, and the bounds of loads and crashes
          mutex,      \* mutex_: the thread that holds it, or Free
          loaded,     \* dataAbilityRecordsLoaded_
          loading,    \* dataAbilityRecordsLoading_
          name,       \* the name each record was created for, "" before
          state,      \* GetAbilityState() of the record's ability
          attached,   \* records whose scheduler_ is set
          clients,    \* clients_: how often each client is in the list
          watched,    \* clients whose death the record would be told of
          call,       \* what each thread is doing
          alive,      \* provider processes that run
          deaths,     \* OnAbilityDied tasks submitted and not yet run
          obituaries, \* OnSchedulerDied calls on the way to a record
          deadClients,
          killed,     \* clients KillProcessByAbilityToken was called for
          timedOut,   \* records AttachTimeOut was called for
          held,       \* schedulers returned to a client and not released (history)
          intruded    \* names for which an Acquire that was to look them up and load
                      \* them has lost mutex_ to the second unlock of another (history)

data    == <<loaded, loading, name, state, attached, clients, watched>>
process == <<env, alive, deaths, obituaries, deadClients>>
history == <<killed, timedOut, held, intruded>>
vars    == <<mutex, data, call, process, history>>

Idle == [pc |-> "idle", name |-> "", client |-> NoClient, rec |-> NoRec, ok |-> FALSE]

Init == /\ env \in Environments
        /\ mutex = Free
        /\ loaded = [n \in Names |-> NoRec]
        /\ loading = [n \in Names |-> NoRec]
        /\ name = [r \in Recs |-> ""]
        /\ state = [r \in Recs |-> "NONE"]
        /\ attached = {}
        /\ clients = [r \in Recs |-> [c \in Clients |-> 0]]
        /\ watched = [r \in Recs |-> {}]
        /\ call = [t \in Threads |-> Idle]
        /\ alive = {}
        /\ deaths = {}
        /\ obituaries = {}
        /\ deadClients = {}
        /\ killed = {}
        /\ timedOut = {}
        /\ held = [r \in Recs |-> [c \in Clients |-> 0]]
        /\ intruded = {}

Loaded  == {loaded[n] : n \in Names} \ {NoRec}
Loading == {loading[n] : n \in Names} \ {NoRec}

\* DataAbilityRecord::GetScheduler is not null.
HasScheduler(r) == r \in attached /\ state[r] = "ACTIVE"

\* DataAbilityRecord's constructor: records not made yet are alike.
NewRecord == CHOOSE r \in Recs : state[r] = "NONE"
Made == {r \in Recs : state[r] # "NONE"}

InFlight(c) == Cardinality({t \in Threads : call[t].pc # "idle" /\ call[t].client = c})
-------------------------------------------------------------------------------
(* Acquire.                                                                *)

\* The client calls; null is the caller of a preload or a restart.  Nothing
\* happens before the lock_guard has mutex_.
AcquireLock(t, n, c) ==
    /\ call[t].pc = "idle"
    /\ c # NoClient => /\ c \notin deadClients \cup killed
                       /\ c \in Recs => c \in alive /\ state[c] = "ACTIVE"
                       /\ \A r \in Recs : held[r][c] + InFlight(c) < env.most
    /\ mutex = Free
    /\ mutex' = t
    /\ call' = [call EXCEPT ![t] = [Idle EXCEPT !.pc = "find", !.name = n, !.client = c]]
    /\ UNCHANGED <<data, process, history>>

\* RestartDataAbility's own call, for no client.
RestartLock(t) ==
    /\ call[t].pc = "restart"
    /\ mutex = Free
    /\ mutex' = t
    /\ call' = [call EXCEPT ![t].pc = "find"]
    /\ UNCHANGED <<data, process, history>>

\* Mutant: an entry per client, not per call.
AddClient_Once(r, c) ==
    IF c = NoClient THEN UNCHANGED <<clients, watched>>
    ELSE /\ clients' = [clients EXCEPT ![r][c] = 1]
         /\ watched' = [watched EXCEPT ![r] = @ \cup {c}]

\* AddClient: the entry, and a death recipient on the client's object (which
\* reports nothing if the object is dead by then).
AddClient(r, c) ==
    IF c = NoClient THEN UNCHANGED <<clients, watched>>
    ELSE /\ clients' = [clients EXCEPT ![r][c] = @ + 1]
         /\ watched' = [watched EXCEPT ![r] = IF c \in deadClients THEN @ ELSE @ \cup {c}]

Grant(r, c) == held' = IF c = NoClient THEN held ELSE [held EXCEPT ![r][c] = @ + 1]

\* mutex_ is unlocked by t, whoever holds it.
Unlock(t) ==
    /\ mutex' = Free
    /\ intruded' = IF mutex \in Threads \ {t} /\ call[mutex].pc \in {"find", "load", "insert"}
                      THEN intruded \cup {call[mutex].name} ELSE intruded

\* The look-up in dataAbilityRecordsLoaded_.
AcquireFind(t) ==
    LET r == loaded[call[t].name]
    IN  /\ call[t].pc = "find"
        /\ call' = [call EXCEPT ![t].pc = IF r = NoRec THEN "load" ELSE "loaded", ![t].rec = r]
        /\ UNCHANGED <<mutex, data, process, history>>

\* The look-up in dataAbilityRecordsLoading_ finds another caller's load.
AcquireJoin(t) ==
    LET r == loading[call[t].name]
    IN  /\ call[t].pc = "load"
        /\ r # NoRec
        /\ call' = [call EXCEPT ![t].pc = "enter", ![t].rec = r]
        /\ UNCHANGED <<mutex, data, process, history>>

\* It finds nothing, and StartLoading fails: nothing is registered.
AcquireRefused(t) ==
    /\ call[t].pc = "load"
    /\ loading[call[t].name] = NoRec
    /\ call' = [call EXCEPT ![t].pc = "return"]
    /\ UNCHANGED <<mutex, data, process, history>>

\* StartLoading succeeds: the application manager starts the process.
AcquireStart(t) ==
    /\ call[t].pc = "load"
    /\ loading[call[t].name] = NoRec
    /\ Made # Recs /\ Cardinality(Made) < env.loads
    /\ LET r == NewRecord
       IN  /\ name' = [name EXCEPT ![r] = call[t].name]
           /\ state' = [state EXCEPT ![r] = "INITIAL"]
           /\ alive' = alive \cup {r}
           /\ call' = [call EXCEPT ![t].pc = "insert", ![t].rec = r]
    /\ UNCHANGED <<mutex, loaded, loading, attached, clients, watched,
                   env, deaths, obituaries, deadClients, history>>

\* The record is loading now, unless another of that name is: then Acquire returns null.
AcquireInsert(t) ==
    LET n == call[t].name
    IN  /\ call[t].pc = "insert"
        /\ IF loading[n] = NoRec
              THEN /\ loading' = [loading EXCEPT ![n] = call[t].rec]
                   /\ call' = [call EXCEPT ![t].pc = "enter"]
              ELSE call' = [call EXCEPT ![t].pc = "return"] /\ UNCHANGED loading
        /\ UNCHANGED <<mutex, loaded, name, state, attached, clients, watched, process, history>>

\* WaitForLoaded is called: it adopts mutex_, and its wait gives it up, unless the record
\* is ACTIVE by now.
EnterWait(t) ==
    /\ call[t].pc = "enter"
    /\ IF state[call[t].rec] = "ACTIVE"
          THEN call' = [call EXCEPT ![t].pc = "loaded"] /\ UNCHANGED <<mutex, intruded>>
          ELSE call' = [call EXCEPT ![t].pc = "wait"] /\ Unlock(t)
    /\ UNCHANGED <<data, process, killed, timedOut, held>>

\* Mutant: after its timeout the thread waits again.
WaitForLoaded_Unbounded(t) ==
    /\ call[t].pc = "wait"
    /\ mutex = Free
    /\ call' = [call EXCEPT ![t].pc = IF HasScheduler(call[t].rec) THEN "loaded" ELSE "wait"]
    /\ UNCHANGED <<mutex, data, process, history>>

\* loadedCond_.wait_for ends, with the state ACTIVE or by its timeout, having
\* taken mutex_ once more; the unique_lock gives it up as WaitForLoaded returns.
WaitForLoaded(t) ==
    /\ call[t].pc = "wait"
    /\ mutex = Free
    /\ call' = [call EXCEPT ![t].pc = IF HasScheduler(call[t].rec) THEN "loaded" ELSE "failed"]
    /\ UNCHANGED <<mutex, data, process, history>>

\* Mutant: a failed load stays in the map.
LoadFailed_Kept(t) ==
    /\ call[t].pc = "failed"
    /\ call' = [call EXCEPT ![t].pc = "giveUp"]
    /\ UNCHANGED <<mutex, data, process, history>>

\* LoadLocked after a failed wait, mutex_ not held: what is now loading under
\* that name leaves the map.
LoadFailed(t) ==
    /\ call[t].pc = "failed"
    /\ loading' = [loading EXCEPT ![call[t].name] = NoRec]
    /\ call' = [call EXCEPT ![t].pc = "giveUp"]
    /\ UNCHANGED <<mutex, loaded, name, state, attached, clients, watched, process, history>>

\* Mutant: the application manager is not told.
GiveUp_Silent(t) ==
    /\ call[t].pc = "giveUp"
    /\ Unlock(t)
    /\ call' = [call EXCEPT ![t] = Idle]
    /\ UNCHANGED <<data, process, killed, timedOut, held>>

\* ... and the application manager is told to give up the record's process.
\* Then Acquire returns null and its lock_guard unlocks mutex_.
GiveUp(t) ==
    /\ call[t].pc = "giveUp"
    /\ timedOut' = timedOut \cup {call[t].rec}
    /\ Unlock(t)
    /\ call' = [call EXCEPT ![t] = Idle]
    /\ UNCHANGED <<data, process, killed, held>>

\* Acquire has a record: mutex_ is not held after a wait.
AcquireResumed(t) ==
    LET r == call[t].rec
    IN  /\ call[t].pc = "loaded"
        /\ IF HasScheduler(r)
              THEN AddClient(r, call[t].client) /\ UNCHANGED loaded
              ELSE /\ loaded' = [loaded EXCEPT ![call[t].name] = NoRec]
                   /\ UNCHANGED <<clients, watched>>
        /\ call' = [call EXCEPT ![t].pc = "return", ![t].ok = HasScheduler(r)]
        /\ UNCHANGED <<mutex, loading, name, state, attached, process, history>>

\* Acquire returns; its lock_guard unlocks mutex_, whoever holds it.
AcquireReturn(t) ==
    /\ call[t].pc = "return"
    /\ IF call[t].ok THEN Grant(call[t].rec, call[t].client) ELSE UNCHANGED held
    /\ Unlock(t)
    /\ call' = [call EXCEPT ![t] = Idle]
    /\ UNCHANGED <<data, process, killed, timedOut>>
-------------------------------------------------------------------------------
(* The other operations; each runs from lock to unlock in one step.        *)

\* Release and RemoveClient: one entry of the client goes.
Release(c, r) ==
    /\ mutex = Free
    /\ held[r][c] > 0
    /\ c \notin deadClients
    /\ held' = [held EXCEPT ![r][c] = @ - 1]
    /\ clients' = IF r \in Loaded /\ HasScheduler(r) /\ clients[r][c] > 0
                     THEN [clients EXCEPT ![r][c] = @ - 1] ELSE clients
    /\ UNCHANGED <<mutex, loaded, loading, name, state, attached, watched,
                   call, process, killed, timedOut, intruded>>

\* AttachAbilityThread: the provider's process has created the ability.  This
\* and the next two reports may be handled after the process that sent them died.
AttachAbilityThread(r) ==
    /\ mutex = Free
    /\ r \in Loading
    /\ r \notin attached
    /\ state[r] = "INITIAL"
    /\ attached' = attached \cup {r}
    /\ state' = [state EXCEPT ![r] = "ACTIVATING"]
    /\ UNCHANGED <<mutex, loaded, loading, name, clients, watched, call, process, history>>

\* Mutant: the record is added to the loaded ones and not taken from the others.
TransitionDone_Both(r) ==
    /\ mutex = Free
    /\ r \in Loading
    /\ r \in attached
    /\ state[r] = "ACTIVATING"
    /\ state' = [state EXCEPT ![r] = "ACTIVE"]
    /\ loaded' = [loaded EXCEPT ![name[r]] = r]
    /\ UNCHANGED <<mutex, loading, name, attached, clients, watched, call, process, history>>

\* AbilityTransitionDone(ACTIVE): the record moves to the loaded ones.
TransitionDone(r) ==
    /\ mutex = Free
    /\ r \in Loading
    /\ r \in attached
    /\ state[r] = "ACTIVATING"
    /\ state' = [state EXCEPT ![r] = "ACTIVE"]
    /\ loaded' = [loaded EXCEPT ![name[r]] = r]
    /\ loading' = [loading EXCEPT ![name[r]] = NoRec]
    /\ UNCHANGED <<mutex, name, attached, clients, watched, call, process, history>>

\* AbilityTransitionDone with any other state: back to INITIAL, and still loading.
TransitionFailed(r) ==
    /\ mutex = Free
    /\ r \in Loading
    /\ r \in attached
    /\ state[r] = "ACTIVATING"
    /\ state' = [state EXCEPT ![r] = "INITIAL"]
    /\ UNCHANGED <<mutex, loaded, loading, name, attached, clients, watched,
                   call, process, history>>

\* OnAbilityDied on the task thread t.  AbilityManagerService finds the manager
\* only by a record that is loaded or loading.  A loaded record goes, its bound
\* HAP clients are killed, and as a client it leaves every other record; then
\* RestartDataAbility may acquire it anew, for no client.
OnAbilityDied(t, r) ==
    LET known == r \in Loaded \cup Loading
        n     == name[r]
    IN  /\ mutex = Free
        /\ call[t].pc = "idle"
        /\ r \in deaths
        /\ deaths' = deaths \ {r}
        /\ killed' = IF r \in Loaded
                        THEN killed \cup {c \in Hap \cap Binds : clients[r][c] > 0}
                        ELSE killed
        /\ loaded' = [m \in Names |-> IF loaded[m] = r THEN NoRec ELSE loaded[m]]
        /\ clients' = IF known /\ r \in Clients
                         THEN [q \in Recs |-> IF q \in Loaded \ {r} THEN [clients[q] EXCEPT ![r] = 0]
                                              ELSE clients[q]]
                         ELSE clients
        /\ IF known /\ n \in env.keepAlive
              THEN call' = [call EXCEPT ![t] = [Idle EXCEPT !.pc = "restart", !.name = n]]
              ELSE UNCHANGED call
        /\ UNCHANGED <<mutex, loading, name, state, attached, watched, env, alive, obituaries,
                       deadClients, timedOut, held, intruded>>

\* DataAbilityRecord::OnSchedulerDied, which takes no lock.
OnClientDied(r, c) ==
    /\ <<r, c>> \in obituaries
    /\ obituaries' = obituaries \ {<<r, c>>}
    /\ clients' = [clients EXCEPT ![r][c] = 0]
    /\ UNCHANGED <<mutex, loaded, loading, name, state, attached, watched,
                   call, env, alive, deaths, deadClients, history>>
-------------------------------------------------------------------------------
(* The processes outside the ability manager.                              *)

\* A provider's process ends.  The ability manager hears of it if the scheduler,
\* which carries the death recipient, was attached before.
ProviderDies(r) ==
    /\ r \in alive /\ Cardinality(Made \ alive) < env.crashes
    /\ alive' = alive \ {r}
    /\ deaths' = IF r \in attached THEN deaths \cup {r} ELSE deaths
    /\ UNCHANGED <<mutex, data, call, env, obituaries, deadClients, history>>

\* A native client ends; each record that watches it is told.
ClientDies(c) ==
    /\ c \in {a[2] : a \in env.asks} \ Hap
    /\ c \notin deadClients \cup {NoClient}
    /\ deadClients' = deadClients \cup {c}
    /\ obituaries' = obituaries \cup {<<r, c>> : r \in {q \in Recs : c \in watched[q]}}
    /\ held' = [r \in Recs |-> [held[r] EXCEPT ![c] = 0]]
    /\ UNCHANGED <<mutex, data, call, env, alive, deaths, killed, timedOut, intruded>>
-------------------------------------------------------------------------------
AcquireStep(t) == \/ RestartLock(t) \/ AcquireFind(t) \/ AcquireJoin(t) \/ AcquireRefused(t)
                  \/ AcquireStart(t) \/ AcquireInsert(t) \/ EnterWait(t) \/ WaitForLoaded(t)
                  \/ LoadFailed(t) \/ GiveUp(t) \/ AcquireResumed(t) \/ AcquireReturn(t)

Next == \/ \E t \in Threads, a \in env.asks : AcquireLock(t, a[1], a[2])
        \/ \E t \in Threads : RestartLock(t)
        \/ \E t \in Threads : AcquireFind(t)
        \/ \E t \in Threads : AcquireJoin(t)
        \/ \E t \in Threads : AcquireRefused(t)
        \/ \E t \in Threads : AcquireStart(t)
        \/ \E t \in Threads : AcquireInsert(t)
        \/ \E t \in Threads : EnterWait(t)
        \/ \E t \in Threads : WaitForLoaded(t)
        \/ \E t \in Threads : LoadFailed(t)
        \/ \E t \in Threads : GiveUp(t)
        \/ \E t \in Threads : AcquireResumed(t)
        \/ \E t \in Threads : AcquireReturn(t)
        \/ \E c \in Clients, r \in Recs : Release(c, r)
        \/ \E r \in Recs : AttachAbilityThread(r)
        \/ \E r \in Recs : TransitionDone(r)
        \/ \E r \in Recs : TransitionFailed(r)
        \/ \E t \in Threads, r \in Recs : OnAbilityDied(t, r)
        \/ \E r \in Recs, c \in Clients : OnClientDied(r, c)
        \/ \E r \in Recs : ProviderDies(r)
        \/ \E c \in Clients : ClientDies(c)

Spec == Init /\ [][Next]_vars

\* A thread that has been admitted runs on; wait_for ends by its timeout at the
\* latest, and then gets mutex_ like every other waiter in turn.
Fairness == \A t \in Threads : SF_vars(AcquireStep(t))

FairSpec == Spec /\ Fairness
-------------------------------------------------------------------------------
\* What a thread is doing: its place in Acquire, what it was called with, the
\* record it waits for and whether Acquire will return a scheduler.
Calls == [pc : {"idle", "restart", "find", "load", "insert", "enter", "wait", "failed", "giveUp",
                "loaded", "return"},
          name : Names \cup {""}, client : Clients \cup {NoClient},
          rec : Recs \cup {NoRec}, ok : BOOLEAN]

TypeOK ==
    /\ env \in Environments
    /\ mutex \in Threads \cup {Free}
    /\ loaded \in [Names -> Recs \cup {NoRec}]
    /\ loading \in [Names -> Recs \cup {NoRec}]
    /\ name \in [Recs -> Names \cup {""}]
    /\ state \in [Recs -> {"NONE", "INITIAL", "ACTIVATING", "ACTIVE"}]
    /\ attached \subseteq Recs
    /\ clients \in [Recs -> [Clients -> Nat]]
    /\ watched \in [Recs -> SUBSET Clients]
    /\ call \in [Threads -> Calls]
    /\ alive \subseteq Recs /\ deaths \subseteq Recs
    /\ obituaries \subseteq Recs \X Clients
    /\ deadClients \subseteq Clients /\ killed \subseteq Clients
    /\ timedOut \subseteq Recs
    /\ held \in [Recs -> [Clients -> Nat]]
    /\ intruded \subseteq Names

\* A name is loaded or loading by a record made for it, and never both: although
\* waiters that failed erase by name and without the lock, no load replaces a
\* provider that serves.  Only a second unlock that lets a thread in between the
\* look-ups and the insert of another can make it both, see the README.
OnePerName ==
    \A n \in Names : /\ n \notin intruded => loaded[n] = NoRec \/ loading[n] = NoRec
                     /\ loaded[n] # NoRec => name[loaded[n]] = n
                     /\ loading[n] # NoRec => name[loading[n]] = n

\* What Acquire finds among the loaded records has a scheduler to return, and a
\* record that is still loading has none: GetScheduler never fails on the path
\* that removes a loaded record.
LoadedServes == /\ \A r \in Loaded : HasScheduler(r)
                /\ \A r \in Loading : state[r] # "ACTIVE"

\* The two maps, the records they name and the threads that use both agree,
\* without the lock around the second half of Acquire.
Consistent == TypeOK /\ OnePerName /\ LoadedServes

\* Every load in progress has a caller whose timeout will end it: nothing else
\* in the code removes a load that fails or whose provider dies.
LoadingHasWaiter ==
    \A r \in Loading : \E t \in Threads : call[t].rec = r /\ call[t].pc \in {"enter", "wait", "failed"}

\* Records whose OnAbilityDied has run, or will not.
Buried == {r \in attached : r \notin alive \cup deaths}

Returning(r, c) == Cardinality({t \in Threads : /\ call[t].pc = "return" /\ call[t].ok
                                               /\ call[t].rec = r /\ call[t].client = c})

\* "One client can be added multi-times, so 'RemoveClient()' must be called in
\* corresponding times": a loaded record counts for each living client exactly
\* the schedulers that client holds or is about to be handed.
Accounted ==
    \A r \in Loaded, c \in Clients \ (deadClients \cup Buried) :
        clients[r][c] = held[r][c] + Returning(r, c)

\* Acquire always returns, whatever the provider does.
AcquireReturns == \A t \in Threads : call[t].pc # "idle" ~> call[t].pc = "idle"

\* Records that are about to become loading ones.
Starting == {call[t].rec : t \in {u \in Threads : call[u].pc = "insert"}}

\* A provider process that was started and is in neither map is given up in the
\* end, also when another caller's timeout took its entry out by name.  A record
\* whose insert failed, or which another load replaced, is not: this takes a
\* second unlock between look-up and insert, see the README.
StrayGivenUp ==
    \A r \in Recs : (/\ state[r] # "NONE" /\ name[r] \notin intruded
                     /\ r \notin Loaded \cup Loading \cup Starting)
                       ~> (r \in timedOut \/ r \notin alive)
-------------------------------------------------------------------------------
(* What the documentation says of data abilities and the code does not     *)
(* keep, see the README.                                                   *)

\* interfaces/inner_api/ability_manager/include/ability_manager_interface.h:
\* "tryBind, true: when a data ability is died, ams will kill this client".
BoundClientKilled ==
    \A r \in Buried, c \in Hap \cap Binds : held[r][c] > 0 => c \in killed

\* data_ability_manager.cpp, OnAbilityDied: "If 'abilityRecord' is a data ability
\* server, trying to remove it from 'dataAbilityRecords_'."
DiedServerRemoved == \A r \in Buried : r \notin Loaded
===============================================================================
