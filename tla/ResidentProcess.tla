---------------------------- MODULE ResidentProcess ---------------------------
(***************************************************************************)
(* Keeping resident processes alive: the exit, restart and start paths of  *)
(* AppMgrServiceInner, the lists of ExitResidentProcessManager in which an *)
(* exit waits for memory or for the end of a web upgrade                   *)
(* (services/appmgr/src), and the ability manager's share of a start       *)
(* (services/abilitymgr/src).                                              *)
(*                                                                         *)
(* The application manager's queue is concurrent: every exit, every restart *)
(* and every start runs on a thread of its own, and ExitResidentProcess-   *)
(* Manager has one mutex per list.  A step below is what happens under one *)
(* lock.                                                                   *)
(*                                                                         *)
(* Not modelled: resident bundles with a main ability (their ability brings *)
(* the process back, see AbilityConnect), the switch that turns a bundle's *)
(* residence off, keep-alive applications that are not resident.           *)
(***************************************************************************)
EXTENDS Integers, Sequences, FiniteSets, Functions

CONSTANTS Apps,        \* resident bundles, each for one user: an entry of bundle name and uid
          BundleOf,    \* bundle name of an application
          UserOf,      \* its user: uid / BASE_USER_RANGE
          Users,       \* the users that may be in front
          Exempt,      \* IsAllowResidentInExtremeMemory
          BigUnrelated,\* IsBigMemoryUnrelatedKeepAliveProc
          WebApps,     \* applications that call NotifyProcessDependedOnWeb
          MaxRestart,  \* MAX_RESTART_COUNT
          MaxStarts,   \* bound on the records made
          Environments \* which faults happen in a behaviour, and how often at most
                       \* what comes from outside

(***************************************************************************)
(* Faults: a process cannot be spawned (spawn), dies before it attaches    *)
(* (stillborn), attaches before the thread that spawned it has filled its  *)
(* record (early); a switch of users fails (switch).                       *)
(***************************************************************************)
FaultKinds == {"spawn", "stillborn", "early", "switch"}
Kinds == {"exits", "low", "big", "web", "switch"}
U0 == 0
NoSwitch == -1

ASSUME ResidentAssumption ==
    /\ UserOf \in [Apps -> Users \cup {U0}] /\ U0 \notin Users /\ NoSwitch \notin Users
    /\ DOMAIN BundleOf = Apps
    /\ Exempt \subseteq Apps /\ BigUnrelated \subseteq Apps /\ WebApps \subseteq Apps
    /\ MaxRestart \in Nat /\ MaxStarts \in Nat
    /\ Environments \subseteq [faults : SUBSET FaultKinds, left : [Kinds -> Nat]]
    /\ IsFiniteSet(Apps) /\ Cardinality(Apps) <= MaxStarts

VARIABLES rec,      \* the AppRunningRecords that were made, as a sequence
          map,      \* appRunningRecordMap_
          starting, \* threads between CheckAppRunningRecordIsExist and CreateAppRunningRecord
          filling,  \* threads in StartEmptyResidentProcess after StartProcess
          exits,    \* threads in ClearResidentProcessAppRunningData
          tasks,    \* restarts and starts in the application manager's queue
          notices,  \* start notices on their way to the ability manager
          waiting,  \* restartResidentTaskList_, by the bundle name it is searched for
          low,      \* currentMemorySizeState_ and exitResidentInfos_
          big,      \* currentBigMemoryState_ and exitResidentBigMemoryInfos_
          web,      \* exitResidentBundlesDependedOnWeb_
          killing,  \* records KillProcessDependedOnWeb still has to kill
          screen,   \* screenOffSubscriber_, its removal, REQUIRE_BIG_MEMORY under way
          front,    \* the user in front, and the one to return to while a switch runs
          env       \* the faults of this behaviour, and what may still come from outside

memory == <<low, big, web, screen>>
queue  == <<tasks, notices, waiting>>
vars   == <<rec, map, starting, filling, exits, queue, memory, killing, front, env>>

App(i) == rec[i].app
Spend(k) == /\ env.left[k] > 0
            /\ env' = [env EXCEPT !.left[k] = @ - 1]

\* userId == 0 || IsForegroundUser(userId).
InFront(a) == UserOf[a] \in {U0, front.user}

\* CheckAppRunningRecordIsExist: a process that died and has not been
\* reported counts.
Exists(a) == \E i \in map : App(i) = a

\* A new record; row counts the restarts at once since the last launch (history).
Record(a, row) == [app |-> a, state |-> "created", alive |-> TRUE, count |-> 0,
                    keepAlive |-> FALSE, staged |-> FALSE, row |-> row]

\* The device is up: what has to run does.
Init == /\ \E u \in Users : front = [user |-> u, back |-> NoSwitch]
        /\ \E f \in [1 .. Cardinality({a \in Apps : InFront(a)}) -> {a \in Apps : InFront(a)}] :
              /\ IsInjective(f)
              /\ rec = [i \in DOMAIN f |-> [Record(f[i], 0) EXCEPT
                    !.state = "ready", !.count = MaxRestart, !.keepAlive = TRUE, !.staged = TRUE]]
              /\ map = DOMAIN f
        /\ starting = {} /\ filling = {} /\ exits = {}
        /\ tasks = {} /\ notices = {} /\ waiting = {}
        /\ low = [now |-> FALSE, list |-> {}]
        /\ big = [now |-> FALSE, list |-> {}]
        /\ web = {} /\ killing = {}
        /\ screen = [sub |-> FALSE, unsub |-> FALSE, require |-> FALSE]
        /\ env \in Environments

---------------------------------------------------------------------------
(* Processes.                                                              *)

\* A process ends.  Before it attached nobody is told.
Die(i) ==
    /\ i \in map /\ rec[i].alive
    /\ rec[i].state = "created" => "stillborn" \in env.faults
    /\ rec' = [rec EXCEPT ![i].alive = FALSE]
    /\ Spend("exits")
    /\ UNCHANGED <<map, starting, filling, exits, queue, memory, killing, front>>

\* AttachApplication: SetApplicationClient.  Only with the fault "early" is a
\* process faster than the thread that started it.
AttachApplication(i) ==
    /\ i \in map /\ rec[i].state = "created" /\ rec[i].alive
    /\ "early" \notin env.faults => rec[i].keepAlive
    /\ rec' = [rec EXCEPT ![i].state = "attached"]
    /\ UNCHANGED <<map, starting, filling, exits, queue, memory, killing, front, env>>

\* Mutant: the launched process is not marked as ready.
LaunchApplication_NotReady(i) ==
    /\ i \in DOMAIN rec /\ rec[i].state = "attached"
    /\ rec' = [rec EXCEPT ![i].count = MaxRestart, ![i].staged = rec[i].keepAlive, ![i].row = 0]
    /\ UNCHANGED <<map, starting, filling, exits, queue, memory, killing, front, env>>

\* LaunchApplication: an empty resident process gets its ability stage, the
\* others the abilities that wait for them.
LaunchApplication(i) ==
    /\ i \in DOMAIN rec /\ rec[i].state = "attached"
    /\ rec' = [rec EXCEPT ![i].state = "ready", ![i].count = MaxRestart,
                          ![i].staged = rec[i].keepAlive, ![i].row = 0]
    /\ UNCHANGED <<map, starting, filling, exits, queue, memory, killing, front, env>>

---------------------------------------------------------------------------
(* Exits.                                                                  *)

Exit(i, by, pc) == [id |-> i, by |-> by, pc |-> pc]
ExitAt(e, pc) == (exits \ {e}) \cup {Exit(e.id, e.by, pc)}

OnRemoteDied(i) ==
    /\ i \in map /\ rec[i].state # "created" /\ ~rec[i].alive
    /\ map' = map \ {i}
    /\ exits' = exits \cup {Exit(i, "died", "web")}
    /\ UNCHANGED <<rec, starting, filling, queue, memory, killing, front, env>>

\* ApplicationTerminated looks the record up and removes it later; the
\* process is over at once.
ApplicationTerminated(i) ==
    /\ i \in map /\ rec[i].state = "ready" /\ rec[i].alive
    /\ rec' = [rec EXCEPT ![i].alive = FALSE]
    /\ exits' = exits \cup {Exit(i, "ended", "remove")}
    /\ Spend("exits")
    /\ UNCHANGED <<map, starting, filling, queue, memory, killing, front>>

RemoveAppRunningRecord(e) ==
    /\ e \in exits /\ e.pc = "remove"
    /\ map' = map \ {e.id}
    /\ exits' = ExitAt(e, "web")
    /\ UNCHANGED <<rec, starting, filling, queue, memory, killing, front, env>>

\* Only the bundle name is compared.
IsKilledForUpgradeWeb(a) == \E b \in web : BundleOf[b] = BundleOf[a]

\* Only a resident process of user 0 or of the user in front is restarted,
\* and not while the web upgrade holds its bundle.
CheckRestart(e) ==
    /\ e \in exits /\ e.pc = "web"
    /\ exits' = IF rec[e.id].keepAlive /\ InFront(App(e.id)) /\ ~IsKilledForUpgradeWeb(App(e.id))
                THEN ExitAt(e, "low") ELSE exits \ {e}
    /\ UNCHANGED <<rec, map, starting, filling, queue, memory, killing, front, env>>

RecordExitResidentBundleName(e) ==
    /\ e \in exits /\ e.pc = "low"
    /\ IF App(e.id) \notin Exempt /\ low.now
       THEN /\ low' = [low EXCEPT !.list = @ \cup {App(e.id)}]
            /\ exits' = exits \ {e}
       ELSE /\ exits' = ExitAt(e, "big")
            /\ UNCHANGED low
    /\ UNCHANGED <<rec, map, starting, filling, queue, big, web, screen, killing, front, env>>

RecordExitResidentBundleNameOnRequireBigMemory(e) ==
    /\ e \in exits /\ e.pc = "big"
    /\ IF App(e.id) \in BigUnrelated /\ big.now
       THEN /\ big' = [big EXCEPT !.list = @ \cup {App(e.id)}]
            /\ exits' = exits \ {e}
       ELSE /\ exits' = ExitAt(e, "submit")
            /\ UNCHANGED big
    /\ UNCHANGED <<rec, map, starting, filling, queue, low, web, screen, killing, front, env>>

\* CanRestartResidentProc, and the task: at once, or after RESTART_INTERVAL_TIME
\* unless one is registered for the bundle.  "late" is whether that time has
\* passed since the last restart.
SubmitRestart(e) ==
    /\ e \in exits /\ e.pc = "submit"
    /\ exits' = exits \ {e}
    /\ \E late \in BOOLEAN :
          LET name == BundleOf[App(e.id)]
              now  == rec[e.id].count >= 0 \/ late
          IN  IF ~now /\ name \in waiting THEN UNCHANGED <<tasks, waiting>>
              ELSE /\ tasks' = tasks \cup {[app |-> App(e.id), id |-> e.id, by |-> e.by]}
                   /\ waiting' = IF now THEN waiting ELSE waiting \cup {name}
    /\ UNCHANGED <<rec, map, starting, filling, notices, memory, killing, front, env>>

---------------------------------------------------------------------------
(* Starts.                                                                 *)

\* RestartResidentProcess, up to the look for a record of the process.
RestartResidentProcess(t) ==
    /\ t \in tasks /\ t.by # "load"
    /\ tasks' = tasks \ {t}
    /\ waiting' = waiting \ {BundleOf[t.app]}
    /\ rec' = [rec EXCEPT ![t.id].count = @ - 1]
    /\ starting' = IF Exists(t.app) THEN starting
                   ELSE starting \cup {[app |-> t.app, count |-> rec'[t.id].count, by |-> t.by,
                                        row |-> rec[t.id].row + 1]}
    /\ UNCHANGED <<map, filling, exits, notices, memory, killing, front, env>>

Load(S) == {[app |-> a, id |-> 0, by |-> "load"] : a \in S}

\* LoadResidentProcess.  Its loop over the bundles is one task for each here.
LoadResidentProcess(t) ==
    /\ t \in tasks /\ t.by = "load"
    /\ tasks' = tasks \ {t}
    /\ starting' = IF Exists(t.app) THEN starting
                   ELSE starting \cup {[app |-> t.app, count |-> -1, by |-> "load", row |-> 0]}
    /\ UNCHANGED <<rec, map, filling, exits, notices, waiting, memory, killing, front, env>>

\* StartEmptyResidentProcess: CreateAppRunningRecord and StartProcess.
StartEmptyResidentProcess(s) ==
    /\ s \in starting /\ Len(rec) < MaxStarts
    /\ starting' = starting \ {s}
    /\ rec' = Append(rec, Record(s.app, s.row))
    /\ map' = map \cup {Len(rec')}
    /\ filling' = filling \cup {[id |-> Len(rec'), count |-> s.count]}
    /\ UNCHANGED <<exits, queue, memory, killing, front, env>>

\* StartProcess fails: the record is removed again.
SpawnFails(s) ==
    /\ "spawn" \in env.faults
    /\ s \in starting
    /\ starting' = starting \ {s}
    /\ UNCHANGED <<rec, map, filling, exits, queue, memory, killing, front, env>>

\* The rest of StartEmptyResidentProcess.  A count of 0 or less is not handed
\* on: the new record keeps the 0 it was made with.
FillRecord(f) ==
    /\ f \in filling
    /\ filling' = filling \ {f}
    /\ rec' = [rec EXCEPT ![f.id].keepAlive = TRUE,
                          ![f.id].count = IF f.count > 0 THEN f.count ELSE @]
    /\ UNCHANGED <<map, starting, exits, queue, memory, killing, front, env>>

\* AbilityManagerService::NotifyStartResidentProcess: who is in front now.
NotifyStartResidentProcess(S) ==
    /\ S \in notices
    /\ notices' = notices \ {S}
    /\ tasks' = tasks \cup Load({a \in S : InFront(a)})
    /\ UNCHANGED <<rec, map, starting, filling, exits, waiting, memory, killing, front, env>>

---------------------------------------------------------------------------
(* Memory, as the memory manager reports it, and the screen.               *)

HandleMemorySizeInSufficent ==
    /\ ~low.now
    /\ low' = [low EXCEPT !.now = TRUE]
    /\ Spend("low")
    /\ UNCHANGED <<rec, map, starting, filling, exits, queue, big, web, screen, killing, front>>

\* Mutant: the list is cleared and not handed on.
HandleMemorySizeSufficient_Cleared ==
    /\ low.now
    /\ low' = [now |-> FALSE, list |-> {}]
    /\ notices' = notices \cup {{}}
    /\ UNCHANGED <<rec, map, starting, filling, exits, tasks, waiting, big, web, screen,
                   killing, front, env>>

HandleMemorySizeSufficient ==
    /\ low.now
    /\ low' = [now |-> FALSE, list |-> {}]
    /\ notices' = notices \cup {low.list}
    /\ UNCHANGED <<rec, map, starting, filling, exits, tasks, waiting, big, web, screen,
                   killing, front, env>>

\* REQUIRE_BIG_MEMORY subscribes to the screen first.
SubscribeScreenOffEvent ==
    /\ ~screen.require
    /\ screen' = [screen EXCEPT !.sub = TRUE, !.require = TRUE]
    /\ Spend("big")
    /\ UNCHANGED <<rec, map, starting, filling, exits, queue, low, big, web, killing, front>>

HandleRequireBigMemoryOptimization ==
    /\ screen.require
    /\ screen' = [screen EXCEPT !.require = FALSE]
    /\ big' = [big EXCEPT !.now = TRUE]
    /\ UNCHANGED <<rec, map, starting, filling, exits, queue, low, web, killing, front, env>>

\* HandleNoRequireBigMemoryOptimization.
ReleaseBig == IF big.now THEN /\ big' = [now |-> FALSE, list |-> {}]
                               /\ notices' = notices \cup {big.list}
              ELSE UNCHANGED <<big, notices>>

NoRequireBigMemory ==
    /\ big.now /\ ~screen.require
    /\ ReleaseBig
    /\ UNCHANGED <<rec, map, starting, filling, exits, tasks, waiting, low, web, screen,
                   killing, front, env>>

\* The screen goes off; the subscription ends in a task of its own.
OnScreenOff ==
    /\ screen.sub
    /\ ReleaseBig
    /\ screen' = [screen EXCEPT !.unsub = TRUE]
    /\ UNCHANGED <<rec, map, starting, filling, exits, tasks, waiting, low, web,
                   killing, front, env>>

UnSubscribeScreenOffEvent ==
    /\ screen.unsub
    /\ screen' = [screen EXCEPT !.sub = FALSE, !.unsub = FALSE]
    /\ UNCHANGED <<rec, map, starting, filling, exits, queue, low, big, web, killing, front, env>>

---------------------------------------------------------------------------
(* Upgrade of the web engine.                                              *)

\* KillProcessDependedOnWeb walks over a copy of the map.
KillProcessDependedOnWeb ==
    /\ killing = {}
    /\ killing' = {i \in map : rec[i].state = "ready" /\ App(i) \in WebApps}
    /\ Spend("web")
    /\ UNCHANGED <<rec, map, starting, filling, exits, queue, memory, front>>

KillNext(i) ==
    /\ i \in killing
    /\ killing' = killing \ {i}
    /\ web' = IF rec[i].keepAlive THEN web \cup {App(i)} ELSE web
    /\ rec' = [rec EXCEPT ![i].alive = FALSE]
    /\ UNCHANGED <<map, starting, filling, exits, queue, low, big, screen, front, env>>

RestartResidentProcessDependedOnWeb ==
    /\ web # {}
    /\ notices' = notices \cup {web}
    /\ web' = {}
    /\ UNCHANGED <<rec, map, starting, filling, exits, tasks, waiting, low, big, screen,
                   killing, front, env>>

---------------------------------------------------------------------------
(* Users.                                                                  *)

\* AbilityManagerService::StartUser: SetForegroundUserId comes first.
StartUser(u) ==
    /\ front.back = NoSwitch /\ u # front.user
    /\ front' = [user |-> u, back |-> front.user]
    /\ Spend("switch")
    /\ UNCHANGED <<rec, map, starting, filling, exits, queue, memory, killing>>

\* SwitchToUser: StartResidentApps for the new user.
SwitchToUser ==
    /\ front.back # NoSwitch
    /\ front' = [front EXCEPT !.back = NoSwitch]
    /\ tasks' = tasks \cup Load({a \in Apps : UserOf[a] = front.user})
    /\ UNCHANGED <<rec, map, starting, filling, exits, notices, waiting, memory, killing, env>>

\* SwitchToUser fails: the old user is in front again.
SwitchFails ==
    /\ "switch" \in env.faults
    /\ front.back # NoSwitch
    /\ front' = [user |-> front.back, back |-> NoSwitch]
    /\ UNCHANGED <<rec, map, starting, filling, exits, queue, memory, killing, env>>

---------------------------------------------------------------------------
Next == \/ \E i \in DOMAIN rec : Die(i)
        \/ \E i \in DOMAIN rec : AttachApplication(i)
        \/ \E i \in DOMAIN rec : LaunchApplication(i)
        \/ \E i \in DOMAIN rec : OnRemoteDied(i)
        \/ \E i \in DOMAIN rec : ApplicationTerminated(i)
        \/ \E e \in exits : RemoveAppRunningRecord(e)
        \/ \E e \in exits : CheckRestart(e)
        \/ \E e \in exits : RecordExitResidentBundleName(e)
        \/ \E e \in exits : RecordExitResidentBundleNameOnRequireBigMemory(e)
        \/ \E e \in exits : SubmitRestart(e)
        \/ \E t \in tasks : RestartResidentProcess(t)
        \/ \E t \in tasks : LoadResidentProcess(t)
        \/ \E s \in starting : StartEmptyResidentProcess(s)
        \/ \E s \in starting : SpawnFails(s)
        \/ \E f \in filling : FillRecord(f)
        \/ \E S \in notices : NotifyStartResidentProcess(S)
        \/ HandleMemorySizeInSufficent
        \/ HandleMemorySizeSufficient
        \/ SubscribeScreenOffEvent
        \/ HandleRequireBigMemoryOptimization
        \/ NoRequireBigMemory
        \/ OnScreenOff
        \/ UnSubscribeScreenOffEvent
        \/ KillProcessDependedOnWeb
        \/ \E i \in killing : KillNext(i)
        \/ RestartResidentProcessDependedOnWeb
        \/ \E u \in Users : StartUser(u)
        \/ SwitchToUser
        \/ SwitchFails

Spec == Init /\ [][Next]_vars

\* What the queue holds is run, a started thread goes on, a process that was
\* spawned attaches and the death of one that did is reported.  Nothing is
\* assumed of memory, screen, web upgrades, users and the processes' lives.
Fairness ==
    /\ WF_vars(\E i \in DOMAIN rec : AttachApplication(i))
    /\ WF_vars(\E i \in DOMAIN rec : LaunchApplication(i))
    /\ WF_vars(\E i \in DOMAIN rec : OnRemoteDied(i))
    /\ WF_vars(\E e \in exits : RemoveAppRunningRecord(e))
    /\ WF_vars(\E e \in exits : CheckRestart(e))
    /\ WF_vars(\E e \in exits : RecordExitResidentBundleName(e))
    /\ WF_vars(\E e \in exits : RecordExitResidentBundleNameOnRequireBigMemory(e))
    /\ WF_vars(\E e \in exits : SubmitRestart(e))
    /\ WF_vars(\E t \in tasks : RestartResidentProcess(t))
    /\ WF_vars(\E t \in tasks : LoadResidentProcess(t))
    /\ WF_vars(\E s \in starting : StartEmptyResidentProcess(s))
    /\ WF_vars(\E f \in filling : FillRecord(f))
    /\ WF_vars(\E S \in notices : NotifyStartResidentProcess(S))
    /\ WF_vars(\E i \in killing : KillNext(i))
    /\ WF_vars(SwitchToUser)

FairSpec == Spec /\ Fairness

---------------------------------------------------------------------------
RecordType == [app : Apps, state : {"created", "attached", "ready"}, alive : BOOLEAN,
               count : -2 .. MaxRestart, keepAlive : BOOLEAN, staged : BOOLEAN,
               row : 0 .. MaxStarts]

\* Type of the state: threads and tasks refer to records that were made, and a
\* record is restarted twice at most, for its death and for its termination.
TypeOK ==
    /\ Len(rec) <= MaxStarts /\ \A i \in DOMAIN rec : rec[i] \in RecordType
    /\ map \subseteq DOMAIN rec /\ killing \subseteq DOMAIN rec
    /\ starting \subseteq [app : Apps, count : Int, by : {"died", "ended", "load"}, row : Nat]
    /\ filling \subseteq [id : DOMAIN rec, count : Int]
    /\ exits \subseteq [id : DOMAIN rec, by : {"died", "ended"},
                        pc : {"remove", "web", "low", "big", "submit"}]
    /\ tasks \subseteq [app : Apps, id : 0 .. MaxStarts, by : {"died", "ended", "load"}]
    /\ notices \subseteq SUBSET Apps
    /\ waiting \subseteq Range(BundleOf)
    /\ low \in [now : BOOLEAN, list : SUBSET Apps]
    /\ big \in [now : BOOLEAN, list : SUBSET Apps]
    /\ web \subseteq Apps
    /\ screen \in [sub : BOOLEAN, unsub : BOOLEAN, require : BOOLEAN]
    /\ front \in [user : Users, back : Users \cup {NoSwitch}]
    /\ \E e \in Environments : /\ env.faults = e.faults
                               /\ \A k \in Kinds : env.left[k] \in 0 .. e.left[k]

\* Something will bring application a back, or waits for a condition that
\* holds to end.
Held(a) == \/ low.now /\ a \in low.list
           \/ big.now /\ a \in big.list
           \/ a \in web
Coming(a) == \/ \E e \in exits : App(e.id) = a
             \/ \E t \in tasks \cup starting : t.app = a
             \/ \E S \in notices : a \in S
             \/ front.back # NoSwitch /\ UserOf[a] = front.user

\* Another user has the same bundle.
Shared(a) == \E b \in Apps \ {a} : BundleOf[b] = BundleOf[a]

\* A resident process of user 0 or of the user in front is never forgotten:
\* it has a record, or a thread or task is about to restart it, or it is
\* listed for the end of a shortage that is still on, whatever exits, changes
\* of memory, web upgrades and user switches cross one another.  The exceptions
\* are a process that cannot be spawned, one that ends before the thread that
\* spawned it has marked its record, a switch that fails, and bundles of two
\* users, see the README.
Accounted ==
    env.faults \cap {"spawn", "early", "switch"} = {} =>
        \A a \in Apps : InFront(a) /\ ~Shared(a) => Exists(a) \/ Held(a) \/ Coming(a)

\* A list is empty unless its shortage is on: what is recorded is recorded
\* under the lock that ends the shortage, so nothing is listed too late to be
\* started by it.
NothingLeftListed == (~low.now => low.list = {}) /\ (~big.now => big.list = {})

\* Every resident process that is down is known to whoever has to bring it back,
\* and is known there no longer than that.
Consistent == TypeOK /\ NothingLeftListed /\ Accounted

\* Once memory, the web engine and the users come to rest, every resident
\* process that has to run does, and runs for good (the exits are bounded), but
\* for the faults, see the README.
Settled == /\ ~low.now /\ ~big.now /\ web = {} /\ killing = {} /\ front.back = NoSwitch
Running(a) == \E i \in map : App(i) = a /\ rec[i].state = "ready" /\ rec[i].alive
ComesBack ==
    /\ env.faults = {}
    /\ <>[]Settled
    => <>[](\A a \in Apps : InFront(a) /\ ~Shared(a) => Running(a))
---------------------------------------------------------------------------
(* What the comments of the code say of resident processes and the code    *)
(* does not keep, see the README.                                          *)

\* At most one record in the map for a resident process: StartResidentProcess
\* looks for one before it makes another.
OneProcess == \A i, j \in map : App(i) = App(j) => i = j

\* A process that does not get as far as its launch is restarted at once
\* MAX_RESTART_COUNT times at most after the first; then only after
\* RESTART_INTERVAL_TIME.
Throttled == \A i \in DOMAIN rec : rec[i].row <= MaxRestart + 1

\* The empty resident process gets its ability stage when it is launched.
EmptyStaged == \A i \in DOMAIN rec : rec[i].state = "ready" => rec[i].staged

\* While big memory is required the end of it is noticed when the screen goes
\* off.
ScreenOffWatched == big.now => screen.sub
===============================================================================
