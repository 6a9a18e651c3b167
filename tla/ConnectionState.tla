--------------------------- MODULE ConnectionState ----------------------------
(***************************************************************************)
(* ConnectionStateManager, ConnectionStateItem and                         *)
(* ConnectionObserverController (services/abilitymgr/src): what system     *)
(* observers are told of who is connected to which extension or data       *)
(* ability.                                                                *)
(*                                                                         *)
(* The tables change under stateLock_; the observers are called after it   *)
(* is released, by the thread that made the change.  AbilityConnectManager *)
(* calls in under its serialMutex_, the application manager's observer on  *)
(* a thread of its own.  DataAbilityManager calls in with its mutex_ held, *)
(* but for an Acquire that waited, which has lost it and unlocks it a      *)
(* second time as it returns, whoever holds it then (see DataAbility).     *)
(***************************************************************************)
EXTENDS Naturals, Sequences, FiniteSets, SequencesExt

CONSTANTS Pids,        \* caller processes
          Mortal,      \* those that may die
          Conns,       \* connections (callback and service)
          Callers,     \* clients of data abilities (a token, or a native process)
          Services,    \* tokens of extensions
          Datas,       \* tokens of data abilities
          PidOf,       \* process of a connection or data ability client
          TargetOf,    \* service of a connection
          Suspendable, \* connections SuspendExtensionAbility is called for
          Repeated,    \* clients that acquire a data ability more than once
          MaxAcquire,  \* bound on what those hold of a data ability
          Environments, \* the connections and clients of a behaviour
          Native       \* processes the application manager does not know

Targets == Services \cup Datas

\* Those of AbilityConnectManager, the application manager's observer, OnAbilityDied
\* and the death recipients, and one for each client's calls.
Threads == {"serial", "app", "task", "obituary"} \cup Callers
Inside  == {"task"} \cup Callers

ASSUME StateAssumption == /\ Mortal \subseteq Pids
                          /\ PidOf \in [Conns \cup Callers -> Pids]
                          /\ TargetOf \in [Conns -> Services]
                          /\ Suspendable \subseteq Conns /\ Repeated \subseteq Callers
                          /\ Services \cap Datas = {} /\ Pids \cap Datas = {}
                          /\ Callers \cap {"serial", "app", "task", "obituary", "free"} = {}
                          /\ Native \subseteq Pids
                          /\ Environments \subseteq SUBSET (Conns \cup Callers)

ASSUME BoundAssumption == /\ MaxAcquire \in Nat \ {0}
                          /\ IsFiniteSet(Pids) /\ IsFiniteSet(Conns) /\ IsFiniteSet(Targets)

VARIABLES env,      \* fixed from the start: the connections and clients there are
          items,    \* connectionStates_: the processes that have an item
          conns,    \* connections_ of all ConnectedExtensions: "out", "in" or "suspended"
          callers,  \* callers_ of all ConnectedDataAbilities: <<caller, data ability>>
          mutex,    \* DataAbilityManager's mutex_: who holds it, or "free"
          call,     \* what the threads inside DataAbilityManager do
          active,   \* data abilities that were loaded
          watched,  \* clients with a death recipient of a data ability's record
          obits,    \* death recipients' calls on the way
          pending,  \* calls a thread still has to make to the observers
          view,     \* what an observer was told last of a process and a target
          live,     \* the connections themselves: "none", "requested", "connected", "suspended"
          held,     \* how often each client holds each data ability that lives
          dead,     \* processes and data abilities that died
          reports,  \* deaths the application manager has still to report
          adrift    \* pairs reported after the client or the provider died, or by
                    \* two threads at a time (history)

tables == <<items, conns, callers>>
locks  == <<env, mutex, call, active, watched, obits>>
truth  == <<live, held, dead, reports, adrift>>
vars   == <<tables, locks, pending, view, truth>>

Idle == [pc |-> "idle", data |-> "none"]

Init == /\ env \in Environments
        /\ items = {}
        /\ conns = [c \in Conns |-> "out"]
        /\ callers = {}
        /\ mutex = "free"
        /\ call = [t \in Inside |-> Idle]
        /\ active = {} /\ watched = {} /\ obits = {}
        /\ pending = [t \in Threads |-> <<>>]
        /\ view = [p \in Pids |-> [s \in Targets |-> "absent"]]
        /\ live = [c \in Conns |-> "none"]
        /\ held = [k \in Callers |-> [d \in Datas |-> 0]]
        /\ dead = {}
        /\ reports = {}
        /\ adrift = {}

\* The connections of a process to a service, and those of them not suspended.
Of(p, s)        == {c \in Conns : PidOf[c] = p /\ TargetOf[c] = s}
Known(f, p, s)  == {c \in Of(p, s) : f[c] # "out"}
Active(f, p, s) == {c \in Of(p, s) : f[c] = "in"}

\* dataAbilityMap_ of a process: its clients of d.
Clients(g, p, d) == {k \in Callers : PidOf[k] = p /\ <<k, d>> \in g}

\* ConnectionStateItem::IsEmpty.
IsEmpty(f, g, p) == /\ \A s \in Services : Known(f, p, s) = {}
                    /\ \A d \in Datas : Clients(g, p, d) = {}

Call(event, p, s) == [event |-> event, pid |-> p, target |-> s]

\* How often a client may hold a data ability.
Most(k) == IF k \in Repeated THEN MaxAcquire ELSE 1

Free(t) == pending[t] = <<>>
Tell(t, calls) == pending' = [pending EXCEPT ![t] = calls]

\* Another thread than t has still to call the observers about p and s.
OthersTell(t, p, s) ==
    \E u \in Threads \ {t} : \E i \in 1 .. Len(pending[u]) :
        pending[u][i].pid = p /\ pending[u][i].target = s
-------------------------------------------------------------------------------
(* AbilityConnectManager, under serialMutex_.                              *)

RequestConnect(c) ==
    /\ c \in env /\ live[c] = "none"
    /\ {PidOf[c], TargetOf[c]} \cap dead = {}
    /\ live' = [live EXCEPT ![c] = "requested"]
    /\ UNCHANGED <<tables, pending, view, held, dead, reports, adrift, locks>>

\* CompleteConnect and AddConnection: CONNECTED for the first connection,
\* RESUMED if all the others are suspended.
AddConnection(c) ==
    LET p == PidOf[c]
        s == TargetOf[c]
    IN  /\ Free("serial")
        /\ live[c] = "requested"
        /\ live' = [live EXCEPT ![c] = "connected"]
        /\ items' = items \cup {p}
        /\ conns' = [conns EXCEPT ![c] = "in"]
        /\ Tell("serial", CASE Known(conns, p, s) = {}  -> <<Call("Connected", p, s)>>
                            [] Active(conns, p, s) = {} /\ Known(conns, p, s) # {}
                                                        -> <<Call("Resumed", p, s)>>
                            [] OTHER                    -> <<>>)
        /\ UNCHANGED <<callers, view, held, dead, reports, adrift, locks>>

\* Mutant: a suspended connection is left in the table.
RemoveConnection_Suspended(c) ==
    LET p    == PidOf[c]
        s    == TargetOf[c]
        rest == Known(conns, p, s) \ {c}
    IN  /\ Free("serial")
        /\ live[c] # "none" /\ PidOf[c] \notin dead
        /\ live' = [live EXCEPT ![c] = "none"]
        /\ IF conns[c] \in {"out", "suspended"}
              THEN UNCHANGED <<tables, pending>>
              ELSE /\ conns' = [conns EXCEPT ![c] = "out"]
                   /\ items' = IF rest = {} /\ IsEmpty(conns', callers, p)
                                  THEN items \ {p} ELSE items
                   /\ Tell("serial", IF rest = {} THEN <<Call("Disconnected", p, s)>> ELSE <<>>)
                   /\ UNCHANGED callers
        /\ UNCHANGED <<view, held, dead, reports, adrift, locks>>

\* CompleteDisconnect and RemoveConnection of a caller that lives.  When there is
\* something to tell, the ConnectedExtension leaves connectionMap_: also when it
\* is only that the connections that remain are all suspended.
RemoveConnection(c) ==
    LET p      == PidOf[c]
        s      == TargetOf[c]
        rest   == Known(conns, p, s) \ {c}
        paused == rest # {} /\ conns[c] = "in" /\ Active(conns, p, s) = {c}
    IN  /\ Free("serial")
        /\ live[c] # "none" /\ PidOf[c] \notin dead
        /\ live' = [live EXCEPT ![c] = "none"]
        /\ IF conns[c] = "out"
              THEN UNCHANGED <<tables, pending>>
              ELSE /\ conns' = [e \in Conns |->
                                   IF e = c \/ (paused /\ e \in rest) THEN "out" ELSE conns[e]]
                   /\ items' = IF (rest = {} \/ paused) /\ IsEmpty(conns', callers, p)
                                  THEN items \ {p} ELSE items
                   /\ Tell("serial", CASE rest = {} -> <<Call("Disconnected", p, s)>>
                                       [] paused    -> <<Call("Suspended", p, s)>>
                                       [] OTHER     -> <<>>)
                   /\ UNCHANGED callers
        /\ UNCHANGED <<view, held, dead, reports, adrift, locks>>

\* SuspendExtensionAbility of an established connection: SUSPENDED with the
\* last one.
SuspendConnection(c) ==
    LET p == PidOf[c]
        s == TargetOf[c]
    IN  /\ Free("serial")
        /\ c \in Suspendable
        /\ live[c] = "connected" /\ PidOf[c] \notin dead
        /\ live' = [live EXCEPT ![c] = "suspended"]
        /\ IF conns[c] = "in"
              THEN /\ conns' = [conns EXCEPT ![c] = "suspended"]
                   /\ Tell("serial", IF Active(conns', p, s) = {}
                                        THEN <<Call("Suspended", p, s)>> ELSE <<>>)
              ELSE UNCHANGED <<conns, pending>>
        /\ UNCHANGED <<items, callers, view, held, dead, reports, adrift, locks>>

\* Mutant: RESUMED only if the connection was the last one suspended.
ResumeConnection_Late(c) ==
    LET p == PidOf[c]
        s == TargetOf[c]
    IN  /\ Free("serial")
        /\ live[c] = "suspended" /\ PidOf[c] \notin dead
        /\ live' = [live EXCEPT ![c] = "connected"]
        /\ IF conns[c] # "out"
              THEN /\ conns' = [conns EXCEPT ![c] = "in"]
                   /\ Tell("serial", IF Active(conns', p, s) = {}
                                        THEN <<Call("Resumed", p, s)>> ELSE <<>>)
              ELSE UNCHANGED <<conns, pending>>
        /\ UNCHANGED <<items, callers, view, held, dead, reports, adrift, locks>>

ResumeConnection(c) ==
    LET p == PidOf[c]
        s == TargetOf[c]
    IN  /\ Free("serial")
        /\ live[c] = "suspended" /\ PidOf[c] \notin dead
        /\ live' = [live EXCEPT ![c] = "connected"]
        /\ IF conns[c] # "out"
              THEN /\ conns' = [conns EXCEPT ![c] = "in"]
                   /\ Tell("serial", IF Active(conns, p, s) = {}
                                        THEN <<Call("Resumed", p, s)>> ELSE <<>>)
              ELSE UNCHANGED <<conns, pending>>
        /\ UNCHANGED <<items, callers, view, held, dead, reports, adrift, locks>>
-------------------------------------------------------------------------------
(* DataAbilityManager.                                                     *)

\* Acquire looks the data ability up: it is loaded, or the client waits for it, and
\* the wait gives mutex_ up.
Acquire(k, d) ==
    /\ mutex = "free" /\ call[k].pc = "idle"
    /\ k \in env
    /\ {PidOf[k], d} \cap dead = {}
    /\ held[k][d] < Most(k)
    /\ IF d \in active
          THEN mutex' = k /\ call' = [call EXCEPT ![k] = [pc |-> "found", data |-> d]]
          ELSE call' = [call EXCEPT ![k] = [pc |-> "wait", data |-> d]] /\ UNCHANGED mutex
    /\ UNCHANGED <<tables, env, active, watched, obits, pending, view, truth>>

\* AbilityTransitionDone of a data ability somebody waits for.
TransitionDone(d) ==
    /\ mutex = "free"
    /\ d \notin active
    /\ \E k \in Callers : call[k] = [pc |-> "wait", data |-> d]
    /\ active' = active \cup {d}
    /\ UNCHANGED <<tables, env, mutex, call, watched, obits, pending, view, truth>>

\* The wait ends, by load or timeout; from here on mutex_ is not held.
WaitForLoaded(k) ==
    /\ mutex = "free" /\ call[k].pc = "wait"
    /\ call' = [call EXCEPT ![k].pc = IF call[k].data \in active THEN "found" ELSE "return"]
    /\ UNCHANGED <<tables, env, mutex, active, watched, obits, pending, view, truth>>

\* AddClient: a client that is dead by now gets no death recipient.
AddClient(k) ==
    /\ call[k].pc = "found"
    /\ call' = [call EXCEPT ![k].pc = "granted"]
    /\ watched' = IF PidOf[k] \in dead THEN watched ELSE watched \cup {<<k, call[k].data>>}
    /\ UNCHANGED <<tables, env, mutex, active, obits, pending, view, truth>>

\* ReportDataAbilityAcquired and AddCaller: a client is listed once, however often
\* it acquires, and whether or not it and the provider still live.
AddDataAbilityConnection(k) ==
    LET p == PidOf[k]
        d == call[k].data
    IN  /\ Free(k) /\ call[k].pc = "granted"
        /\ call' = [call EXCEPT ![k].pc = "return"]
        /\ held' = IF d \in dead THEN held ELSE [held EXCEPT ![k][d] = @ + 1]
        /\ items' = items \cup {p}
        /\ callers' = callers \cup {<<k, d>>}
        /\ Tell(k, IF Clients(callers, p, d) = {} THEN <<Call("Connected", p, d)>> ELSE <<>>)
        /\ adrift' = IF \/ {p, d} \cap dead # {}
                        \/ Clients(callers, p, d) = {} /\ OthersTell(k, p, d)
                        THEN adrift \cup {<<p, d>>} ELSE adrift
        /\ UNCHANGED <<conns, env, mutex, active, watched, obits, view, live, dead, reports>>

\* Release, ReportDataAbilityReleased and RemoveCaller: the client leaves the list
\* with its first release.
RemoveDataAbilityConnection(k, d) ==
    LET p == PidOf[k]
    IN  /\ Free(k) /\ mutex = "free" /\ call[k].pc = "idle"
        /\ {p, d} \cap dead = {}
        /\ held[k][d] > 0
        /\ mutex' = k
        /\ call' = [call EXCEPT ![k] = [pc |-> "return", data |-> d]]
        /\ held' = [held EXCEPT ![k][d] = @ - 1]
        /\ IF Clients(callers, p, d) = {}
              THEN UNCHANGED <<tables, pending, adrift>>
              ELSE /\ callers' = callers \ {<<k, d>>}
                   /\ items' = IF Clients(callers', p, d) = {} /\ IsEmpty(conns, callers', p)
                                  THEN items \ {p} ELSE items
                   /\ Tell(k, IF Clients(callers', p, d) = {}
                                 THEN <<Call("Disconnected", p, d)>> ELSE <<>>)
                   /\ adrift' = IF Clients(callers', p, d) = {} /\ OthersTell(k, p, d)
                                   THEN adrift \cup {<<p, d>>} ELSE adrift
                   /\ UNCHANGED conns
        /\ UNCHANGED <<env, active, watched, obits, view, live, dead, reports>>

\* OnAbilityDied of a provider that is loaded: every process that was connected is
\* told of.
HandleDataAbilityDied(d) ==
    LET who == {p \in Pids : Clients(callers, p, d) # {}}
    IN  /\ Free("task") /\ mutex = "free" /\ call["task"].pc = "idle"
        /\ d \in active \ dead
        /\ mutex' = "task"
        /\ call' = [call EXCEPT !["task"] = [pc |-> "return", data |-> d]]
        /\ dead' = dead \cup {d}
        /\ held' = [k \in Callers |-> [held[k] EXCEPT ![d] = 0]]
        /\ callers' = {x \in callers : x[2] # d}
        /\ items' = {p \in items : ~IsEmpty(conns, callers', p)}
        /\ Tell("task", SetToSeq({Call("Disconnected", p, d) : p \in who}))
        /\ adrift' = adrift \cup {<<p, d>> : p \in {q \in who : OthersTell("task", q, d)}}
        /\ UNCHANGED <<conns, env, active, watched, obits, view, live, reports>>

\* The thread has made its calls and returns: its lock_guard unlocks mutex_, whoever
\* holds it.
Return(t) ==
    /\ call[t].pc = "return" /\ Free(t)
    /\ call' = [call EXCEPT ![t] = Idle]
    /\ mutex' = "free"
    /\ UNCHANGED <<tables, env, active, watched, obits, pending, view, truth>>
-------------------------------------------------------------------------------
(* A caller's process dies.                                                *)

\* HandleCallerDied: the whole item goes, and a DISCONNECTED for each of its
\* extensions and data abilities.
HandleCallerDied(t, p) ==
    /\ items' = items \ {p}
    /\ conns' = [c \in Conns |-> IF PidOf[c] = p THEN "out" ELSE conns[c]]
    /\ callers' = {x \in callers : PidOf[x[1]] # p}
    /\ Tell(t, SetToSeq({Call("Disconnected", p, s) :
                            s \in {u \in Services : Known(conns, p, u) # {}}
                                  \cup {d \in Datas : Clients(callers, p, d) # {}}}))

ProcessDies(p) ==
    /\ p \in Mortal \ dead
    /\ dead' = dead \cup {p}
    /\ reports' = IF p \in Native THEN reports ELSE reports \cup {p}
    /\ obits' = obits \cup {x \in watched : PidOf[x[1]] = p}
    /\ UNCHANGED <<tables, env, mutex, call, active, watched, pending, view, live, held, adrift>>

\* The application manager's observer (InnerAppStateObserver).
HandleAppDied(p) ==
    /\ Free("app")
    /\ p \in reports
    /\ reports' = reports \ {p}
    /\ HandleCallerDied("app", p)
    /\ UNCHANGED <<locks, view, live, held, dead, adrift>>

\* OnCallBackDied: CompleteDisconnect with isCallerDied, for one connection.
CallBackDied(c) ==
    /\ Free("serial")
    /\ PidOf[c] \in dead
    /\ live[c] # "none"
    /\ live' = [live EXCEPT ![c] = "none"]
    /\ HandleCallerDied("serial", PidOf[c])
    /\ UNCHANGED <<locks, view, held, dead, reports, adrift>>

\* OnSchedulerDied of a client's death recipient, without mutex_: the process of a
\* client that is in clients_ is reported, and the client leaves clients_.
DataClientDied(k, d) ==
    /\ Free("obituary")
    /\ <<k, d>> \in obits
    /\ obits' = obits \ {<<k, d>>}
    /\ IF held[k][d] > 0 \/ call[k] = [pc |-> "granted", data |-> d]
          THEN HandleCallerDied("obituary", PidOf[k]) /\ held' = [held EXCEPT ![k][d] = 0]
          ELSE UNCHANGED <<tables, pending, held>>
    /\ UNCHANGED <<env, mutex, call, active, watched, view, live, dead, reports, adrift>>
-------------------------------------------------------------------------------
\* CallObservers: the thread makes its next call to the observers.
CallObservers(t) ==
    LET told == Head(pending[t])
    IN  /\ pending[t] # <<>>
        /\ pending' = [pending EXCEPT ![t] = Tail(@)]
        /\ view' = [view EXCEPT ![told.pid][told.target] =
                       CASE told.event = "Disconnected" -> "absent"
                         [] told.event = "Suspended"    -> "suspended"
                         [] OTHER                       -> "connected"]
        /\ UNCHANGED <<tables, locks, truth>>

Next == \/ \E c \in Conns : RequestConnect(c)
        \/ \E c \in Conns : AddConnection(c)
        \/ \E c \in Conns : RemoveConnection(c)
        \/ \E c \in Conns : SuspendConnection(c)
        \/ \E c \in Conns : ResumeConnection(c)
        \/ \E k \in Callers, d \in Datas : Acquire(k, d)
        \/ \E d \in Datas : TransitionDone(d)
        \/ \E k \in Callers : WaitForLoaded(k)
        \/ \E k \in Callers : AddClient(k)
        \/ \E k \in Callers : AddDataAbilityConnection(k)
        \/ \E k \in Callers, d \in Datas : RemoveDataAbilityConnection(k, d)
        \/ \E d \in Datas : HandleDataAbilityDied(d)
        \/ \E t \in Inside : Return(t)
        \/ \E p \in Pids : ProcessDies(p)
        \/ \E p \in Pids : HandleAppDied(p)
        \/ \E c \in Conns : CallBackDied(c)
        \/ \E k \in Callers, d \in Datas : DataClientDied(k, d)
        \/ \E t \in Threads : CallObservers(t)

Spec == Init /\ [][Next]_vars
-------------------------------------------------------------------------------
TypeOK ==
    /\ env \in Environments
    /\ items \subseteq Pids
    /\ conns \in [Conns -> {"out", "in", "suspended"}]
    /\ callers \subseteq Callers \X Datas
    /\ mutex \in Inside \cup {"free"}
    /\ call \in [Inside -> [pc : {"idle", "wait", "found", "granted", "return"},
                             data : Datas \cup {"none"}]]
    /\ active \subseteq Datas
    /\ watched \subseteq Callers \X Datas /\ obits \subseteq Callers \X Datas
    /\ \A t \in Threads : \A i \in 1 .. Len(pending[t]) :
          pending[t][i] \in [event : {"Connected", "Disconnected", "Suspended", "Resumed"},
                             pid : Pids, target : Targets]
    /\ view \in [Pids -> [Targets -> {"absent", "connected", "suspended"}]]
    /\ live \in [Conns -> {"none", "requested", "connected", "suspended"}]
    /\ held \in [Callers -> [Datas -> 0 .. MaxAcquire]]
    /\ dead \subseteq Pids \cup Datas /\ reports \subseteq Mortal
    /\ adrift \subseteq Pids \X Datas

\* A process has an item exactly while something is in it: every path that
\* empties the two maps also erases the item, so none is left behind.
NoEmptyItem == \A p \in Pids : p \in items <=> ~IsEmpty(conns, callers, p)

\* The tables never list a connection that is over, nor call one suspended that
\* is not: a connection that ended, was resumed or lost its caller has left.  A
\* data ability is listed while it is held and the provider lives, and of a dead
\* process only until one of the two reports of its death is handled.  What was
\* over when it was reported is listed all the same, see the README.
NothingStale ==
    /\ \A c \in Conns : conns[c] = "in" => live[c] = "connected"
    /\ \A c \in Conns : conns[c] = "suspended" => live[c] = "suspended"
    /\ \A k \in Callers, d \in Datas : <<k, d>> \in callers /\ <<PidOf[k], d>> \notin adrift =>
          /\ held[k][d] > 0 /\ d \notin dead
          /\ PidOf[k] \in dead => PidOf[k] \in reports \/ <<k, d>> \in obits

\* The tables are what the reports of all these threads amount to: no empty item,
\* and nothing that is over.
Consistent == TypeOK /\ NoEmptyItem /\ NothingStale

Quiet == \A t \in Threads : Free(t)

\* What is really so between process p and target s.
State(p, s) ==
    LET on == {c \in Of(p, s) : live[c] \in {"connected", "suspended"}}
    IN  CASE \/ \E c \in on : live[c] = "connected"
             \/ \E k \in Callers : PidOf[k] = p /\ s \in Datas /\ held[k][s] > 0 -> "connected"
          [] on # {} /\ \A c \in on : live[c] = "suspended"                     -> "suspended"
          [] OTHER                                                              -> "absent"

\* Several connections of a process to a service one of which is suspended, and
\* a client that acquires a data ability repeatedly, are told of differently:
\* see the README.
Exempt(p, s) == \/ Cardinality(Of(p, s)) > 1 /\ Of(p, s) \cap Suspendable # {}
                \/ s \in Datas /\ \E k \in Repeated : PidOf[k] = p

\* iconnection_observer.h ("called when extension was connected", "disconnected",
\* "suspended", "resumed"): when no call is on the way, an observer that keeps
\* what it was told last knows of every living process what is so, but for the
\* exempt pairs and those two threads without mutex_ reported at a time.
ObserverKnows ==
    Quiet => \A p \in Pids \ dead, s \in Targets :
        Exempt(p, s) \/ <<p, s>> \in adrift \/ view[p][s] = State(p, s)
===============================================================================
