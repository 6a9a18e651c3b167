---------------------------- MODULE AbilityConnect ----------------------------
(***************************************************************************)
(* AbilityConnectManager (services/abilitymgr/src): service extensions,    *)
(* the clients that start and connect them, and the connections between    *)
(* them.  A handler that holds serialMutex_ is one action.  The handlers   *)
(* that look at shared state before they take the lock are two actions,    *)
(* and so is every task that is posted and run later; timers may fire      *)
(* whenever they are armed; the service answers what it was sent, in any   *)
(* order (onConnect and onDisconnect may be asynchronous), or never.       *)
(*                                                                         *)
(* Modelled for extensions of type SERVICE, which share one connection to  *)
(* the extension among all clients and are not cached.  Records and        *)
(* connections are numbered as they are created and every list of the code *)
(* is appended to, so a list is a set here and its first element the       *)
(* smallest.                                                               *)
(***************************************************************************)
EXTENDS Integers, FiniteSets

CONSTANTS Keys,       \* service keys: what serviceMap_ is indexed by
          KeepAlive,  \* the keys of resident services
          Callbacks,  \* IAbilityConnection objects of clients
          Pids,       \* processes of clients
          CallerPid,  \* the process of each callback
          None,       \* no key, no callback
          MaxRecords, MaxConns, MaxStart, \* bounds of the model
          Faults      \* the events of the environment that may happen

ASSUME KeyAssumption == KeepAlive \subseteq Keys /\ None \notin Keys \cup Callbacks
ASSUME CallerAssumption == CallerPid \in [Callbacks -> Pids]
ASSUME BoundAssumption == {MaxRecords, MaxConns, MaxStart} \subseteq Nat
ASSUME FaultAssumption == Faults \subseteq {"clientDies",  \* the process of a client dies
                                           "lateConnect", \* its last call is handled after that
                                           "reportFails", \* a connect cannot be reported to the scheduler
                                           "refuse",      \* a client cannot be told it is connected
                                           "null",        \* onConnect returns no remote object
                                           "serviceDies", \* the process of a service dies
                                           "loadFails",   \* AppMgr cannot start the process
                                           "stop",        \* a service is stopped or stops itself
                                           "freeze"}      \* an idle service's process is frozen

Recs == 1..MaxRecords
Conns == 1..MaxConns
NoRec == 0

VARIABLES
    serviceMap,   \* serviceMap_: the record in service under each key
    terminating,  \* terminatingExtensionList_
    ability,      \* the BaseExtensionRecord of each id, its timers and tasks
    conn,         \* the ConnectionRecord of each id, its timers and tasks
    connList,     \* connRecordList_ of each extension record
    connectMap,   \* connectMap_: the connections of each callback
    recipients,   \* the keys of recipientMap_
    pidCount,     \* callerPidConnectionCountMap_
    client,       \* each callback is alive, dying (HandleCallBackDiedTask queued) or dead
    reqs,         \* startServiceReqList_: start requests waiting for a key
    restartTasks, \* restartResidentTaskList_
    cleaning,     \* the list that a CleanActivatingTimeoutAbilityInner of the record
                  \* copied before it waits for serialMutex_
    raced         \* history: records torn down although a client was registered

books == <<connList, connectMap, recipients, pidCount>>
vars == <<serviceMap, terminating, ability, conn, books, client, reqs,
          restartTasks, cleaning, raced>>
-------------------------------------------------------------------------------
(* Extension records.                                                      *)

Msgs == {"inactive", "connect", "command", "disconnect", "terminate"}
NoMsgs == [m \in Msgs |-> 0]

\* No such call is waiting.
NoCopy == Conns \cup {0}

Unborn == [key |-> None, state |-> "none", byConnect |-> FALSE, startId |-> 0,
           proc |-> "none", isConnected |-> FALSE, told |-> FALSE, remote |-> FALSE,
           todo |-> NoMsgs, timers |-> {}, tasks |-> {}, cmdTimers |-> {}]

Used == {r \in Recs : ability[r].state # "none"}
NextRec == Cardinality(Used) + 1

\* Mutant: no load timeout is posted.
Loading_Unwatched(k, byConnect) ==
    [Unborn EXCEPT !.key = k, !.state = "INITIAL", !.byConnect = byConnect, !.proc = "loading"]

\* A record created for a start or connect request and handed to AppScheduler.
Loading(k, byConnect) ==
    [Unborn EXCEPT !.key = k, !.state = "INITIAL", !.byConnect = byConnect,
                   !.proc = "loading", !.timers = {"load"}]

\* A call through LifecycleDeal reaches the service while it has a scheduler.
Sent(a, m, n) == IF a.proc = "up" THEN [a EXCEPT !.todo[m] = @ + n] ELSE a

ConnectSent(a) ==
    [Sent(a, "connect", 1) EXCEPT !.isConnected = TRUE, !.told = TRUE]
DisconnectSent(a) ==
    [Sent(a, "disconnect", 1) EXCEPT !.isConnected = FALSE, !.told = FALSE]
CommandSent(a, n) ==
    LET ids == (a.startId + 1)..(a.startId + n)
    IN  Sent([a EXCEPT !.startId = @ + n, !.cmdTimers = @ \cup ids], "command", n)

\* A record leaves serviceMap_.  What the service still answers is refused from
\* here on, the timers of its start find no record, and nobody looks at the
\* rest again; a late command timeout still restarts a resident service.
Forgotten(a) ==
    [a EXCEPT !.byConnect = FALSE, !.startId = 0, !.isConnected = FALSE, !.told = FALSE,
              !.remote = FALSE, !.todo = NoMsgs, !.timers = {},
              !.cmdTimers = IF a.key \in KeepAlive THEN @ ELSE {}]

\* Mutant: the service is asked to terminate and nobody watches whether it does.
TerminateSent_Unwatched(a) ==
    Sent([Forgotten(a) EXCEPT !.state = "TERMINATING"], "terminate", 1)

TerminateSent(a) ==
    Sent([Forgotten(a) EXCEPT !.state = "TERMINATING", !.timers = {"terminate"}], "terminate", 1)

\* The process goes away; a scheduler that is still watched is reported.
Killed(a) ==
    IF a.proc = "up"
       THEN [a EXCEPT !.proc = "dead", !.todo = NoMsgs, !.tasks = @ \cup {"schedulerDied"}]
       ELSE [a EXCEPT !.proc = "dead"]

InService(r) == \E k \in Keys : serviceMap[k] = r

\* Mutant: the record stays in serviceMap_.
Erased_Kept(T) == serviceMap

Erased(T) == [k \in Keys |-> IF serviceMap[k] \in T THEN NoRec ELSE serviceMap[k]]
-------------------------------------------------------------------------------
(* Connection records, and the four places that know of a connection.      *)

Unused == [cb |-> None, svc |-> NoRec, state |-> "INIT", tasks |-> {}]
NextConn == Cardinality({c \in Conns : conn[c].state # "INIT"}) + 1
First(S) == CHOOSE c \in S : \A d \in S : c <= d

InState(S, st) == {c \in S : conn[c].state = st}

\* The tasks of a connection that nobody holds any more hold it weakly and do
\* nothing, but its CONNECT_TIMEOUT names the service and the task posted for a
\* null remote object holds the service.
Dropped(x) == [x EXCEPT !.state = "DISCONNECTED", !.tasks = @ \cap {"connect", "running", "null"}]

\* Mutant: nobody looks whether the callback could be called.
MayRefuse_Ignored(cb) == {FALSE}

\* OnAbilityConnectDone fails: always for a callback that is gone.
MayRefuse(cb) == IF client[cb] # "alive" THEN {TRUE}
                 ELSE IF "refuse" \in Faults THEN BOOLEAN ELSE {FALSE}

\* CompleteConnect, for a callback that will or will not take the news.
Completed(x, remote, fails) ==
    [x EXCEPT !.state = IF remote THEN "CONNECTED" ELSE "DISCONNECTING",
              !.tasks = (@ \ {"connect"}) \cup (IF ~ remote THEN {"null"}
                                                ELSE IF fails THEN {"fail"} ELSE {})]

\* Mutant: the connection stays in the callback's list.
Remove_KeepsInMap(S) ==
    /\ connList' = [r \in Recs |-> connList[r] \ S]
    /\ pidCount' = [p \in Pids |-> pidCount[p] - Cardinality({c \in S : CallerPid[conn[c].cb] = p})]
    /\ UNCHANGED <<connectMap, recipients>>

\* Mutant: the connection is counted out for both lists it leaves.
Remove_CountedTwice(S) ==
    /\ connList' = [r \in Recs |-> connList[r] \ S]
    /\ connectMap' = [cb \in Callbacks |-> connectMap[cb] \ S]
    /\ recipients' = recipients \ {cb \in Callbacks : connectMap[cb] # {} /\ connectMap[cb] \subseteq S}
    /\ pidCount' = [p \in Pids |-> pidCount[p] - 2 * Cardinality({c \in S : CallerPid[conn[c].cb] = p})]

\* Mutant: the connection is unregistered without counting it.
Remove_Uncounted(S) ==
    /\ connList' = [r \in Recs |-> connList[r] \ S]
    /\ connectMap' = [cb \in Callbacks |-> connectMap[cb] \ S]
    /\ recipients' = recipients \ {cb \in Callbacks : connectMap[cb] # {} /\ connectMap[cb] \subseteq S}
    /\ UNCHANGED pidCount

\* Mutant: the death recipient outlives the callback's last connection.
Remove_KeepsRecipient(S) ==
    /\ connList' = [r \in Recs |-> connList[r] \ S]
    /\ connectMap' = [cb \in Callbacks |-> connectMap[cb] \ S]
    /\ pidCount' = [p \in Pids |->
                       pidCount[p] - Cardinality({c \in S : /\ CallerPid[conn[c].cb] = p
                                                            /\ c \in connectMap[conn[c].cb]})]
    /\ UNCHANGED recipients

\* RemoveConnectRecordFromList and RemoveConnectionRecordFromMap for the
\* connections in S.
Remove(S) ==
    /\ connList' = [r \in Recs |-> connList[r] \ S]
    /\ connectMap' = [cb \in Callbacks |-> connectMap[cb] \ S]
    /\ recipients' = recipients \ {cb \in Callbacks : connectMap[cb] # {} /\ connectMap[cb] \subseteq S}
    /\ pidCount' = [p \in Pids |->
                       pidCount[p] - Cardinality({c \in S : /\ CallerPid[conn[c].cb] = p
                                                            /\ c \in connectMap[conn[c].cb]})]

\* RemoveConnectRecordFromList clears isConnected with the last connection.
Emptied(r, S) == connList[r] \cap S # {} /\ connList[r] \subseteq S
Unlinked(a, r, S) == IF Emptied(r, S) THEN [a EXCEPT !.isConnected = FALSE] ELSE a

\* Mutant: only connections that are CONNECTED end with their service.
DropConns_Connected(S) ==
    [c \in Conns |-> IF c \in InState(S, "CONNECTED") THEN Dropped(conn[c]) ELSE conn[c]]

\* The connections S of a record that leaves service: their other tasks would
\* not find it.
DropConns(S) == [c \in Conns |-> IF c \in S THEN [Dropped(conn[c]) EXCEPT !.tasks = @ \cap {"running"}]
                                             ELSE conn[c]]

\* Mutant: the call to the service is not watched.
ConnectTimer_None(cn, L) == cn

\* Manager's ConnectAbility: a CONNECT_TIMEOUT for the first CONNECTING record
\* of the list, then the call to the service.
ConnectTimer(cn, L) ==
    LET waiting == {c \in L : cn[c].state = "CONNECTING"}
    IN  IF waiting = {} THEN cn ELSE [cn EXCEPT ![First(waiting)].tasks = @ \cup {"connect"}]
-------------------------------------------------------------------------------
(* Starting a service.                                                     *)

\* StartAbilityLocked for n requests in turn, in a state where ab and sm are
\* the records and the service map, and waiting requests are queued already.
Serve(k, n, waiting, sm, ab) ==
    LET s == sm[k]
    IN  \/ /\ n = 0
           /\ serviceMap' = sm /\ ability' = ab
           /\ reqs' = [reqs EXCEPT ![k] = waiting]
        \/ /\ n > 0 /\ s = NoRec /\ NextRec \in Recs
           /\ serviceMap' = [sm EXCEPT ![k] = NextRec]
           /\ ability' = [ab EXCEPT ![NextRec] = Loading(k, FALSE)]
           /\ reqs' = [reqs EXCEPT ![k] = waiting + n - 1]
        \/ /\ n > 0 /\ s # NoRec /\ ab[s].state = "ACTIVE"
           /\ serviceMap' = sm
           /\ ability' = [ab EXCEPT ![s] = CommandSent(@, n)]
           /\ reqs' = [reqs EXCEPT ![k] = waiting]
        \/ /\ n > 0 /\ s # NoRec /\ ab[s].state # "ACTIVE"
           /\ serviceMap' = sm /\ ability' = ab
           /\ reqs' = [reqs EXCEPT ![k] = waiting + n]

\* Mutant: the queue is left alone.
CompleteStartServiceReq_Forgets(k, ab) == serviceMap' = serviceMap /\ ability' = ab /\ UNCHANGED reqs

\* The requests that waited for the service are taken off the queue and served.
CompleteStartServiceReq(k, ab) == Serve(k, reqs[k], 0, serviceMap, ab)

StartAbility(k) ==
    /\ reqs[k] + (IF serviceMap[k] = NoRec THEN 0 ELSE ability[serviceMap[k]].startId) < MaxStart
    /\ Serve(k, 1, reqs[k], serviceMap, ability)
    /\ UNCHANGED <<terminating, conn, books, client, restartTasks, cleaning, raced>>

\* start_service_timeout of EnqueueStartServiceReq.
StartServiceTimeout(k) ==
    /\ reqs[k] > 0
    /\ reqs' = [reqs EXCEPT ![k] = 0]
    /\ UNCHANGED <<serviceMap, terminating, ability, conn, books, client,
                   restartTasks, cleaning, raced>>

\* RestartAbility of a resident service: at once, or after the restart
\* interval when it was restarted a moment ago.
RestartAbility(k, sm, ab) ==
    \/ Serve(k, 1, reqs[k], sm, ab) /\ UNCHANGED restartTasks
    \/ /\ restartTasks' = restartTasks \cup {k}
       /\ serviceMap' = sm /\ ability' = ab
       /\ UNCHANGED reqs

RestartIfKeepAlive(k, sm, ab) ==
    IF k \in KeepAlive
       THEN RestartAbility(k, sm, ab)
       ELSE serviceMap' = sm /\ ability' = ab /\ UNCHANGED <<reqs, restartTasks>>

HandleRestartResidentTask(k) ==
    /\ k \in restartTasks
    /\ restartTasks' = restartTasks \ {k}
    /\ Serve(k, 1, reqs[k], serviceMap, ability)
    /\ UNCHANGED <<terminating, conn, books, client, cleaning, raced>>
-------------------------------------------------------------------------------
(* Connecting.                                                             *)

\* The registration of connection c of callback cb with record r.
Register(c, cb, r) ==
    /\ connList' = [connList EXCEPT ![r] = @ \cup {c}]
    /\ connectMap' = [connectMap EXCEPT ![cb] = @ \cup {c}]
    /\ recipients' = IF connectMap[cb] = {} THEN recipients \cup {cb} ELSE recipients
    /\ pidCount' = [pidCount EXCEPT ![CallerPid[cb]] = @ + 1]

\* Mutant: only an established connection counts.
GetAbilityConnectedRecord_Established(cb, r) ==
    {d \in connectMap[cb] : conn[d].svc = r /\ conn[d].state = "CONNECTED"}

\* The connections this callback has to the record already.
GetAbilityConnectedRecord(cb, r) == {d \in connectMap[cb] : conn[d].svc = r}

\* A service that is ACTIVE has been connected before, or is being connected, or
\* is called now.
HandleActiveAbility(r, c, new) ==
    LET connected  == InState(connList[r], "CONNECTED") # {}
        connecting == InState(connList[r], "CONNECTING") # {}
    IN  \/ /\ connected
           /\ \E fails \in MayRefuse(new.cb) :
                 conn' = [conn EXCEPT ![c] = Completed(new, ability[r].remote, fails)]
           /\ UNCHANGED ability
        \/ /\ ~ connected /\ ~ connecting
           /\ conn' = [conn EXCEPT ![c] = [new EXCEPT !.tasks = {"connect"}]]
           /\ ability' = [ability EXCEPT ![r] = ConnectSent(@)]
        \/ /\ ~ connected /\ connecting
           /\ conn' = [conn EXCEPT ![c] = new]
           /\ UNCHANGED ability

\* ConnectAbilityLocked when this callback has no connection to the record yet
\* (otherwise the callback is only called again).  When the connect cannot be
\* reported it returns before LoadAbility or HandleActiveAbility, and leaves
\* the record and the registration behind.
ConnectAbilityLocked(k, cb) ==
    LET loaded == serviceMap[k] # NoRec
        r      == IF loaded THEN serviceMap[k] ELSE NextRec
        c      == NextConn
        new    == [cb |-> cb, svc |-> r, state |-> "CONNECTING", tasks |-> {}]
    IN  /\ client[cb] = "alive" \/ (client[cb] = "dead" /\ "lateConnect" \in Faults)
        /\ r \in Recs /\ c \in Conns
        /\ GetAbilityConnectedRecord(cb, r) = {}
        /\ Register(c, cb, r)
        /\ \/ /\ ~ loaded
              /\ serviceMap' = [serviceMap EXCEPT ![k] = r]
              /\ ability' = [ability EXCEPT ![r] = Loading(k, TRUE)]
              /\ conn' = [conn EXCEPT ![c] = new]
           \/ /\ loaded /\ ability[r].state = "ACTIVE"
              /\ HandleActiveAbility(r, c, new)
              /\ UNCHANGED serviceMap
           \/ /\ loaded /\ ability[r].state # "ACTIVE"
              /\ conn' = [conn EXCEPT ![c] = new]
              /\ UNCHANGED <<serviceMap, ability>>
           \/ /\ "reportFails" \in Faults
              /\ serviceMap' = [serviceMap EXCEPT ![k] = r]
              /\ ability' = IF loaded THEN ability
                            ELSE [ability EXCEPT ![r] = [Loading(k, TRUE) EXCEPT !.proc = "none", !.timers = {}]]
              /\ conn' = [conn EXCEPT ![c] = new]
        /\ UNCHANGED <<terminating, client, reqs, restartTasks, cleaning, raced>>

\* ConnectionRecord::DisconnectAbility for CONNECTED connections P of different
\* services: the last one of its service is disconnected through the service,
\* any other is simply dropped.
LastOnes(P) == {c \in P : Cardinality(connList[conn[c].svc]) = 1}
Disconnecting(P) ==
    [c \in Conns |-> IF c \in LastOnes(P) THEN [conn[c] EXCEPT !.state = "DISCONNECTING",
                                                               !.tasks = @ \cup {"disconnect"}]
                     ELSE IF c \in P THEN Dropped(conn[c]) ELSE conn[c]]
ToldToDisconnect(P) == {conn[c].svc : c \in LastOnes(P)}

\* DisconnectAbilityLocked walks the callback's list up to the first
\* connection that is not CONNECTED.
DisconnectAbilityLocked(cb) ==
    LET L == connectMap[cb]
        P == {c \in L : \A d \in L : d <= c => conn[d].state = "CONNECTED"}
    IN  /\ client[cb] = "alive"
        /\ P # {}
        /\ conn' = Disconnecting(P)
        /\ ability' = [r \in Recs |-> IF r \in ToldToDisconnect(P) THEN DisconnectSent(ability[r])
                                                                   ELSE ability[r]]
        /\ Remove(P \ LastOnes(P))
        /\ UNCHANGED <<serviceMap, terminating, client, reqs, restartTasks, cleaning, raced>>

\* The death of a client that the manager does not know is not seen; its last
\* connect may still be handled, and AddDeathRecipient fails then.
CallbackDies(cb) ==
    /\ "clientDies" \in Faults
    /\ client[cb] = "alive" /\ (cb \in recipients \/ "lateConnect" \in Faults)
    /\ client' = [client EXCEPT ![cb] = IF cb \in recipients THEN "dying" ELSE "dead"]
    /\ UNCHANGED <<serviceMap, terminating, ability, conn, books, reqs, restartTasks, cleaning, raced>>

\* DisconnectAbilityLocked with callerDied: a connection that cannot be
\* disconnected normally is dropped by DisconnectRecordForce, and with it a
\* service that only this connection kept alive.  Only if the list becomes
\* empty for a service that is active is CONNECT_TIMEOUT cancelled.
HandleCallBackDiedTask(cb) ==
    LET L      == connectMap[cb]
        P      == InState(L, "CONNECTED")
        F      == L \ P
        gone   == F \cup (P \ LastOnes(P))
        empty  == {r \in Recs : Emptied(r, F)}
        never  == {r \in empty : ability[r].startId = 0 /\ ability[r].byConnect} \* IsNeverStarted
        ended  == {r \in never : InService(r)}
        idle   == {r \in empty \ never : ability[r].state = "ACTIVE"}
        calm   == {c \in F : conn[c].svc \in idle}
    IN  /\ client[cb] = "dying"
        /\ client' = [client EXCEPT ![cb] = "dead"]
        /\ conn' = [c \in Conns |->
                      IF c \in calm THEN [Dropped(conn[c]) EXCEPT !.tasks = @ \ {"connect"}]
                      ELSE IF c \in F THEN Dropped(conn[c]) ELSE Disconnecting(P)[c]]
        /\ ability' = [r \in Recs |->
                         IF r \in ended THEN TerminateSent(Unlinked(ability[r], r, F))
                         ELSE IF r \in idle \cup ToldToDisconnect(P) THEN DisconnectSent(ability[r])
                         ELSE Unlinked(ability[r], r, F)]
        /\ serviceMap' = Erased(ended)
        /\ terminating' = terminating \cup ended
        /\ Remove(gone)
        /\ UNCHANGED <<reqs, restartTasks, cleaning, raced>>
-------------------------------------------------------------------------------
(* What the service's process does, and what it answers.                   *)

Took(r, m) == [ability EXCEPT ![r].todo[m] = @ - 1]

\* AttachAbilityThreadInner: the process has loaded the extension.  A record
\* that left serviceMap_ in the meantime is refused.
AttachAbilityThread(r) ==
    LET a == ability[r]
        b == [a EXCEPT !.proc = "up", !.state = "INACTIVATING",
                       !.timers = (@ \ {"load"}) \cup {"inactive"}]
    IN  /\ a.proc = "loading"
        /\ ability' = [ability EXCEPT ![r] = IF InService(r) THEN Sent(b, "inactive", 1)
                                                            ELSE [a EXCEPT !.proc = "dead"]]
        /\ UNCHANGED <<serviceMap, terminating, conn, books, client, reqs, restartTasks, cleaning, raced>>

\* AbilityTransitionDone(INACTIVE) and DispatchInactive.
DispatchInactive(r) ==
    LET a       == Took(r, "inactive")[r]
        ready   == [a EXCEPT !.timers = @ \ {"inactive"}, !.state = "INACTIVE"]
        started == IF a.byConnect THEN ready ELSE CommandSent(ready, 1)
        connect == a.byConnect \/ connList[r] # {}
    IN  /\ ability[r].todo["inactive"] > 0
        /\ InService(r) /\ a.state = "INACTIVATING"
        /\ ability' = [ability EXCEPT ![r] = IF connect THEN ConnectSent(started) ELSE started]
        /\ conn' = IF connect THEN ConnectTimer(conn, connList[r]) ELSE conn
        /\ UNCHANGED <<serviceMap, terminating, books, client, reqs, restartTasks, cleaning, raced>>

\* Mutant: all connections of the service.
GetConnectingRecordList_All(r) == connList[r]

GetConnectingRecordList(r) == InState(connList[r], "CONNECTING")

\* Mutant: the record keeps the state it had.
Bound_NotActive(a, remote, C) == [a EXCEPT !.remote = remote]

\* The record once its service answered, if someone waited for the answer.
Bound(a, remote, C) ==
    [a EXCEPT !.remote = remote, !.state = IF C = {} THEN @ ELSE "ACTIVE"]

\* ScheduleConnectAbilityDoneLocked: every client that waits is connected with
\* the one remote object, then the queued start requests are served.
ScheduleConnectAbilityDone(r, remote) ==
    LET C == GetConnectingRecordList(r)
        a == Took(r, "connect")[r]
    IN  /\ ability[r].todo["connect"] > 0
        /\ a.state \in {"INACTIVE", "ACTIVE"}
        /\ \E F \in SUBSET C :
           /\ \A c \in C : (c \in F) \in MayRefuse(conn[c].cb)
           /\ conn' = [c \in Conns |-> IF c \in C THEN Completed(conn[c], remote, c \in F)
                                                  ELSE conn[c]]
        /\ CompleteStartServiceReq(a.key, [ability EXCEPT ![r] = Bound(a, remote, C)])
        /\ UNCHANGED <<terminating, books, client, restartTasks, cleaning, raced>>

\* ScheduleCommandAbilityDoneLocked and CompleteCommandAbility: the timer that
\* is cancelled is the one of the latest start id.
ScheduleCommandAbilityDone(r) ==
    LET a    == Took(r, "command")[r]
        done == [a EXCEPT !.cmdTimers = @ \ {a.startId}, !.state = "ACTIVE"]
        connect == connList[r] # {} /\ ~ a.isConnected
    IN  /\ ability[r].todo["command"] > 0
        /\ a.state \in {"INACTIVE", "ACTIVE"}
        /\ conn' = IF connect THEN ConnectTimer(conn, connList[r]) ELSE conn
        /\ CompleteStartServiceReq(a.key,
                 [ability EXCEPT ![r] = IF connect THEN ConnectSent(done) ELSE done])
        /\ UNCHANGED <<terminating, books, client, restartTasks, cleaning, raced>>

\* Mutant: the list is looked at before the connection has left it.
NoneLeft_Early(r, c, a) == connList[r] = {} /\ a.startId = 0

\* CleanupConnectionAndTerminateIfNeeded, once c has left the list.
NoneLeft(r, c, a) == connList[r] = {c} /\ a.startId = 0

\* ScheduleDisconnectAbilityDoneLocked: the first DISCONNECTING connection of
\* the service is the one that is complete, whoever reports it; with the last
\* connection goes a service that was never started.
DisconnectDone(r, ab, cn) ==
    LET D    == InState(connList[r], "DISCONNECTING")
        c    == First(D)
        last == NoneLeft(r, c, ab[r])
        done == [ab[r] EXCEPT !.isConnected = IF connList[r] = {c} THEN FALSE ELSE @]
    IN  IF InService(r) /\ D # {} /\ ab[r].state = "ACTIVE"
          THEN /\ Remove({c})
               /\ conn' = [cn EXCEPT ![c] = Dropped(@)]
               /\ ability' = [ab EXCEPT ![r] = IF last THEN TerminateSent(done) ELSE done]
               /\ serviceMap' = Erased(IF last THEN {r} ELSE {})
               /\ terminating' = terminating \cup (IF last THEN {r} ELSE {})
          ELSE ability' = ab /\ conn' = cn /\ UNCHANGED <<serviceMap, terminating, books>>

ScheduleDisconnectAbilityDone(r) ==
    /\ ability[r].todo["disconnect"] > 0
    /\ DisconnectDone(r, Took(r, "disconnect"), conn)
    /\ UNCHANGED <<client, reqs, restartTasks, cleaning, raced>>

\* The timer that ScheduleDisconnectTimeout armed, and the task that
\* CompleteConnect posts for a null remote object.
DisconnectTask(c, task) ==
    /\ task \in conn[c].tasks
    /\ DisconnectDone(conn[c].svc, ability, [conn EXCEPT ![c].tasks = @ \ {task}])
    /\ UNCHANGED <<client, reqs, restartTasks, cleaning, raced>>
DisconnectTimeout(c) == DisconnectTask(c, "disconnect")
NullRemoteTask(c) == DisconnectTask(c, "null")

\* The client could not be told that it is connected.
HandleExtensionDisconnectTask(c) ==
    LET P == IF conn[c].state = "CONNECTED" THEN {c} ELSE {}
        cn == Disconnecting(P)
    IN  /\ "fail" \in conn[c].tasks
        /\ conn' = [cn EXCEPT ![c].tasks = @ \ {"fail"}]
        /\ ability' = [r \in Recs |-> IF r \in ToldToDisconnect(P) THEN DisconnectSent(ability[r])
                                                                   ELSE ability[r]]
        /\ Remove(P \ LastOnes(P))
        /\ UNCHANGED <<serviceMap, terminating, client, reqs, restartTasks, cleaning, raced>>
-------------------------------------------------------------------------------
(* Termination.                                                            *)

\* TerminateAbilityInner (the service ends itself) and StopServiceAbilityLocked
\* (a client stops it): all its connections end, then it is terminated.
Terminate(r) ==
    LET S == connList[r]
    IN  /\ InService(r)
        /\ conn' = DropConns(S)
        /\ ability' = [ability EXCEPT ![r] = TerminateSent(Unlinked(@, r, S))]
        /\ Remove(S)
        /\ serviceMap' = Erased({r})
        /\ terminating' = terminating \cup {r}
        /\ UNCHANGED <<client, reqs, restartTasks, cleaning, raced>>
TerminateAbility(r) == "stop" \in Faults /\ ability[r].proc = "up" /\ Terminate(r)
StopServiceAbility(k) == "stop" \in Faults /\ \E r \in Recs : serviceMap[k] = r /\ Terminate(r)

\* TerminateDone: from here on the death of the process goes unnoticed.
TerminateDone(r, ab) ==
    /\ IF ab[r].state = "TERMINATING"
          THEN /\ terminating' = terminating \ {r}
               /\ ability' = [ab EXCEPT ![r].proc = "dead", ![r].todo = NoMsgs]
          ELSE ability' = ab /\ UNCHANGED terminating
    /\ UNCHANGED <<serviceMap, conn, books, client, reqs, restartTasks, cleaning, raced>>

\* AbilityTransitionDone(INITIAL) and DispatchTerminate.
DispatchTerminate(r) ==
    /\ ability[r].todo["terminate"] > 0
    /\ r \in terminating
    /\ TerminateDone(r, [Took(r, "terminate") EXCEPT ![r].timers = @ \ {"terminate"}])
HandleStopTimeoutTask(r) ==
    /\ "terminate" \in ability[r].timers
    /\ TerminateDone(r, [ability EXCEPT ![r].timers = @ \ {"terminate"}])
-------------------------------------------------------------------------------
(* Timeouts.  OnTimeOut looks the record up before its handler locks, and  *)
(* does nothing for one that is out of service.                            *)

LoadTimeout(r) ==
    /\ "load" \in ability[r].timers
    /\ InService(r)
    /\ ability' = [ability EXCEPT ![r].timers = @ \ {"load"},
                                  ![r].tasks = @ \cup {"startTimeout"}]
    /\ UNCHANGED <<serviceMap, terminating, conn, books, client, reqs, restartTasks, cleaning, raced>>

\* HandleStartTimeoutTaskInner: the clients that wait are dropped, and the
\* record too, whatever became of it since its timer fired.
StartTimeout(r, ab) ==
    LET S == GetConnectingRecordList(r)
        u == [ab EXCEPT ![r] = Unlinked(@, r, S)]
    IN  /\ conn' = DropConns(S)
        /\ Remove(S)
        /\ IF InService(r)
              THEN /\ RestartIfKeepAlive(ab[r].key, Erased({r}), [u EXCEPT ![r] = Killed(Forgotten(@))])
                   /\ raced' = IF connList[r] \subseteq S THEN raced ELSE raced \cup {r}
              ELSE /\ ability' = u
                   /\ UNCHANGED <<serviceMap, reqs, restartTasks, raced>>
        /\ UNCHANGED <<terminating, client, cleaning>>

HandleStartTimeoutTask(r) ==
    /\ "startTimeout" \in ability[r].tasks
    /\ StartTimeout(r, [ability EXCEPT ![r].tasks = @ \ {"startTimeout"}])

\* AppMgr reports that the process could not be started.
OnLoadAbilityFailed(r) ==
    /\ "loadFails" \in Faults
    /\ ability[r].proc = "loading"
    /\ StartTimeout(r, [ability EXCEPT ![r].timers = @ \ {"load"}, ![r].proc = "dead"])

\* CleanActivatingTimeoutAbility up to the lock: nothing if ACTIVE, else the
\* list is copied.
CopyIfNotActive(r) ==
    /\ cleaning[r] = NoCopy
    /\ cleaning' = IF ability[r].state = "ACTIVE" THEN cleaning
                                                  ELSE [cleaning EXCEPT ![r] = connList[r]]

InactiveTimeout(r) ==
    /\ "inactive" \in ability[r].timers
    /\ InService(r)
    /\ CopyIfNotActive(r)
    /\ ability' = [ability EXCEPT ![r].timers = @ \ {"inactive"}]
    /\ UNCHANGED <<serviceMap, terminating, conn, books, client, reqs, restartTasks, raced>>

HandleCommandTimeoutTask(r, i) ==
    /\ i \in ability[r].cmdTimers
    /\ CopyIfNotActive(r)
    /\ ability' = [ability EXCEPT ![r].cmdTimers = @ \ {i}]
    /\ UNCHANGED <<serviceMap, terminating, conn, books, client, reqs, restartTasks, raced>>

\* CleanActivatingTimeoutAbilityInner once it holds the lock: the copied
\* connections go, then the record, with any connection made in between.
CleanActivatingTimeoutAbilityInner(r) ==
    LET S == cleaning[r]
        a == Unlinked(ability[r], r, S)
    IN  /\ S # NoCopy
        /\ conn' = DropConns(S)
        /\ Remove(S)
        /\ terminating' = IF InService(r) THEN terminating \cup {r} ELSE terminating
        /\ RestartIfKeepAlive(ability[r].key, Erased({r}),
              [ability EXCEPT ![r] = IF InService(r) THEN TerminateSent(a) ELSE a])
        /\ raced' = IF InService(r) /\ ~ connList[r] \subseteq S THEN raced \cup {r} ELSE raced
        /\ cleaning' = [cleaning EXCEPT ![r] = NoCopy]
        /\ UNCHANGED client

ConnectTimeout(c) ==
    /\ "connect" \in conn[c].tasks
    /\ InService(conn[c].svc)
    /\ conn' = [conn EXCEPT ![c].tasks = (@ \ {"connect"}) \cup {"running"}]
    /\ UNCHANGED <<serviceMap, terminating, ability, books, client, reqs, restartTasks, cleaning, raced>>

\* HandleConnectTimeoutTask: every connection of the service is dropped, and
\* the service if it was never started.
HandleConnectTimeoutTask(c) ==
    LET r == conn[c].svc
        S == connList[r]
        ends == InService(r) /\ ability[r].startId = 0
    IN  /\ "running" \in conn[c].tasks
        /\ conn' = [d \in Conns |-> LET x == IF d \in S THEN [Dropped(conn[d]) EXCEPT !.tasks = @ \ {"connect"}]
                                                        ELSE conn[d]
                                    IN  IF d = c THEN [x EXCEPT !.tasks = @ \ {"running"}] ELSE x]
        /\ Remove(S)
        /\ ability' = [ability EXCEPT ![r] = IF ends THEN TerminateSent(Unlinked(@, r, S))
                                                    ELSE Unlinked(@, r, S)]
        /\ serviceMap' = Erased(IF ends THEN {r} ELSE {})
        /\ terminating' = terminating \cup (IF ends THEN {r} ELSE {})
        /\ UNCHANGED <<client, reqs, restartTasks, cleaning, raced>>
-------------------------------------------------------------------------------
(* Death of the service's process, and freezing.                           *)

ServiceDies(r) ==
    /\ "serviceDies" \in Faults
    /\ ability[r].proc = "up"
    /\ ability' = [ability EXCEPT ![r] = Killed(@)]
    /\ UNCHANGED <<serviceMap, terminating, conn, books, client, reqs, restartTasks, cleaning, raced>>

\* OnAbilityDied cancels the timer of the state it finds, without the lock.
OnAbilityDied(r) ==
    LET a == ability[r]
        b == [a EXCEPT !.tasks = (@ \ {"schedulerDied"}) \cup {"abilityDied"},
                       !.timers = @ \ (IF a.state = "TERMINATING" THEN {"terminate"}
                                       ELSE IF a.state = "INITIAL" THEN {"load"} ELSE {})]
    IN  /\ "schedulerDied" \in a.tasks
        /\ ability' = [ability EXCEPT ![r] = b]
        /\ UNCHANGED <<serviceMap, terminating, conn, books, client, reqs, restartTasks, cleaning, raced>>

\* HandleAbilityDiedTask; a resident service is restarted unless memory is
\* short (IsNeedToRestart).
HandleAbilityDiedTask(r) ==
    LET S == connList[r]
        a == [Unlinked(ability[r], r, S) EXCEPT !.remote = FALSE, !.tasks = @ \ {"abilityDied"}]
        u == [ability EXCEPT ![r] = IF InService(r) THEN Forgotten(a) ELSE a]
    IN  /\ "abilityDied" \in ability[r].tasks
        /\ conn' = DropConns(S)
        /\ Remove(S)
        /\ \/ InService(r) /\ RestartIfKeepAlive(ability[r].key, Erased({r}), u)
           \/ /\ InService(r) => ability[r].key \in KeepAlive
              /\ serviceMap' = Erased({r}) /\ ability' = u
              /\ UNCHANGED <<reqs, restartTasks>>
        /\ UNCHANGED <<terminating, client, cleaning, raced>>

\* HandleProcessFrozen submits a task for each idle service of the process.
HandleProcessFrozen(r) ==
    /\ "freeze" \in Faults
    /\ InService(r) /\ ability[r].proc = "up" /\ ability[r].key \notin KeepAlive
    /\ connList[r] = {}
    /\ "frozen" \notin ability[r].tasks
    /\ ability' = [ability EXCEPT ![r].tasks = @ \cup {"frozen"}]
    /\ UNCHANGED <<serviceMap, terminating, conn, books, client, reqs, restartTasks, cleaning, raced>>

\* The task calls TerminateRecord without the lock and without looking at the
\* list again.
FrozenTask(r) ==
    LET a == [ability[r] EXCEPT !.tasks = @ \ {"frozen"}]
    IN  /\ "frozen" \in ability[r].tasks
        /\ ability' = [ability EXCEPT ![r] = IF InService(r) THEN TerminateSent(a) ELSE a]
        /\ serviceMap' = Erased({r})
        /\ terminating' = IF InService(r) THEN terminating \cup {r} ELSE terminating
        /\ raced' = IF InService(r) /\ connList[r] # {} THEN raced \cup {r} ELSE raced
        /\ UNCHANGED <<conn, books, client, reqs, restartTasks, cleaning>>
-------------------------------------------------------------------------------
Init == /\ serviceMap = [k \in Keys |-> NoRec]
        /\ terminating = {}
        /\ ability = [r \in Recs |-> Unborn]
        /\ conn = [c \in Conns |-> Unused]
        /\ connList = [r \in Recs |-> {}]
        /\ connectMap = [cb \in Callbacks |-> {}]
        /\ recipients = {}
        /\ client = [cb \in Callbacks |-> "alive"]
        /\ pidCount = [p \in Pids |-> 0]
        /\ reqs = [k \in Keys |-> 0]
        /\ restartTasks = {} /\ raced = {}
        /\ cleaning = [r \in Recs |-> NoCopy]

Client == \/ \E k \in Keys : StartAbility(k) \/ StopServiceAbility(k)
          \/ \E k \in Keys, cb \in Callbacks : ConnectAbilityLocked(k, cb)
          \/ \E cb \in Callbacks : DisconnectAbilityLocked(cb) \/ CallbackDies(cb)

Service == \E r \in Recs :
    \/ AttachAbilityThread(r) \/ OnLoadAbilityFailed(r) \/ DispatchInactive(r)
    \/ \E remote \in IF "null" \in Faults THEN BOOLEAN ELSE {TRUE} : ScheduleConnectAbilityDone(r, remote)
    \/ ScheduleCommandAbilityDone(r) \/ ScheduleDisconnectAbilityDone(r)
    \/ TerminateAbility(r) \/ DispatchTerminate(r)
    \/ ServiceDies(r) \/ HandleProcessFrozen(r)

\* The timers and tasks of the manager itself.
Timer == \/ \E k \in Keys : StartServiceTimeout(k)
         \/ \E r \in Recs : \/ LoadTimeout(r) \/ InactiveTimeout(r) \/ HandleStopTimeoutTask(r)
                             \/ \E i \in ability[r].cmdTimers : HandleCommandTimeoutTask(r, i)
         \/ \E c \in Conns : ConnectTimeout(c) \/ DisconnectTimeout(c)
Task == \/ \E k \in Keys : HandleRestartResidentTask(k)
        \/ \E cb \in Callbacks : HandleCallBackDiedTask(cb)
        \/ \E r \in Recs : \/ HandleStartTimeoutTask(r) \/ CleanActivatingTimeoutAbilityInner(r)
                            \/ OnAbilityDied(r) \/ HandleAbilityDiedTask(r) \/ FrozenTask(r)
        \/ \E c \in Conns : \/ HandleConnectTimeoutTask(c) \/ NullRemoteTask(c)
                             \/ HandleExtensionDisconnectTask(c)

Next == Client \/ Service \/ Timer \/ Task

Spec == Init /\ [][Next]_vars

\* Every timer that stays armed fires, and every task that was posted runs;
\* nothing is assumed of clients and services.
Fairness ==
    /\ \A k \in Keys : WF_vars(StartServiceTimeout(k)) /\ WF_vars(HandleRestartResidentTask(k))
    /\ \A cb \in Callbacks : WF_vars(HandleCallBackDiedTask(cb))
    /\ \A r \in Recs :
          /\ WF_vars(LoadTimeout(r)) /\ WF_vars(InactiveTimeout(r)) /\ WF_vars(HandleStopTimeoutTask(r))
          /\ WF_vars(\E i \in ability[r].cmdTimers : HandleCommandTimeoutTask(r, i))
          /\ WF_vars(HandleStartTimeoutTask(r)) /\ WF_vars(CleanActivatingTimeoutAbilityInner(r))
          /\ WF_vars(OnAbilityDied(r)) /\ WF_vars(HandleAbilityDiedTask(r)) /\ WF_vars(FrozenTask(r))
    /\ \A c \in Conns :
          /\ WF_vars(ConnectTimeout(c)) /\ WF_vars(HandleConnectTimeoutTask(c))
          /\ WF_vars(DisconnectTimeout(c)) /\ WF_vars(NullRemoteTask(c))
          /\ WF_vars(HandleExtensionDisconnectTask(c))
FairSpec == Spec /\ Fairness
-------------------------------------------------------------------------------
States == {"none", "INITIAL", "INACTIVATING", "INACTIVE", "ACTIVE", "TERMINATING"}
ConnStates == {"INIT", "CONNECTING", "CONNECTED", "DISCONNECTING", "DISCONNECTED"}

\* The types of the variables.
TypeOK ==
    /\ serviceMap \in [Keys -> Recs \cup {NoRec}]
    /\ terminating \subseteq Recs
    /\ ability \in [Recs -> [key : Keys \cup {None}, state : States, byConnect : BOOLEAN,
                             startId : Nat, proc : {"none", "loading", "up", "dead"},
                             isConnected : BOOLEAN, told : BOOLEAN, remote : BOOLEAN,
                             todo : [Msgs -> Nat],
                             timers : SUBSET {"load", "inactive", "terminate"},
                             tasks : SUBSET {"startTimeout", "schedulerDied", "abilityDied", "frozen"},
                             cmdTimers : SUBSET Nat]]
    /\ conn \in [Conns -> [cb : Callbacks \cup {None}, svc : Recs \cup {NoRec}, state : ConnStates,
                           tasks : SUBSET {"connect", "running", "disconnect", "null", "fail"}]]
    /\ connList \in [Recs -> SUBSET Conns]
    /\ connectMap \in [Callbacks -> SUBSET Conns]
    /\ recipients \subseteq Callbacks
    /\ pidCount \in [Pids -> Nat]
    /\ client \in [Callbacks -> {"alive", "dying", "dead"}]
    /\ reqs \in [Keys -> Nat]
    /\ restartTasks \subseteq Keys
    /\ cleaning \in [Recs -> (SUBSET Conns) \cup {NoCopy}]
    /\ raced \subseteq Recs

Live == {c \in Conns : conn[c].state \in {"CONNECTING", "CONNECTED", "DISCONNECTING"}}

\* The service's list and the callback's list know exactly the connections
\* that are not over: whichever of the ten ways a connection ends, it leaves
\* both (a leftover in connectMap_ would be disconnected again, one in
\* connRecordList_ would keep the service alive).
ListsAgree ==
    /\ \A r \in Recs : connList[r] = {c \in Live : conn[c].svc = r}
    /\ \A cb \in Callbacks : connectMap[cb] = {c \in Live : conn[c].cb = cb}

\* callerPidConnectionCountMap_ counts the live connections of each process.
CountsAgree == \A p \in Pids : pidCount[p] = Cardinality({c \in Live : CallerPid[conn[c].cb] = p})

\* A client is watched for death exactly while it has a connection.
RecipientsAgree == recipients = {cb \in Callbacks : connectMap[cb] # {}}

\* A callback is connected at most once to a service.
OneConnPerTarget ==
    \A c, d \in Live : conn[c].cb = conn[d].cb /\ conn[c].svc = conn[d].svc => c = d

\* A service that was created by a connect request and never started does not
\* outlive its last connection.
NoOrphanService ==
    \A r \in Recs : InService(r) /\ ability[r].startId = 0 /\ ability[r].byConnect => connList[r] # {}

\* As long as a record is in service, a client counts as connected to it only
\* after the service became ACTIVE (a disconnect is refused otherwise).
ConnectedIsActive ==
    \A c \in Conns : conn[c].state \in {"CONNECTED", "DISCONNECTING"} /\ InService(conn[c].svc)
                       => ability[conn[c].svc].state = "ACTIVE"

\* A record is in service under its own key only, or being terminated, or gone.
PlacedOnce ==
    /\ \A k \in Keys : serviceMap[k] # NoRec =>
          /\ ability[serviceMap[k]].key = k
          /\ ability[serviceMap[k]].state \notin {"none", "TERMINATING"}
    /\ \A r \in terminating : ability[r].state = "TERMINATING"

\* No client is left registered with a record that went out of service, except
\* when a task that had made up its mind before it held the lock took it down.
NoDangling == \A c \in Live : InService(conn[c].svc) \/ conn[c].svc \in raced

\* A start request waits only for a service that is still starting: whichever
\* of a connect or a command answer made it ACTIVE, the queue was served then.
RequestsServed ==
    \A k \in Keys : reqs[k] > 0 /\ serviceMap[k] # NoRec => ability[serviceMap[k]].state # "ACTIVE"

\* Something still has to happen that ends the wait of a client: a timer or a
\* task of the record it waits for.
WaiterIsWatched ==
    \A c \in InState(Conns, "CONNECTING") :
        LET r == conn[c].svc
            a == ability[r]
        IN  InService(r) =>
              \/ a.timers \cap {"load", "inactive"} # {}
              \/ a.tasks # {}
              \/ cleaning[r] # NoCopy
              \/ a.state = "INACTIVE" /\ a.cmdTimers # {}
              \/ \E d \in Conns : conn[d].svc = r /\ conn[d].tasks \cap {"connect", "running"} # {}

\* A connection goes through its states in one direction only.
Rank(st) == CASE st = "INIT" -> 0 [] st = "CONNECTING" -> 1 [] st = "CONNECTED" -> 2
              [] st = "DISCONNECTING" -> 3 [] st = "DISCONNECTED" -> 4
ConnOnlyForward == [][\A c \in Conns : Rank(conn[c].state) <= Rank(conn'[c].state)]_vars

\* Every client that waits to be connected gets an answer.
EveryWaitEnds ==
    \A c \in Conns : conn[c].state = "CONNECTING" ~>
                        conn[c].state # "CONNECTING" \/ conn[c].svc \in raced

\* A client that died before its death could be watched keeps no connection:
\* the call that tells it that it is connected fails.
GhostsLeave ==
    \A c \in Conns :
        conn[c].state \in {"CONNECTING", "CONNECTED"} /\ client[conn[c].cb] = "dead" ~>
            conn[c].state \in {"DISCONNECTING", "DISCONNECTED"} \/ conn[c].svc \in raced

\* A record that is being terminated is let go of, unless its process died
\* meanwhile.
TerminationEnds == \A r \in Recs : r \in terminating ~> r \notin terminating \/ ability[r].proc = "dead"

\* A connection that is being disconnected from a service that stays in service
\* ends, through the service's answer or through the "force to disconnect time
\* out event" (ConnectionRecord::DisconnectTimeout).  It does not.
DisconnectEnds ==
    \A c \in Conns : conn[c].state = "DISCONNECTING" ~>
                        conn[c].state # "DISCONNECTING" \/ ~ InService(conn[c].svc)

\* onDisconnect is "called when all abilities connected to this Service
\* extension are disconnected": an active service that answered all calls and
\* has no client left does not believe that it is connected.  It may.
ToldOfLastDisconnect ==
    \A r \in Recs : /\ InService(r) /\ ability[r].state = "ACTIVE" /\ connList[r] = {}
                     /\ ability[r].todo["connect"] + ability[r].todo["disconnect"] = 0
                     => ~ ability[r].told
===============================================================================
