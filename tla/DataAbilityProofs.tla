-------------------------- MODULE DataAbilityProofs ---------------------------
(***************************************************************************)
(* DataAbilityManager's two maps agree, every load in progress has a       *)
(* caller that will end it, and a loaded record counts its clients         *)
(* exactly, for any threads, names, records and clients.                   *)
(*                                                                         *)
(* What a thread was told before it lost mutex_ still holds when it goes   *)
(* on (CallOK): the record it waits for was made for the name it asked     *)
(* for, so erasing by name never leaves a load without its caller, and a   *)
(* record that became ACTIVE stays so.  mutex_ itself is needed for one    *)
(* thing only: a thread that looks a name up, and will insert a load for   *)
(* it, holds the lock unless the name was intruded on (LockOK).            *)
(***************************************************************************)
EXTENDS DataAbility, TLAPS, FiniteSetTheorems

Looking == {"find", "load", "insert"}
Waiting == {"insert", "enter", "wait", "failed", "giveUp", "loaded"}
Awaiting == {"enter", "wait", "failed"}

Handing(c) == c.pc = "return" /\ c.ok

\* What a thread between two steps of Acquire can rely on.
CallOK(c) ==
    /\ c.pc # "idle" => c.name \in Names
    /\ c.pc # "return" => ~c.ok
    /\ c.pc \in Waiting => c.rec \in Recs /\ name[c.rec] = c.name /\ state[c.rec] # "NONE"
    /\ c.pc = "loaded" \/ Handing(c) => c.rec \in Recs /\ HasScheduler(c.rec)

CallsOK == \A t \in Threads : CallOK(call[t])

\* A record is loading from its creation until it is ACTIVE, loaded after that.
StatesOK ==
    /\ \A n \in Names : loading[n] # NoRec => state[loading[n]] \in {"INITIAL", "ACTIVATING"}
    /\ \A n \in Names : loaded[n] # NoRec => HasScheduler(loaded[n])

WaitersOK ==
    \A n \in Names : loading[n] # NoRec =>
        \E t \in Threads : call[t].rec = loading[n] /\ call[t].pc \in Awaiting

\* mutex_ is held from the look-ups of a name to the insert, unless the name was
\* intruded on; meanwhile the name is not loaded by others.
LockOK ==
    \A t \in Threads : call[t].pc \in Looking /\ call[t].name \notin intruded =>
        mutex = t /\ (call[t].pc # "find" => loaded[call[t].name] = NoRec)

\* A record that is about to be inserted is known to the thread that made it only.
StartsOK ==
    \A t \in Threads : call[t].pc = "insert" =>
        /\ state[call[t].rec] = "INITIAL"
        /\ \A n \in Names : loading[n] # call[t].rec
        /\ \A s \in Threads \ {t} : call[s].pc = "insert" => call[s].rec # call[t].rec

\* A record is attached after it was made; a death that is reported is the
\* death of an attached provider, an obituary that of a dead client.
DeathsOK ==
    /\ \A r \in attached : state[r] # "NONE"
    /\ \A r \in Recs : state[r] = "ACTIVE" => r \in attached
    /\ \A r \in deaths : r \in attached /\ r \notin alive
    /\ \A r \in Recs, c \in Clients : <<r, c>> \in obituaries => c \in deadClients

\* Nobody has what a record does not give out before it is ACTIVE.
NothingEarly ==
    \A r \in Recs : state[r] # "ACTIVE" => \A c \in Clients : clients[r][c] = 0 /\ held[r][c] = 0

Counted(r, c) == clients[r][c] = held[r][c] + Returning(r, c)

Gone == deadClients \cup Buried

CountsOK == \A n \in Names : loaded[n] # NoRec => \A c \in Clients \ Gone : Counted(loaded[n], c)

\* The inductive invariant.
IInv == /\ TypeOK /\ OnePerName /\ CallsOK /\ StatesOK /\ WaitersOK
        /\ LockOK /\ StartsOK /\ DeathsOK /\ NothingEarly /\ CountsOK
-------------------------------------------------------------------------------
\* The record Acquire makes was not made before.
LEMMA NewIsFresh ==
    ASSUME Made # Recs
    PROVE  NewRecord \in Recs /\ state[NewRecord] = "NONE"
  BY DEF NewRecord, Made

\* What is asked for in an environment.
LEMMA AsksOK ==
    ASSUME TypeOK, NEW a \in env.asks
    PROVE  a[1] \in Names /\ a[2] \in Clients \cup {NoClient}
<1>1. env \in [asks : SUBSET (Names \X (Clients \cup {NoClient})),
               keepAlive : SUBSET Names, most : 1..MaxHeld, loads : Nat, crashes : Nat]
  BY ClientAssumption DEF TypeOK
<1>2. a \in Names \X (Clients \cup {NoClient})
  BY <1>1
<1> QED
  BY <1>2

\* What an idle thread does.
LEMMA IdleCall ==
    /\ Idle \in Calls
    /\ Idle.pc = "idle" /\ Idle.name = "" /\ Idle.client = NoClient /\ Idle.rec = NoRec /\ ~Idle.ok
  BY DEF Calls, Idle

\* How the entry of one client of one record changes.
LEMMA EntrySet ==
    ASSUME NEW f \in [Recs -> [Clients -> Nat]], NEW r \in Recs, NEW c \in Clients, NEW v \in Nat
    PROVE  /\ [f EXCEPT ![r][c] = v] \in [Recs -> [Clients -> Nat]]
           /\ [f EXCEPT ![r][c] = v][r][c] = v
           /\ \A q \in Recs, d \in Clients : q # r \/ d # c => [f EXCEPT ![r][c] = v][q][d] = f[q][d]
  OBVIOUS

\* Nobody who is gone comes back.
LEMMA GoneStays ==
    ASSUME IInv, deadClients \subseteq deadClients', attached \subseteq attached',
           \A r \in attached : r \notin alive => r \notin alive',
           \A r \in attached : r \notin alive \cup deaths => r \notin deaths'
    PROVE  Gone \subseteq Gone'
  BY DEF Gone, Buried

\* The number of calls about to return a scheduler.
LEMMA ReturningNat ==
    ASSUME NEW r, NEW c
    PROVE  Returning(r, c) \in Nat
  BY BoundAssumption, FS_Subset, FS_CardinalityType DEF Returning

\* A step of a thread that is not about to return a scheduler, and will not be,
\* does not change how many are.
LEMMA ReturningSame ==
    ASSUME NEW t \in Threads, NEW c, ~Handing(call[t]), ~Handing(c),
           call \in [Threads -> Calls], call' = [call EXCEPT ![t] = c], NEW r, NEW d
    PROVE  Returning(r, d)' = Returning(r, d)
<1>1. \A s \in Threads \ {t} : call'[s] = call[s]
  OBVIOUS
<1>2. call'[t] = c
  OBVIOUS
<1>3. {s \in Threads : call'[s].pc = "return" /\ call'[s].ok /\ call'[s].rec = r /\ call'[s].client = d}
        = {s \in Threads : call[s].pc = "return" /\ call[s].ok /\ call[s].rec = r /\ call[s].client = d}
  BY <1>1, <1>2 DEF Handing
<1> QED
  BY <1>3 DEF Returning

\* What a thread may do to mutex_.
LockStep(t) == \/ UNCHANGED <<mutex, intruded>>
               \/ Unlock(t)
               \/ mutex = Free /\ mutex' = t /\ UNCHANGED intruded

\* A thread that loses mutex_ before its insert has its name intruded on.
LEMMA LockKept ==
    ASSUME IInv, NEW t \in Threads, NEW c \in Calls, call' = [call EXCEPT ![t] = c], LockStep(t),
           \A n \in Names : loaded[n] = NoRec => loaded'[n] = NoRec,
           c.pc \in Looking /\ c.name \notin intruded' =>
               mutex' = t /\ (c.pc # "find" => loaded'[c.name] = NoRec)
    PROVE  LockOK' /\ intruded \subseteq intruded' /\ intruded' \subseteq Names /\ mutex' \in Threads \cup {Free}
<1>1. call'[t] = c /\ \A s \in Threads \ {t} : call'[s] = call[s]
  BY DEF IInv, TypeOK
<1>2. intruded \subseteq intruded' /\ mutex' \in Threads \cup {Free}
  BY DEF LockStep, Unlock, IInv, TypeOK
<1>3. intruded' \subseteq Names
  BY DEF LockStep, Unlock, IInv, TypeOK, CallsOK, CallOK
<1>4. ASSUME NEW s \in Threads \ {t}, call[s].pc \in Looking, call[s].name \notin intruded'
      PROVE  mutex' = s /\ (call[s].pc # "find" => loaded'[call[s].name] = NoRec)
  <2>1. mutex = s /\ (call[s].pc # "find" => loaded[call[s].name] = NoRec) /\ call[s].name \in Names
    BY <1>2, <1>4 DEF IInv, LockOK, CallsOK, CallOK, Looking
  <2>2. mutex' = mutex
    <3>1. ~Unlock(t)
      BY <1>4, <2>1 DEF Unlock, Looking
    <3>2. mutex # Free
      BY <2>1, ClientAssumption
    <3> QED
      BY <3>1, <3>2 DEF LockStep
  <2> QED
    BY <2>1, <2>2
<1> QED
  BY <1>1, <1>2, <1>3, <1>4 DEF LockOK

\* A step of a thread that leaves the data alone: its new place in Acquire is
\* sound, and a caller that a load may depend on goes on waiting for it.
LEMMA CallOnly ==
    ASSUME IInv, NEW t \in Threads, NEW c \in Calls, CallOK(c),
           call' = [call EXCEPT ![t] = c],
           call[t].pc \in Awaiting => c.rec = call[t].rec /\ c.pc \in Awaiting \cup {"loaded"},
           ~Handing(call[t]), ~Handing(c), c.pc # "insert", LockStep(t),
           c.pc \in Looking /\ c.name \notin intruded' =>
               mutex' = t /\ (c.pc # "find" => loaded[c.name] = NoRec),
           timedOut' \subseteq Recs,
           UNCHANGED <<data, process, killed, held>>
    PROVE  IInv'
<1>0. LockOK' /\ intruded \subseteq intruded' /\ intruded' \subseteq Names /\ mutex' \in Threads \cup {Free}
  BY LockKept DEF data
<1>1. call \in [Threads -> Calls]
  BY DEF IInv, TypeOK
<1>2. call'[t] = c /\ \A s \in Threads \ {t} : call'[s] = call[s]
  BY <1>1
<1>3. TypeOK'
  BY <1>0, <1>1 DEF IInv, TypeOK, data, process
<1>4. CallsOK'
  BY <1>2 DEF IInv, CallsOK, CallOK, HasScheduler, data
<1>5. OnePerName' /\ StatesOK' /\ NothingEarly'
  BY <1>0 DEF IInv, OnePerName, StatesOK, NothingEarly, HasScheduler, data
<1>6. WaitersOK'
  <2> SUFFICES ASSUME NEW n \in Names, loading[n] # NoRec
               PROVE  \E s \in Threads : call'[s].rec = loading[n] /\ call'[s].pc \in Awaiting
    BY DEF WaitersOK, data
  <2>1. PICK s \in Threads : call[s].rec = loading[n] /\ call[s].pc \in Awaiting
    BY DEF IInv, WaitersOK
  <2>2. CASE s # t
    BY <1>2, <2>1, <2>2
  <2>3. CASE s = t
    <3>1. ~ HasScheduler(loading[n])
      BY DEF IInv, StatesOK, HasScheduler
    <3> QED
      BY <1>2, <2>1, <2>3, <3>1 DEF CallOK
  <2> QED
    BY <2>2, <2>3
<1>7. DeathsOK'
  BY DEF IInv, DeathsOK, data, process
<1>8. CountsOK'
  <2>1. \A r \in Recs, d \in Clients : Counted(r, d) => Counted(r, d)'
    BY <1>1, ReturningSame DEF Counted, data
  <2>2. Gone' = Gone
    BY DEF Gone, Buried, data, process
  <2> QED
    BY <2>1, <2>2 DEF IInv, TypeOK, CountsOK, data
<1>9. StartsOK'
  BY <1>2 DEF IInv, StartsOK, data
<1> QED
  BY <1>0, <1>3, <1>4, <1>5, <1>6, <1>7, <1>8, <1>9 DEF IInv

\* AcquireLock keeps the inductive invariant.
LEMMA AcquireLockKeeps ==
    ASSUME IInv, NEW t \in Threads, NEW a \in env.asks, AcquireLock(t, a[1], a[2])
    PROVE  IInv'
<1> DEFINE c == [Idle EXCEPT !.pc = "find", !.name = a[1], !.client = a[2]]
<1>1. c \in Calls /\ c.pc = "find" /\ c.name \in Names /\ ~c.ok
  BY AsksOK, IdleCall DEF IInv, Calls
<1>2. call' = [call EXCEPT ![t] = c] /\ call[t].pc = "idle"
  BY DEF AcquireLock
<1>3. LockStep(t) /\ mutex' = t /\ timedOut' \subseteq Recs /\ UNCHANGED <<data, process, killed, held>>
  BY DEF AcquireLock, IInv, TypeOK, history, LockStep
<1> HIDE DEF c
<1> QED
  BY <1>1, <1>2, <1>3, CallOnly DEF CallOK, Waiting, Awaiting, Looking, Handing

\* RestartLock keeps the inductive invariant.
LEMMA RestartLockKeeps ==
    ASSUME IInv, NEW t \in Threads, RestartLock(t)
    PROVE  IInv'
<1> DEFINE c == [call[t] EXCEPT !.pc = "find"]
<1>1. c \in Calls /\ c.pc = "find" /\ c.name \in Names /\ ~c.ok
  BY DEF IInv, TypeOK, Calls, CallsOK, CallOK, RestartLock
<1>2. call' = [call EXCEPT ![t] = c] /\ call[t].pc = "restart"
  BY DEF RestartLock
<1>3. LockStep(t) /\ mutex' = t /\ timedOut' \subseteq Recs /\ UNCHANGED <<data, process, killed, held>>
  BY DEF RestartLock, IInv, TypeOK, history, LockStep
<1> HIDE DEF c
<1> QED
  BY <1>1, <1>2, <1>3, CallOnly DEF CallOK, Waiting, Awaiting, Looking, Handing

\* AcquireFind keeps the inductive invariant: a name that is not loaded stays so
\* while the thread has mutex_.
LEMMA AcquireFindKeeps ==
    ASSUME IInv, NEW t \in Threads, AcquireFind(t)
    PROVE  IInv'
<1> DEFINE n == call[t].name
           r == loaded[n]
           pc == IF r = NoRec THEN "load" ELSE "loaded"
           c == [call[t] EXCEPT !.pc = pc, !.rec = r]
<1>1. call[t].pc = "find" /\ n \in Names /\ r \in Recs \cup {NoRec} /\ call[t] \in Calls /\ ~call[t].ok
  BY DEF AcquireFind, IInv, TypeOK, CallsOK, CallOK
<1>2. call' = [call EXCEPT ![t] = c]
  BY DEF AcquireFind
<1>3. /\ pc \in {"load", "loaded"} /\ (pc = "load" => r = NoRec)
      /\ pc = "loaded" => r \in Recs /\ HasScheduler(r) /\ name[r] = n
  BY <1>1 DEF IInv, StatesOK, OnePerName
<1>4. LockStep(t) /\ mutex' = mutex /\ intruded' = intruded /\ timedOut' \subseteq Recs
      /\ UNCHANGED <<data, process, killed, held>>
  BY DEF AcquireFind, IInv, TypeOK, history, LockStep
<1>5. n \notin intruded => mutex = t
  BY <1>1 DEF IInv, LockOK, Looking
<1> HIDE DEF pc
<1>6. c \in Calls /\ c.pc = pc /\ c.name = n /\ c.rec = r /\ ~c.ok
  BY <1>1, <1>3 DEF Calls
<1> HIDE DEF c
<1>7. CallOK(c)
  BY <1>1, <1>3, <1>6 DEF CallOK, Waiting, Handing, HasScheduler
<1> QED
  BY <1>1, <1>2, <1>3, <1>4, <1>5, <1>6, <1>7, CallOnly DEF Awaiting, Looking, Handing

\* AcquireRefused keeps the inductive invariant.
LEMMA AcquireRefusedKeeps ==
    ASSUME IInv, NEW t \in Threads, AcquireRefused(t)
    PROVE  IInv'
<1> DEFINE c == [call[t] EXCEPT !.pc = "return"]
<1>1. call' = [call EXCEPT ![t] = c] /\ call[t].pc = "load" /\ call[t] \in Calls
        /\ call[t].name \in Names /\ ~call[t].ok
  BY DEF AcquireRefused, IInv, TypeOK, CallsOK, CallOK
<1>2. LockStep(t) /\ mutex' = mutex /\ intruded' = intruded /\ timedOut' \subseteq Recs
      /\ UNCHANGED <<data, process, killed, held>>
  BY DEF AcquireRefused, IInv, TypeOK, history, LockStep
<1>3. c \in Calls /\ c.pc = "return" /\ c.name \in Names /\ ~c.ok
  BY <1>1 DEF Calls
<1> HIDE DEF c
<1> QED
  BY <1>1, <1>2, <1>3, CallOnly DEF CallOK, Waiting, Awaiting, Looking, Handing

\* AcquireJoin keeps the inductive invariant.
LEMMA AcquireJoinKeeps ==
    ASSUME IInv, NEW t \in Threads, AcquireJoin(t)
    PROVE  IInv'
<1> DEFINE r == loading[call[t].name]
           c == [call[t] EXCEPT !.pc = "enter", !.rec = r]
<1>1. call[t].pc = "load" /\ call[t] \in Calls /\ call[t].name \in Names /\ ~call[t].ok
        /\ r \in Recs /\ name[r] = call[t].name /\ state[r] # "NONE"
  <2>1. call[t].pc = "load" /\ call[t] \in Calls /\ r # NoRec
    BY DEF AcquireJoin, IInv, TypeOK
  <2>2. call[t].name \in Names /\ ~call[t].ok
    BY <2>1 DEF IInv, CallsOK, CallOK
  <2>3. r \in Recs /\ name[r] = call[t].name
    BY <2>1, <2>2 DEF IInv, TypeOK, OnePerName
  <2>4. state[r] \in {"INITIAL", "ACTIVATING"}
    BY <2>1, <2>2 DEF IInv, StatesOK
  <2> QED
    BY <2>1, <2>2, <2>3, <2>4
<1>2. call' = [call EXCEPT ![t] = c]
  BY DEF AcquireJoin
<1>3. LockStep(t) /\ mutex' = mutex /\ intruded' = intruded /\ timedOut' \subseteq Recs
      /\ UNCHANGED <<data, process, killed, held>>
  BY DEF AcquireJoin, IInv, TypeOK, history, LockStep
<1> HIDE DEF r
<1>4. c \in Calls /\ c.pc = "enter" /\ c.name = call[t].name /\ c.rec = r /\ ~c.ok
  BY <1>1 DEF Calls
<1> HIDE DEF c
<1> QED
  BY <1>1, <1>2, <1>3, <1>4, CallOnly DEF CallOK, Waiting, Awaiting, Looking, Handing

\* EnterWait keeps the inductive invariant: it unlocks mutex_, whoever holds it.
LEMMA EnterWaitKeeps ==
    ASSUME IInv, NEW t \in Threads, EnterWait(t)
    PROVE  IInv'
<1> DEFINE pc == IF state[call[t].rec] = "ACTIVE" THEN "loaded" ELSE "wait"
           c == [call[t] EXCEPT !.pc = pc]
<1>1. call[t].pc = "enter" /\ call[t] \in Calls /\ call[t].name \in Names /\ ~call[t].ok
        /\ call[t].rec \in Recs /\ name[call[t].rec] = call[t].name /\ state[call[t].rec] # "NONE"
  BY DEF EnterWait, IInv, TypeOK, CallsOK, CallOK, Waiting
<1>2. pc \in {"loaded", "wait"} /\ (pc = "loaded" => HasScheduler(call[t].rec))
  BY <1>1 DEF IInv, DeathsOK, HasScheduler
<1>3. call' = [call EXCEPT ![t] = c]
  BY DEF EnterWait
<1>4. LockStep(t) /\ timedOut' \subseteq Recs /\ UNCHANGED <<data, process, killed, held>>
  BY DEF EnterWait, IInv, TypeOK, LockStep
<1> HIDE DEF pc
<1>5. c \in Calls /\ c.pc = pc /\ c.name = call[t].name /\ c.rec = call[t].rec /\ ~c.ok
  BY <1>1, <1>2 DEF Calls
<1> HIDE DEF c
<1>6. CallOK(c)
  BY <1>1, <1>2, <1>5 DEF CallOK, Waiting, Handing
<1> QED
  BY <1>1, <1>2, <1>3, <1>4, <1>5, <1>6, CallOnly DEF Awaiting, Looking, Handing

\* WaitForLoaded keeps the inductive invariant.
LEMMA WaitForLoadedKeeps ==
    ASSUME IInv, NEW t \in Threads, WaitForLoaded(t)
    PROVE  IInv'
<1> DEFINE pc == IF HasScheduler(call[t].rec) THEN "loaded" ELSE "failed"
           c == [call[t] EXCEPT !.pc = pc]
<1>1. pc \in {"loaded", "failed"} /\ (pc = "loaded" => HasScheduler(call[t].rec))
  OBVIOUS
<1>2. call' = [call EXCEPT ![t] = c] /\ call[t].pc = "wait"
  BY DEF WaitForLoaded
<1> HIDE DEF pc
<1>3. c \in Calls /\ c.pc = pc /\ c.name = call[t].name /\ c.rec = call[t].rec /\ c.ok = call[t].ok
  <2>1. call[t] \in Calls
    BY DEF IInv, TypeOK
  <2> QED
    BY <1>1, <2>1 DEF Calls
<1>4. LockStep(t) /\ timedOut' \subseteq Recs /\ UNCHANGED <<data, process, killed, held>>
  BY DEF WaitForLoaded, IInv, TypeOK, history, LockStep
<1> HIDE DEF c
<1>5. CallOK(c)
  BY <1>1, <1>2, <1>3 DEF IInv, CallsOK, CallOK, Waiting, Handing
<1> QED
  BY <1>1, <1>2, <1>3, <1>4, <1>5, CallOnly DEF Awaiting, Looking, Handing

\* GiveUp keeps the inductive invariant.
LEMMA GiveUpKeeps ==
    ASSUME IInv, NEW t \in Threads, GiveUp(t)
    PROVE  IInv'
<1>1. LockStep(t) /\ timedOut' \subseteq Recs /\ UNCHANGED <<data, process, killed, held>>
  BY DEF GiveUp, IInv, TypeOK, CallsOK, CallOK, Waiting, LockStep
<1>2. call' = [call EXCEPT ![t] = Idle] /\ call[t].pc = "giveUp"
  BY DEF GiveUp
<1> QED
  BY <1>1, <1>2, IdleCall, CallOnly DEF CallOK, Waiting, Awaiting, Looking, Handing

\* AcquireStart keeps the inductive invariant: the new record is nobody's yet.
LEMMA AcquireStartKeeps ==
    ASSUME IInv, NEW t \in Threads, AcquireStart(t)
    PROVE  IInv'
<1> DEFINE n == call[t].name
           r == NewRecord
           c == [call[t] EXCEPT !.pc = "insert", !.rec = r]
<1>1. n \in Names /\ call[t].pc = "load" /\ ~call[t].ok
  BY DEF AcquireStart, IInv, CallsOK, CallOK
<1>2. r \in Recs /\ state[r] = "NONE"
  BY NewIsFresh DEF AcquireStart
<1>3. /\ name' = [name EXCEPT ![r] = n]
      /\ state' = [state EXCEPT ![r] = "INITIAL"] /\ alive' = alive \cup {r}
      /\ UNCHANGED <<mutex, loaded, loading, attached, clients, watched, env, deaths, obituaries,
                     deadClients, history>>
  BY DEF AcquireStart
<1>4. call' = [call EXCEPT ![t] = c]
  BY DEF AcquireStart
<1>5. call[t] \in Calls
  BY DEF IInv, TypeOK
<1> HIDE DEF r
<1>6. c \in Calls /\ c.pc = "insert" /\ c.name = n /\ c.rec = r /\ ~c.ok
  BY <1>1, <1>2, <1>5 DEF Calls
<1> HIDE DEF c
<1>7. call'[t] = c /\ \A s \in Threads \ {t} : call'[s] = call[s]
  BY <1>4 DEF IInv, TypeOK
<1>8. \A m \in Names : loaded[m] # r /\ loading[m] # r
  BY <1>2, ClientAssumption DEF IInv, StatesOK, HasScheduler
<1>9. TypeOK'
  BY <1>1, <1>2, <1>3, <1>4, <1>6 DEF IInv, TypeOK, history
<1>10. OnePerName'
  BY <1>1, <1>2, <1>3, <1>8 DEF IInv, TypeOK, OnePerName, history
<1>11. /\ \A q \in Recs \ {r} : state'[q] = state[q] /\ name'[q] = name[q]
       /\ state'[r] = "INITIAL" /\ name'[r] = n
  BY <1>2, <1>3 DEF IInv, TypeOK
<1>12. \A s \in Threads \ {t} : call[s].pc \in Waiting \/ Handing(call[s]) => call[s].rec \in Recs \ {r}
  BY <1>2 DEF IInv, CallsOK, CallOK, HasScheduler
<1>13. CallsOK'
  <2>1. \A s \in Threads \ {t} : CallOK(call[s])'
    BY <1>3, <1>7, <1>11, <1>12 DEF IInv, CallsOK, CallOK, Waiting, Handing, HasScheduler
  <2>2. CallOK(call[t])'
    BY <1>1, <1>2, <1>6, <1>7, <1>11 DEF CallOK, Handing
  <2> QED
    BY <2>1, <2>2 DEF CallsOK
<1>14. StatesOK'
  <2>1. \A m \in Names : loading[m] # NoRec => loading[m] \in Recs \ {r}
    BY <1>8 DEF IInv, TypeOK
  <2>2. \A m \in Names : loaded[m] # NoRec => loaded[m] \in Recs \ {r}
    BY <1>8 DEF IInv, TypeOK
  <2>3. \A m \in Names : loading[m] # NoRec => state'[loading[m]] \in {"INITIAL", "ACTIVATING"}
    BY <1>11, <2>1 DEF IInv, StatesOK
  <2>4. \A m \in Names : loaded[m] # NoRec => state'[loaded[m]] = "ACTIVE" /\ loaded[m] \in attached
    BY <1>11, <2>2 DEF IInv, StatesOK, HasScheduler
  <2> QED
    BY <1>3, <2>3, <2>4 DEF StatesOK, HasScheduler
<1>15. WaitersOK'
  BY <1>1, <1>3, <1>7 DEF IInv, WaitersOK, Awaiting
<1>16. LockOK'
  <2>1. n \notin intruded => mutex = t /\ loaded[n] = NoRec
    BY <1>1 DEF IInv, LockOK, Looking
  <2> QED
    BY <1>3, <1>4, <1>6, <2>1, LockKept DEF LockStep, history
<1>17. StartsOK'
  <2>1. \A s \in Threads \ {t} : call[s].pc = "insert" => call[s].rec \in Recs \ {r}
    BY <1>12 DEF Waiting
  <2> QED
    BY <1>3, <1>6, <1>7, <1>8, <1>11, <2>1 DEF IInv, StartsOK
<1>18. DeathsOK'
  BY <1>2, <1>3 DEF IInv, TypeOK, DeathsOK
<1>19. NothingEarly'
  BY <1>2, <1>3 DEF IInv, TypeOK, NothingEarly, history
<1>20. CountsOK'
  <2>1. Gone \subseteq Gone'
    BY <1>2, <1>3, GoneStays DEF IInv, DeathsOK
  <2>2. \A q \in Recs, d \in Clients : Counted(q, d) => Counted(q, d)'
    BY <1>1, <1>3, <1>4, <1>6, ReturningSame DEF IInv, TypeOK, Counted, history, Handing
  <2> QED
    BY <1>3, <2>1, <2>2 DEF IInv, TypeOK, CountsOK
<1> QED
  BY <1>9, <1>10, <1>13, <1>14, <1>15, <1>16, <1>17, <1>18, <1>19, <1>20 DEF IInv

\* AcquireInsert keeps the inductive invariant: a thread that still has mutex_ finds
\* the name as it was when it looked.
LEMMA AcquireInsertKeeps ==
    ASSUME IInv, NEW t \in Threads, AcquireInsert(t)
    PROVE  IInv'
<1> DEFINE n == call[t].name
           r == call[t].rec
<1>1. call[t].pc = "insert" /\ call[t] \in Calls /\ n \in Names /\ ~call[t].ok
        /\ r \in Recs /\ name[r] = n /\ state[r] = "INITIAL"
  BY DEF AcquireInsert, IInv, TypeOK, CallsOK, CallOK, Waiting, StartsOK
<1>2. CASE loading[n] # NoRec
  <2> DEFINE c == [call[t] EXCEPT !.pc = "return"]
  <2>1. call' = [call EXCEPT ![t] = c] /\ UNCHANGED loading
    BY <1>2 DEF AcquireInsert
  <2>2. LockStep(t) /\ mutex' = mutex /\ intruded' = intruded /\ timedOut' \subseteq Recs
        /\ UNCHANGED <<data, process, killed, held>>
    BY <2>1 DEF AcquireInsert, IInv, TypeOK, history, data, LockStep
  <2>3. c \in Calls /\ c.pc = "return" /\ c.name \in Names /\ ~c.ok
    BY <1>1 DEF Calls
  <2> HIDE DEF c
  <2> QED
    BY <1>1, <2>1, <2>2, <2>3, CallOnly DEF CallOK, Waiting, Awaiting, Looking, Handing
<1>3. CASE loading[n] = NoRec
  <2> DEFINE c == [call[t] EXCEPT !.pc = "enter"]
  <2>1. /\ loading' = [loading EXCEPT ![n] = r] /\ call' = [call EXCEPT ![t] = c]
        /\ UNCHANGED <<mutex, loaded, name, state, attached, clients, watched, process, history>>
    BY <1>3 DEF AcquireInsert
  <2>2. c \in Calls /\ c.pc = "enter" /\ c.name = n /\ c.rec = r /\ ~c.ok
    BY <1>1 DEF Calls
  <2> HIDE DEF c
  <2>3. call'[t] = c /\ \A s \in Threads \ {t} : call'[s] = call[s]
    BY <2>1 DEF IInv, TypeOK
  <2>4. loading'[n] = r /\ \A m \in Names \ {n} : loading'[m] = loading[m]
    BY <1>1, <2>1 DEF IInv, TypeOK
  <2>5. TypeOK'
    BY <1>1, <2>1, <2>2 DEF IInv, TypeOK, process, history
  <2>6. OnePerName'
    <3>1. n \notin intruded => loaded[n] = NoRec
      BY <1>1 DEF IInv, LockOK, Looking
    <3> QED
      BY <1>1, <2>1, <2>4, <3>1 DEF IInv, OnePerName, history
  <2>7. CallsOK'
    BY <1>1, <2>1, <2>2, <2>3 DEF IInv, CallsOK, CallOK, Waiting, Handing, HasScheduler
  <2>8. StatesOK'
    BY <1>1, <2>1, <2>4 DEF IInv, StatesOK, HasScheduler
  <2>9. WaitersOK'
    <3> SUFFICES ASSUME NEW m \in Names, loading'[m] # NoRec
                 PROVE  \E s \in Threads : call'[s].rec = loading'[m] /\ call'[s].pc \in Awaiting
      BY DEF WaitersOK
    <3>1. CASE m = n
      BY <2>2, <2>3, <2>4, <3>1 DEF Awaiting
    <3>2. CASE m # n
      <4>1. PICK s \in Threads : call[s].rec = loading[m] /\ call[s].pc \in Awaiting
        BY <2>4, <3>2 DEF IInv, WaitersOK
      <4> QED
        BY <1>1, <2>3, <2>4, <3>2, <4>1 DEF Awaiting
    <3> QED
      BY <3>1, <3>2
  <2>10. LockOK'
    BY <2>1, <2>2, LockKept DEF LockStep, Looking, history
  <2>11. StartsOK'
    BY <1>1, <2>1, <2>2, <2>3, <2>4 DEF IInv, StartsOK
  <2>12. DeathsOK' /\ NothingEarly'
    BY <2>1 DEF IInv, DeathsOK, NothingEarly, process, history
  <2>13. CountsOK'
    <3>1. Gone' = Gone
      BY <2>1 DEF Gone, Buried, process
    <3>2. \A q \in Recs, d \in Clients : Counted(q, d) => Counted(q, d)'
      BY <1>1, <2>1, <2>2, ReturningSame DEF IInv, TypeOK, Counted, history, Handing
    <3> QED
      BY <2>1, <3>1, <3>2 DEF IInv, TypeOK, CountsOK
  <2> QED
    BY <2>5, <2>6, <2>7, <2>8, <2>9, <2>10, <2>11, <2>12, <2>13 DEF IInv
<1> QED
  BY <1>2, <1>3

\* LoadFailed keeps the inductive invariant: it takes away at most the load its
\* own thread waited for, or one of the same name.
LEMMA LoadFailedKeeps ==
    ASSUME IInv, NEW t \in Threads, LoadFailed(t)
    PROVE  IInv'
<1> DEFINE n == call[t].name
           c == [call[t] EXCEPT !.pc = "giveUp"]
<1>1. call[t].pc = "failed" /\ n \in Names /\ call[t].rec \in Recs /\ name[call[t].rec] = n
  BY DEF LoadFailed, IInv, CallsOK, CallOK, Waiting
<1>2. /\ loading' = [loading EXCEPT ![n] = NoRec] /\ call' = [call EXCEPT ![t] = c]
      /\ UNCHANGED <<mutex, loaded, name, state, attached, clients, watched, process, history>>
  BY DEF LoadFailed
<1>3. c \in Calls /\ c.pc = "giveUp" /\ c.name = n /\ c.rec = call[t].rec /\ c.ok = call[t].ok
  <2>1. call[t] \in Calls
    BY DEF IInv, TypeOK
  <2> QED
    BY <2>1 DEF Calls
<1> HIDE DEF c
<1>4. call'[t] = c /\ \A s \in Threads \ {t} : call'[s] = call[s]
  BY <1>2 DEF IInv, TypeOK
<1>5. TypeOK'
  BY <1>1, <1>2, <1>3 DEF IInv, TypeOK, process, history
<1>6. OnePerName' /\ StatesOK'
  BY <1>1, <1>2 DEF IInv, TypeOK, OnePerName, StatesOK, HasScheduler, history
<1>7. CallsOK'
  BY <1>1, <1>2, <1>3, <1>4 DEF IInv, CallsOK, CallOK, Waiting, Handing, HasScheduler
<1>8. WaitersOK'
  <2> SUFFICES ASSUME NEW m \in Names, loading'[m] # NoRec
               PROVE  \E s \in Threads : call'[s].rec = loading'[m] /\ call'[s].pc \in Awaiting
    BY DEF WaitersOK
  <2>1. m # n /\ loading'[m] = loading[m]
    BY <1>1, <1>2 DEF IInv, TypeOK
  <2>2. PICK s \in Threads : call[s].rec = loading[m] /\ call[s].pc \in Awaiting
    BY <2>1 DEF IInv, WaitersOK
  <2>3. s # t
    BY <1>1, <2>1, <2>2 DEF IInv, OnePerName
  <2> QED
    BY <1>4, <2>1, <2>2, <2>3
<1>9. DeathsOK' /\ NothingEarly'
  BY <1>2 DEF IInv, DeathsOK, NothingEarly, process, history
<1>10. CountsOK'
  <2>1. Gone' = Gone
    BY <1>2 DEF Gone, Buried, process
  <2>2. \A q \in Recs, d \in Clients : Counted(q, d) => Counted(q, d)'
    BY <1>1, <1>2, <1>3, ReturningSame DEF IInv, TypeOK, Counted, history, Handing
  <2> QED
    BY <1>2, <2>1, <2>2 DEF IInv, TypeOK, CountsOK
<1>11. LockOK'
  BY <1>2, <1>3, LockKept DEF LockStep, Looking, history
<1>12. StartsOK'
  <2> SUFFICES ASSUME NEW s \in Threads, call'[s].pc = "insert"
               PROVE  /\ state'[call'[s].rec] = "INITIAL"
                      /\ \A m \in Names : loading'[m] # call'[s].rec
                      /\ \A u \in Threads \ {s} : call'[u].pc = "insert" => call'[u].rec # call'[s].rec
    BY DEF StartsOK
  <2>1. s # t /\ call'[s] = call[s] /\ \A u \in Threads : call'[u].pc = "insert" => u # t /\ call'[u] = call[u]
    BY <1>3, <1>4
  <2>2. call[s].rec \in Recs /\ call[s].rec # NoRec
    BY <2>1, ClientAssumption DEF IInv, CallsOK, CallOK, Waiting
  <2>3. \A m \in Names : loading'[m] = loading[m] \/ loading'[m] = NoRec
    BY <1>2 DEF IInv, TypeOK
  <2>4. /\ state[call[s].rec] = "INITIAL"
        /\ \A m \in Names : loading[m] # call[s].rec
        /\ \A u \in Threads \ {s} : call[u].pc = "insert" => call[u].rec # call[s].rec
    BY <2>1 DEF IInv, StartsOK
  <2> QED
    BY <1>2, <2>1, <2>2, <2>3, <2>4
<1> QED
  BY <1>5, <1>6, <1>7, <1>8, <1>9, <1>10, <1>11, <1>12 DEF IInv

\* A call that is about to return a scheduler counts one more for its client.
LEMMA ReturningUp ==
    ASSUME NEW t \in Threads, NEW c \in Calls, call[t].pc # "return", c.pc = "return", c.ok = TRUE,
           call \in [Threads -> Calls], call' = [call EXCEPT ![t] = c], NEW r, NEW d
    PROVE  /\ r = c.rec /\ d = c.client => Returning(r, d)' = Returning(r, d) + 1
           /\ r # c.rec \/ d # c.client => Returning(r, d)' = Returning(r, d)
<1> DEFINE S == {s \in Threads : call[s].pc = "return" /\ call[s].ok /\ call[s].rec = r /\ call[s].client = d}
           SP == {s \in Threads : call'[s].pc = "return" /\ call'[s].ok /\ call'[s].rec = r /\ call'[s].client = d}
<1>1. call'[t] = c /\ \A s \in Threads \ {t} : call'[s] = call[s]
  OBVIOUS
<1>2. IsFiniteSet(S) /\ t \notin S
  BY BoundAssumption, FS_Subset
<1>3. CASE r = c.rec /\ d = c.client
  <2>1. SP = S \cup {t}
    BY <1>1, <1>3
  <2>2. Cardinality(S \cup {t}) = Cardinality(S) + 1
    BY <1>2, FS_AddElement
  <2> QED
    BY <1>3, <2>1, <2>2 DEF Returning
<1>4. CASE ~ (r = c.rec /\ d = c.client)
  <2>1. SP = S
    BY <1>1, <1>4
  <2> QED
    BY <1>4, <2>1 DEF Returning
<1> QED
  BY <1>3, <1>4

\* A call that has returned its scheduler counts one less.
LEMMA ReturningDown ==
    ASSUME NEW t \in Threads, NEW c, call[t].pc = "return", c.pc # "return",
           call \in [Threads -> Calls], call' = [call EXCEPT ![t] = c], NEW r, NEW d
    PROVE  /\ call[t].ok /\ r = call[t].rec /\ d = call[t].client => Returning(r, d) = Returning(r, d)' + 1
           /\ ~ call[t].ok \/ r # call[t].rec \/ d # call[t].client => Returning(r, d)' = Returning(r, d)
<1> DEFINE S == {s \in Threads : call[s].pc = "return" /\ call[s].ok /\ call[s].rec = r /\ call[s].client = d}
           SP == {s \in Threads : call'[s].pc = "return" /\ call'[s].ok /\ call'[s].rec = r /\ call'[s].client = d}
<1>1. call'[t] = c /\ \A s \in Threads \ {t} : call'[s] = call[s]
  OBVIOUS
<1>2. IsFiniteSet(SP) /\ t \notin SP
  BY <1>1, BoundAssumption, FS_Subset
<1>3. CASE call[t].ok /\ r = call[t].rec /\ d = call[t].client
  <2>1. S = SP \cup {t}
    BY <1>1, <1>3
  <2>2. Cardinality(SP \cup {t}) = Cardinality(SP) + 1
    BY <1>2, FS_AddElement
  <2> QED
    BY <1>3, <2>1, <2>2 DEF Returning
<1>4. CASE ~ (call[t].ok /\ r = call[t].rec /\ d = call[t].client)
  <2>1. S = SP
    BY <1>1, <1>4
  <2> QED
    BY <1>4, <2>1 DEF Returning
<1> QED
  BY <1>3, <1>4

\* AcquireResumed keeps the inductive invariant: what the thread saw when it was
\* woken still holds, so it adds its client.
LEMMA AcquireResumedKeeps ==
    ASSUME IInv, NEW t \in Threads, AcquireResumed(t)
    PROVE  IInv'
<1> DEFINE r == call[t].rec
           c == call[t].client
           ok == HasScheduler(r)
           after == [call[t] EXCEPT !.pc = "return", !.ok = ok]
<1>1. call[t].pc = "loaded" /\ call[t] \in Calls /\ c \in Clients \cup {NoClient}
  BY DEF AcquireResumed, IInv, TypeOK, Calls
<1>2. r \in Recs /\ HasScheduler(r) /\ name[r] = call[t].name /\ call[t].name \in Names
        /\ state[r] # "NONE" /\ ok /\ ok \in BOOLEAN
  BY <1>1 DEF IInv, CallsOK, CallOK, Waiting
<1>3. /\ AddClient(r, c) /\ call' = [call EXCEPT ![t] = after]
      /\ UNCHANGED <<mutex, loaded, loading, name, state, attached, process, history>>
  BY <1>2 DEF AcquireResumed
<1> HIDE DEF ok
<1>4. after \in Calls /\ after.pc = "return" /\ after.rec = r /\ after.client = c /\ after.ok = TRUE
        /\ after.name = call[t].name
  BY <1>1, <1>2 DEF Calls
<1> HIDE DEF after
<1>5. call'[t] = after /\ \A s \in Threads \ {t} : call'[s] = call[s]
  BY <1>3 DEF IInv, TypeOK
<1>6. /\ clients' \in [Recs -> [Clients -> Nat]] /\ watched' \in [Recs -> SUBSET Clients]
      /\ \A q \in Recs, d \in Clients : q # r \/ d # c => clients'[q][d] = clients[q][d]
      /\ c \in Clients => clients'[r][c] = clients[r][c] + 1
  <2>1. clients \in [Recs -> [Clients -> Nat]] /\ watched \in [Recs -> SUBSET Clients]
    BY DEF IInv, TypeOK
  <2>2. CASE c = NoClient
    BY <1>3, <2>1, <2>2, ClientAssumption DEF AddClient
  <2>3. CASE c # NoClient
    <3>1. /\ clients' = [clients EXCEPT ![r][c] = clients[r][c] + 1]
          /\ watched' = [watched EXCEPT ![r] = IF c \in deadClients THEN watched[r] ELSE watched[r] \cup {c}]
      BY <1>3, <2>3 DEF AddClient
    <3> HIDE DEF r, c
    <3>2. c \in Clients /\ clients[r][c] + 1 \in Nat
      BY <1>1, <1>2, <2>1, <2>3
    <3>3. watched' \in [Recs -> SUBSET Clients]
      BY <1>2, <2>1, <3>1, <3>2
    <3> QED
      BY <1>2, <2>1, <3>1, <3>2, <3>3, EntrySet
  <2> QED
    BY <2>2, <2>3
<1>7. TypeOK'
  BY <1>3, <1>4, <1>6 DEF IInv, TypeOK, process, history
<1>8. CallsOK'
  <2>1. CallOK(call[t])'
    BY <1>2, <1>3, <1>4, <1>5 DEF CallOK, Handing, HasScheduler
  <2>2. \A s \in Threads : CallOK(call[s]) => CallOK(call[s])' \/ s = t
    BY <1>3, <1>5 DEF CallOK, Handing, HasScheduler
  <2> QED
    BY <2>1, <2>2 DEF IInv, CallsOK
<1>9. OnePerName' /\ StatesOK'
  BY <1>3 DEF IInv, OnePerName, StatesOK, HasScheduler, history
<1>10. WaitersOK'
  BY <1>1, <1>3, <1>5 DEF IInv, WaitersOK, Awaiting
<1>11. DeathsOK'
  BY <1>3 DEF IInv, DeathsOK, process
<1>12. NothingEarly'
  BY <1>2, <1>3, <1>6 DEF IInv, NothingEarly, HasScheduler, history
<1>13. CountsOK'
  <2>1. Gone' = Gone
    BY <1>3 DEF Gone, Buried, process
  <2>2. \A q \in Recs, d \in Clients :
            /\ q = r /\ d = c => Returning(q, d)' = Returning(q, d) + 1
            /\ q # r \/ d # c => Returning(q, d)' = Returning(q, d)
    <3>1. call \in [Threads -> Calls] /\ call[t].pc # "return"
      BY <1>1 DEF IInv, TypeOK
    <3>2. call' = [call EXCEPT ![t] = after] /\ r = after.rec /\ c = after.client
             /\ after \in Calls /\ after.pc = "return" /\ after.ok = TRUE
      BY <1>3, <1>4
    <3> HIDE DEF r, c
    <3> SUFFICES ASSUME NEW q \in Recs, NEW d \in Clients
                 PROVE  /\ q = after.rec /\ d = after.client => Returning(q, d)' = Returning(q, d) + 1
                        /\ q # after.rec \/ d # after.client => Returning(q, d)' = Returning(q, d)
      BY <3>2
    <3> QED
      BY <3>1, <3>2, ReturningUp
  <2>3. \A q \in Recs, d \in Clients : Counted(q, d) => Counted(q, d)'
    <3> SUFFICES ASSUME NEW q \in Recs, NEW d \in Clients, Counted(q, d)
                 PROVE  Counted(q, d)'
      OBVIOUS
    <3>1. clients[q][d] \in Nat /\ held[q][d] \in Nat /\ Returning(q, d) \in Nat
      BY ReturningNat DEF IInv, TypeOK
    <3>2. held' = held
      BY <1>3 DEF history
    <3>3. r \in Recs
      BY <1>2
    <3> HIDE DEF r, c
    <3>4. CASE q = r /\ d = c
      <4>1. clients'[q][d] = clients[q][d] + 1 /\ Returning(q, d)' = Returning(q, d) + 1
        BY <1>6, <2>2, <3>4
      <4> QED
        BY <3>1, <3>2, <4>1 DEF Counted
    <3>5. CASE ~ (q = r /\ d = c)
      BY <1>6, <2>2, <3>1, <3>2, <3>5 DEF Counted
    <3> QED
      BY <3>4, <3>5
  <2> QED
    BY <1>3, <2>1, <2>3 DEF IInv, TypeOK, CountsOK
<1>14. LockOK'
  BY <1>3, <1>4, LockKept DEF LockStep, Looking, history
<1>15. StartsOK'
  BY <1>3, <1>4, <1>5 DEF IInv, StartsOK
<1> QED
  BY <1>7, <1>8, <1>9, <1>10, <1>11, <1>12, <1>13, <1>14, <1>15 DEF IInv

\* AcquireReturn keeps the inductive invariant: the client holds what was counted
\* for it.
LEMMA AcquireReturnKeeps ==
    ASSUME IInv, NEW t \in Threads, AcquireReturn(t)
    PROVE  IInv'
<1> DEFINE r == call[t].rec
           c == call[t].client
<1>1. call[t].pc = "return" /\ call[t] \in Calls /\ c \in Clients \cup {NoClient}
      /\ call[t].ok \in BOOLEAN
  BY DEF AcquireReturn, IInv, TypeOK, Calls
<1>2. call[t].ok => r \in Recs /\ HasScheduler(r)
  BY <1>1 DEF IInv, CallsOK, CallOK, Handing
<1>3. /\ Unlock(t) /\ call' = [call EXCEPT ![t] = Idle]
      /\ IF call[t].ok THEN Grant(r, c) ELSE UNCHANGED held
      /\ UNCHANGED <<data, process, killed, timedOut>>
  BY DEF AcquireReturn
<1>4. call'[t] = Idle /\ \A s \in Threads \ {t} : call'[s] = call[s]
  BY <1>3 DEF IInv, TypeOK
<1>5. /\ held' \in [Recs -> [Clients -> Nat]]
      /\ \A q \in Recs, d \in Clients :
            held'[q][d] = IF call[t].ok /\ q = r /\ d = c THEN held[q][d] + 1 ELSE held[q][d]
  <2>1. held \in [Recs -> [Clients -> Nat]]
    BY DEF IInv, TypeOK
  <2>2. CASE c = NoClient \/ ~ call[t].ok
    <3>1. held' = held
      BY <1>3, <2>2 DEF Grant
    <3> QED
      BY <2>1, <2>2, <3>1, ClientAssumption
  <2>3. CASE c # NoClient /\ call[t].ok
    <3>1. held' = [held EXCEPT ![r][c] = held[r][c] + 1] /\ call[t].ok
      BY <1>3, <2>3 DEF Grant
    <3>2. c \in Clients
      BY <1>1, <2>3
    <3> HIDE DEF r, c
    <3>3. held[r][c] + 1 \in Nat
      BY <1>2, <2>1, <2>3, <3>2
    <3> QED
      BY <1>2, <2>1, <2>3, <3>1, <3>2, <3>3, EntrySet
  <2> QED
    BY <2>2, <2>3
<1>12. LockOK' /\ intruded \subseteq intruded' /\ intruded' \subseteq Names /\ mutex' \in Threads \cup {Free}
  BY <1>3, IdleCall, LockKept DEF LockStep, Looking, data
<1>6. TypeOK'
  BY <1>3, <1>5, <1>12, IdleCall DEF IInv, TypeOK, data, process
<1>7. CallsOK'
  <2>1. CallOK(Idle)'
    BY IdleCall DEF CallOK, Waiting, Handing
  <2>2. \A s \in Threads : CallOK(call[s]) => CallOK(call[s])' \/ s = t
    BY <1>3, <1>4 DEF CallOK, Handing, HasScheduler, data
  <2> QED
    BY <1>4, <2>1, <2>2 DEF IInv, CallsOK
<1>8. OnePerName' /\ StatesOK' /\ DeathsOK'
  BY <1>3, <1>12 DEF IInv, OnePerName, StatesOK, DeathsOK, HasScheduler, data, process
<1>9. WaitersOK'
  BY <1>1, <1>3, <1>4 DEF IInv, WaitersOK, Awaiting, data
<1>10. NothingEarly'
  BY <1>2, <1>3, <1>5 DEF IInv, NothingEarly, HasScheduler, data
<1>11. CountsOK'
  <2>1. Gone' = Gone
    BY <1>3 DEF Gone, Buried, data, process
  <2>2. \A q \in Recs, d \in Clients :
            /\ call[t].ok /\ q = r /\ d = c => Returning(q, d) = Returning(q, d)' + 1
            /\ ~ call[t].ok \/ q # r \/ d # c => Returning(q, d)' = Returning(q, d)
    <3>1. call \in [Threads -> Calls] /\ Idle.pc # "return"
      BY IdleCall DEF IInv, TypeOK
    <3> QED
      BY <1>1, <1>3, <3>1, ReturningDown
  <2>3. \A q \in Recs, d \in Clients : Counted(q, d) => Counted(q, d)'
    <3> SUFFICES ASSUME NEW q \in Recs, NEW d \in Clients, Counted(q, d)
                 PROVE  Counted(q, d)'
      OBVIOUS
    <3>1. clients[q][d] \in Nat /\ held[q][d] \in Nat /\ Returning(q, d) \in Nat
      BY ReturningNat DEF IInv, TypeOK
    <3>2. Returning(q, d)' \in Nat
      BY BoundAssumption, FS_Subset, FS_CardinalityType DEF Returning
    <3>3. clients' = clients
      BY <1>3 DEF data
    <3>4. CASE call[t].ok /\ q = r /\ d = c
      <4>1. held'[q][d] = held[q][d] + 1 /\ Returning(q, d) = Returning(q, d)' + 1
        BY <1>5, <2>2, <3>4
      <4> QED
        BY <3>1, <3>2, <3>3, <4>1 DEF Counted
    <3>5. CASE ~ (call[t].ok /\ q = r /\ d = c)
      BY <1>5, <2>2, <3>1, <3>2, <3>3, <3>5 DEF Counted
    <3> QED
      BY <3>4, <3>5
  <2> QED
    BY <1>3, <2>1, <2>3 DEF IInv, TypeOK, CountsOK, data
<1>13. StartsOK'
  <2>1. loading' = loading /\ state' = state
    BY <1>3 DEF data
  <2>2. \A s \in Threads : call'[s].pc = "insert" => s # t /\ call'[s] = call[s]
    BY <1>4, IdleCall DEF IInv, TypeOK
  <2> QED
    BY <2>1, <2>2 DEF IInv, StartsOK
<1> QED
  BY <1>6, <1>7, <1>8, <1>9, <1>10, <1>11, <1>12, <1>13 DEF IInv

\* Release keeps the inductive invariant.
LEMMA ReleaseKeeps ==
    ASSUME IInv, NEW c \in Clients, NEW r \in Recs, Release(c, r)
    PROVE  IInv'
<1>1. /\ held[r][c] > 0 /\ held' = [held EXCEPT ![r][c] = held[r][c] - 1]
      /\ clients' = IF r \in Loaded /\ HasScheduler(r) /\ clients[r][c] > 0
                       THEN [clients EXCEPT ![r][c] = clients[r][c] - 1] ELSE clients
      /\ UNCHANGED <<mutex, loaded, loading, name, state, attached, watched, call, process,
                     killed, timedOut, intruded>>
  BY DEF Release
<1>2. clients \in [Recs -> [Clients -> Nat]] /\ held \in [Recs -> [Clients -> Nat]]
  BY DEF IInv, TypeOK
<1>3. held[r][c] \in Nat /\ clients[r][c] \in Nat /\ held[r][c] - 1 \in Nat
  BY <1>1, <1>2
<1>4. /\ held' \in [Recs -> [Clients -> Nat]] /\ held'[r][c] = held[r][c] - 1
      /\ \A q \in Recs, d \in Clients : q # r \/ d # c => held'[q][d] = held[q][d]
  BY <1>1, <1>2, <1>3, EntrySet
<1>5. /\ clients' \in [Recs -> [Clients -> Nat]]
      /\ \A q \in Recs, d \in Clients : q # r \/ d # c => clients'[q][d] = clients[q][d]
      /\ r \in Loaded /\ HasScheduler(r) /\ clients[r][c] > 0 => clients'[r][c] = clients[r][c] - 1
      /\ clients'[r][c] <= clients[r][c]
  <2>1. CASE r \in Loaded /\ HasScheduler(r) /\ clients[r][c] > 0
    <3>1. clients[r][c] - 1 \in Nat
      BY <1>3, <2>1
    <3> QED
      BY <1>1, <1>2, <1>3, <2>1, <3>1, EntrySet
  <2>2. CASE ~ (r \in Loaded /\ HasScheduler(r) /\ clients[r][c] > 0)
    <3>1. clients' = clients
      BY <1>1, <2>2
    <3> QED
      BY <1>2, <1>3, <2>2, <3>1
  <2> QED
    BY <2>1, <2>2
<1>6. TypeOK'
  BY <1>1, <1>4, <1>5 DEF IInv, TypeOK, process
<1>7. CallsOK' /\ OnePerName' /\ StatesOK' /\ WaitersOK' /\ DeathsOK' /\ LockOK' /\ StartsOK'
  BY <1>1 DEF IInv, CallsOK, CallOK, OnePerName, StatesOK, WaitersOK, DeathsOK, LockOK, StartsOK,
     HasScheduler, process
<1>8. NothingEarly'
  BY <1>1, <1>3, <1>4, <1>5 DEF IInv, NothingEarly
<1>9. CountsOK'
  <2>1. Gone' = Gone /\ \A q, d : Returning(q, d)' = Returning(q, d)
    BY <1>1 DEF Gone, Buried, Returning, process
  <2> SUFFICES ASSUME NEW n \in Names, loaded[n] # NoRec, NEW d \in Clients \ Gone
               PROVE  Counted(loaded[n], d)'
    BY <1>1, <2>1 DEF CountsOK
  <2>2. Counted(loaded[n], d) /\ loaded[n] \in Recs /\ Returning(loaded[n], d) \in Nat
    BY ReturningNat DEF IInv, TypeOK, CountsOK
  <2>3. CASE loaded[n] = r /\ d = c
    <3>1. r \in Loaded /\ HasScheduler(r)
      BY <2>3, ClientAssumption DEF Loaded, IInv, StatesOK
    <3> QED
      BY <1>1, <1>3, <1>4, <1>5, <2>1, <2>2, <2>3, <3>1 DEF Counted
  <2>4. CASE ~ (loaded[n] = r /\ d = c)
    BY <1>1, <1>4, <1>5, <2>1, <2>2, <2>4 DEF Counted
  <2> QED
    BY <2>3, <2>4
<1> QED
  BY <1>6, <1>7, <1>8, <1>9 DEF IInv

\* A record that is loading is loading under its own name.
LEMMA LoadingByName ==
    ASSUME IInv, NEW r \in Loading
    PROVE  r \in Recs /\ name[r] \in Names /\ loading[name[r]] = r
<1>1. PICK n \in Names : loading[n] = r /\ r # NoRec
  BY DEF Loading
<1>2. name[r] = n /\ r \in Recs
  BY <1>1 DEF IInv, TypeOK, OnePerName
<1> QED
  BY <1>1, <1>2

\* AttachAbilityThread keeps the inductive invariant.
LEMMA AttachAbilityThreadKeeps ==
    ASSUME IInv, NEW r \in Recs, AttachAbilityThread(r)
    PROVE  IInv'
<1>1. /\ r \in Loading /\ r \notin attached /\ state[r] = "INITIAL"
      /\ attached' = attached \cup {r} /\ state' = [state EXCEPT ![r] = "ACTIVATING"]
      /\ UNCHANGED <<mutex, loaded, loading, name, clients, watched, call, process, history>>
  BY DEF AttachAbilityThread
<1>2. state'[r] = "ACTIVATING" /\ \A q \in Recs \ {r} : state'[q] = state[q]
  BY <1>1 DEF IInv, TypeOK
<1>3. TypeOK'
  BY <1>1 DEF IInv, TypeOK, process, history
<1>4. CallsOK'
  BY <1>1, <1>2 DEF IInv, CallsOK, CallOK, HasScheduler, Waiting, Handing
<1>5. OnePerName' /\ WaitersOK' /\ LockOK'
  BY <1>1 DEF IInv, OnePerName, WaitersOK, LockOK, history
<1>6. StatesOK'
  <2>1. \A n \in Names : loading'[n] # NoRec => state'[loading'[n]] \in {"INITIAL", "ACTIVATING"}
    <3> SUFFICES ASSUME NEW n \in Names, loading[n] # NoRec
                 PROVE  state'[loading[n]] \in {"INITIAL", "ACTIVATING"}
      BY <1>1
    <3>1. loading[n] \in Recs /\ state[loading[n]] \in {"INITIAL", "ACTIVATING"}
      BY DEF IInv, TypeOK, StatesOK
    <3> QED
      BY <1>2, <3>1
  <2>2. \A n \in Names : loaded'[n] # NoRec => HasScheduler(loaded[n])'
    BY <1>1, <1>2 DEF IInv, TypeOK, StatesOK, HasScheduler
  <2> QED
    BY <2>1, <2>2 DEF StatesOK
<1>7. DeathsOK'
  BY <1>1, <1>2 DEF IInv, TypeOK, DeathsOK, process
<1>8. NothingEarly'
  BY <1>1, <1>2 DEF IInv, NothingEarly, history
<1>9. CountsOK'
  <2>1. Gone \subseteq Gone'
    BY <1>1, GoneStays DEF process
  <2>2. \A q, d : Counted(q, d)' <=> Counted(q, d)
    BY <1>1 DEF Counted, Returning, history
  <2> QED
    BY <1>1, <2>1, <2>2 DEF IInv, CountsOK
<1>10. StartsOK'
  BY <1>1, <1>2, LoadingByName DEF IInv, StartsOK, CallsOK, CallOK, Waiting
<1> QED
  BY <1>3, <1>4, <1>5, <1>6, <1>7, <1>8, <1>9, <1>10 DEF IInv

\* TransitionDone keeps the inductive invariant: nobody had anything of the
\* record before.
LEMMA TransitionDoneKeeps ==
    ASSUME IInv, NEW r \in Recs, TransitionDone(r)
    PROVE  IInv'
<1> DEFINE n == name[r]
<1>1. /\ mutex = Free /\ r \in Loading /\ r \in attached /\ state[r] = "ACTIVATING"
      /\ state' = [state EXCEPT ![r] = "ACTIVE"]
      /\ loaded' = [loaded EXCEPT ![n] = r] /\ loading' = [loading EXCEPT ![n] = NoRec]
      /\ UNCHANGED <<mutex, name, attached, clients, watched, call, process, history>>
  BY DEF TransitionDone
<1>2. n \in Names /\ loading[n] = r
  BY <1>1, LoadingByName
<1>3. state'[r] = "ACTIVE" /\ \A q \in Recs \ {r} : state'[q] = state[q]
  BY <1>1 DEF IInv, TypeOK
<1>4. /\ loaded'[n] = r /\ loading'[n] = NoRec
      /\ \A m \in Names \ {n} : loaded'[m] = loaded[m] /\ loading'[m] = loading[m] /\ loading[m] # r
  <2>1. loaded'[n] = r /\ loading'[n] = NoRec
    BY <1>1, <1>2 DEF IInv, TypeOK
  <2>2. \A m \in Names \ {n} : loaded'[m] = loaded[m] /\ loading'[m] = loading[m]
    BY <1>1 DEF IInv, TypeOK
  <2>3. \A m \in Names \ {n} : loading[m] # r
    BY ClientAssumption DEF IInv, OnePerName
  <2> QED
    BY <2>1, <2>2, <2>3
<1>5. TypeOK'
  BY <1>1, <1>2 DEF IInv, TypeOK, process, history
<1>6. CallsOK'
  BY <1>1, <1>3 DEF IInv, CallsOK, CallOK, HasScheduler, Waiting, Handing
<1>7. OnePerName'
  BY <1>1, <1>2, <1>4 DEF IInv, OnePerName, history
<1>8. StatesOK'
  <2>1. \A m \in Names : loading'[m] # NoRec => state'[loading'[m]] \in {"INITIAL", "ACTIVATING"}
    <3> SUFFICES ASSUME NEW m \in Names, loading'[m] # NoRec
                 PROVE  state'[loading'[m]] \in {"INITIAL", "ACTIVATING"}
      OBVIOUS
    <3>1. loading'[m] = loading[m] /\ loading[m] # r
      BY <1>4
    <3>2. loading[m] \in Recs /\ state[loading[m]] \in {"INITIAL", "ACTIVATING"}
      BY <3>1 DEF IInv, TypeOK, StatesOK
    <3> QED
      BY <1>3, <3>1, <3>2
  <2>2. \A m \in Names : loaded'[m] # NoRec => HasScheduler(loaded[m])'
    BY <1>1, <1>3, <1>4 DEF IInv, TypeOK, StatesOK, HasScheduler
  <2> QED
    BY <2>1, <2>2 DEF StatesOK
<1>9. WaitersOK'
  BY <1>1, <1>4 DEF IInv, WaitersOK
<1>10. DeathsOK'
  BY <1>1, <1>3 DEF IInv, TypeOK, DeathsOK, process
<1>11. NothingEarly'
  BY <1>1, <1>3 DEF IInv, NothingEarly, history
<1>12. CountsOK'
  <2>1. Gone' = Gone
    BY <1>1 DEF Gone, Buried, process
  <2>2. \A q, d : Counted(q, d)' <=> Counted(q, d)
    BY <1>1 DEF Counted, Returning, history
  <2>3. \A d \in Clients : Counted(r, d)
    <3> SUFFICES ASSUME NEW d \in Clients
                 PROVE  Counted(r, d)
      OBVIOUS
    <3>1. clients[r][d] = 0 /\ held[r][d] = 0
      BY <1>1 DEF IInv, NothingEarly
    <3>2. {t \in Threads : call[t].pc = "return" /\ call[t].ok /\ call[t].rec = r /\ call[t].client = d} = {}
      BY <1>1 DEF IInv, CallsOK, CallOK, Handing, HasScheduler
    <3>3. Returning(r, d) = 0
      BY <3>2, FS_EmptySet DEF Returning
    <3> QED
      BY <3>1, <3>3 DEF Counted
  <2> QED
    BY <1>4, <2>1, <2>2, <2>3 DEF IInv, CountsOK
<1>13. LockOK'
  BY <1>1, ClientAssumption DEF IInv, LockOK, history
<1>14. StartsOK'
  BY <1>1, <1>2, <1>3, <1>4, ClientAssumption DEF IInv, StartsOK, CallsOK, CallOK, Waiting
<1> QED
  BY <1>5, <1>6, <1>7, <1>8, <1>9, <1>10, <1>11, <1>12, <1>13, <1>14 DEF IInv

\* TransitionFailed keeps the inductive invariant.
LEMMA TransitionFailedKeeps ==
    ASSUME IInv, NEW r \in Recs, TransitionFailed(r)
    PROVE  IInv'
<1>1. /\ state[r] = "ACTIVATING" /\ state' = [state EXCEPT ![r] = "INITIAL"]
      /\ UNCHANGED <<mutex, loaded, loading, name, attached, clients, watched, call, process,
                     history>>
  BY DEF TransitionFailed
<1>2. state'[r] = "INITIAL" /\ \A q \in Recs \ {r} : state'[q] = state[q]
  BY <1>1 DEF IInv, TypeOK
<1>3. TypeOK'
  BY <1>1 DEF IInv, TypeOK, process, history
<1>4. CallsOK'
  BY <1>1, <1>2 DEF IInv, CallsOK, CallOK, HasScheduler, Waiting, Handing
<1>5. OnePerName' /\ WaitersOK' /\ LockOK'
  BY <1>1 DEF IInv, OnePerName, WaitersOK, LockOK, history
<1>6. StatesOK'
  <2>1. \A n \in Names : loading'[n] # NoRec => state'[loading'[n]] \in {"INITIAL", "ACTIVATING"}
    <3> SUFFICES ASSUME NEW n \in Names, loading[n] # NoRec
                 PROVE  state'[loading[n]] \in {"INITIAL", "ACTIVATING"}
      BY <1>1
    <3>1. loading[n] \in Recs /\ state[loading[n]] \in {"INITIAL", "ACTIVATING"}
      BY DEF IInv, TypeOK, StatesOK
    <3> QED
      BY <1>2, <3>1
  <2>2. \A n \in Names : loaded'[n] # NoRec => HasScheduler(loaded[n])'
    BY <1>1, <1>2 DEF IInv, TypeOK, StatesOK, HasScheduler
  <2> QED
    BY <2>1, <2>2 DEF StatesOK
<1>7. DeathsOK'
  BY <1>1, <1>2 DEF IInv, TypeOK, DeathsOK, process
<1>8. NothingEarly'
  BY <1>1, <1>2 DEF IInv, NothingEarly, history
<1>9. CountsOK'
  <2>1. Gone' = Gone /\ \A q, d : Counted(q, d)' <=> Counted(q, d)
    BY <1>1 DEF Gone, Buried, Counted, Returning, process, history
  <2> QED
    BY <1>1, <2>1 DEF IInv, CountsOK
<1>10. StartsOK'
  BY <1>1, <1>2 DEF IInv, StartsOK, CallsOK, CallOK, Waiting
<1> QED
  BY <1>3, <1>4, <1>5, <1>6, <1>7, <1>8, <1>9, <1>10 DEF IInv

\* OnAbilityDied keeps the inductive invariant: as a client the record is gone.
LEMMA OnAbilityDiedKeeps ==
    ASSUME IInv, NEW t \in Threads, NEW r \in Recs, OnAbilityDied(t, r)
    PROVE  IInv'
<1> DEFINE n == name[r]
           known == r \in Loaded \cup Loading
<1>1. /\ call[t].pc = "idle" /\ r \in deaths /\ deaths' = deaths \ {r}
      /\ loaded' = [m \in Names |-> IF loaded[m] = r THEN NoRec ELSE loaded[m]]
      /\ UNCHANGED <<mutex, loading, name, state, attached, watched, env, alive, obituaries,
                     deadClients, timedOut, held, intruded>>
  BY DEF OnAbilityDied
<1>2. killed' \subseteq Clients
  BY ClientAssumption DEF OnAbilityDied, IInv, TypeOK
<1>3. /\ clients' \in [Recs -> [Clients -> Nat]]
      /\ \A q \in Recs, d \in Clients \ {r} : clients'[q][d] = clients[q][d]
      /\ \A q \in Recs, d \in Clients : clients[q][d] = 0 => clients'[q][d] = 0
  <2>1. clients \in [Recs -> [Clients -> Nat]]
    BY DEF IInv, TypeOK
  <2>2. CASE known /\ r \in Clients
    <3>1. clients' = [q \in Recs |-> IF q \in Loaded \ {r} THEN [clients[q] EXCEPT ![r] = 0] ELSE clients[q]]
      BY <2>2 DEF OnAbilityDied
    <3> QED
      BY <2>1, <2>2, <3>1
  <2>3. CASE ~ (known /\ r \in Clients)
    <3>1. clients' = clients
      BY <2>3 DEF OnAbilityDied
    <3> QED
      BY <2>1, <3>1
  <2> QED
    BY <2>2, <2>3
<1>4. \E c \in Calls : call' = [call EXCEPT ![t] = c] /\ CallOK(c) /\ c.pc \in {"idle", "restart"}
  <2>1. CASE known /\ n \in env.keepAlive
    <3>1. n \in Names
      <4>1. CASE r \in Loading
        BY <4>1, LoadingByName
      <4>2. CASE r \in Loaded
        <5>1. PICK m \in Names : loaded[m] = r /\ r # NoRec
          BY <4>2 DEF Loaded
        <5> QED
          BY <5>1 DEF IInv, OnePerName
      <4> QED
        BY <2>1, <4>1, <4>2
    <3> DEFINE c == [Idle EXCEPT !.pc = "restart", !.name = n]
    <3>2. c \in Calls /\ c.pc = "restart" /\ c.name = n /\ ~c.ok
      BY <3>1, IdleCall DEF Calls
    <3>3. call' = [call EXCEPT ![t] = c]
      BY <2>1 DEF OnAbilityDied
    <3> HIDE DEF c
    <3> QED
      BY <3>1, <3>2, <3>3 DEF CallOK, Waiting, Handing
  <2>2. CASE ~ (known /\ n \in env.keepAlive)
    <3>1. call' = call
      BY <2>2 DEF OnAbilityDied
    <3>2. call = [call EXCEPT ![t] = call[t]] /\ call[t] \in Calls /\ CallOK(call[t])
      BY DEF IInv, TypeOK, CallsOK
    <3> QED
      BY <1>1, <3>1, <3>2
  <2> QED
    BY <2>1, <2>2
<1>5. PICK c \in Calls : call' = [call EXCEPT ![t] = c] /\ CallOK(c) /\ c.pc \in {"idle", "restart"}
  BY <1>4
<1>6. call'[t] = c /\ \A s \in Threads \ {t} : call'[s] = call[s]
  BY <1>5 DEF IInv, TypeOK
<1>7. TypeOK'
  BY <1>1, <1>2, <1>3, <1>5 DEF IInv, TypeOK
<1>8. CallsOK'
  BY <1>1, <1>5, <1>6 DEF IInv, CallsOK, CallOK, Handing, HasScheduler
<1>9. OnePerName'
  BY <1>1 DEF IInv, OnePerName
<1>10. StatesOK'
  BY <1>1 DEF IInv, StatesOK, HasScheduler
<1>11. WaitersOK'
  <2>1. \A s \in Threads : call[s].pc \in Awaiting => call'[s] = call[s]
    BY <1>1, <1>6 DEF Awaiting
  <2> QED
    BY <1>1, <2>1 DEF IInv, WaitersOK
<1>12. DeathsOK'
  BY <1>1 DEF IInv, DeathsOK
<1>13. NothingEarly'
  BY <1>1, <1>3 DEF IInv, NothingEarly
<1>14. CountsOK'
  <2>1. Gone \subseteq Gone'
    BY <1>1, GoneStays
  <2>2. r \in Gone'
    BY <1>1 DEF IInv, DeathsOK, Gone, Buried
  <2>3. \A q, d : Returning(q, d)' = Returning(q, d)
    BY <1>1, <1>5, ReturningSame DEF IInv, TypeOK, Handing
  <2>4. \A q \in Recs, d \in Clients \ {r} : Counted(q, d) => Counted(q, d)'
    BY <1>1, <1>3, <2>3 DEF Counted
  <2> QED
    BY <1>1, <2>1, <2>2, <2>4 DEF IInv, TypeOK, CountsOK
<1>15. LockOK'
  <2>1. \A m \in Names : loaded[m] = NoRec => loaded'[m] = NoRec
    BY <1>1
  <2> QED
    BY <1>1, <1>5, <2>1, LockKept DEF LockStep, Looking
<1>16. StartsOK'
  BY <1>1, <1>5, <1>6 DEF IInv, StartsOK
<1> QED
  BY <1>7, <1>8, <1>9, <1>10, <1>11, <1>12, <1>13, <1>14, <1>15, <1>16 DEF IInv

\* OnClientDied keeps the inductive invariant: the client is dead.
LEMMA OnClientDiedKeeps ==
    ASSUME IInv, NEW r \in Recs, NEW c \in Clients, OnClientDied(r, c)
    PROVE  IInv'
<1>1. /\ <<r, c>> \in obituaries /\ obituaries' = obituaries \ {<<r, c>>}
      /\ clients' = [clients EXCEPT ![r][c] = 0]
      /\ UNCHANGED <<mutex, loaded, loading, name, state, attached, watched, call, env, alive,
                     deaths, deadClients, history>>
  BY DEF OnClientDied
<1>2. /\ clients' \in [Recs -> [Clients -> Nat]] /\ clients'[r][c] = 0
      /\ \A q \in Recs, d \in Clients : q # r \/ d # c => clients'[q][d] = clients[q][d]
  <2>1. clients \in [Recs -> [Clients -> Nat]] /\ 0 \in Nat
    BY DEF IInv, TypeOK
  <2> QED
    BY <1>1, <2>1, EntrySet
<1>3. TypeOK'
  BY <1>1, <1>2 DEF IInv, TypeOK, history
<1>4. CallsOK' /\ OnePerName' /\ StatesOK' /\ WaitersOK' /\ LockOK' /\ StartsOK'
  BY <1>1 DEF IInv, CallsOK, CallOK, OnePerName, StatesOK, WaitersOK, LockOK, StartsOK, HasScheduler,
     history
<1>5. DeathsOK'
  BY <1>1 DEF IInv, DeathsOK
<1>6. NothingEarly'
  BY <1>1, <1>2 DEF IInv, NothingEarly, history
<1>7. CountsOK'
  <2>1. Gone' = Gone /\ c \in Gone
    BY <1>1 DEF IInv, DeathsOK, Gone, Buried
  <2>2. \A q \in Recs, d \in Clients \ {c} : Counted(q, d) => Counted(q, d)'
    BY <1>1, <1>2 DEF Counted, Returning, history
  <2> QED
    BY <1>1, <2>1, <2>2 DEF IInv, TypeOK, CountsOK
<1> QED
  BY <1>3, <1>4, <1>5, <1>6, <1>7 DEF IInv

\* ProviderDies keeps the inductive invariant.
LEMMA ProviderDiesKeeps ==
    ASSUME IInv, NEW r \in Recs, ProviderDies(r)
    PROVE  IInv'
<1>1. /\ r \in alive /\ alive' = alive \ {r}
      /\ deaths' = IF r \in attached THEN deaths \cup {r} ELSE deaths
      /\ UNCHANGED <<mutex, data, call, env, obituaries, deadClients, history>>
  BY DEF ProviderDies
<1>2. TypeOK'
  BY <1>1 DEF IInv, TypeOK, data, history
<1>3. CallsOK' /\ OnePerName' /\ StatesOK' /\ WaitersOK' /\ LockOK' /\ StartsOK' /\ NothingEarly'
  BY <1>1 DEF IInv, CallsOK, CallOK, OnePerName, StatesOK, WaitersOK, LockOK, StartsOK, NothingEarly,
     HasScheduler, data, history
<1>4. DeathsOK'
  BY <1>1 DEF IInv, DeathsOK, data
<1>5. CountsOK'
  <2>1. Gone \subseteq Gone'
    BY <1>1, GoneStays DEF data
  <2>2. \A q, d : Counted(q, d)' <=> Counted(q, d)
    BY <1>1 DEF Counted, Returning, data, history
  <2> QED
    BY <1>1, <2>1, <2>2 DEF IInv, CountsOK, data
<1> QED
  BY <1>2, <1>3, <1>4, <1>5 DEF IInv

\* ClientDies keeps the inductive invariant.
LEMMA ClientDiesKeeps ==
    ASSUME IInv, NEW c \in Clients, ClientDies(c)
    PROVE  IInv'
<1>1. /\ deadClients' = deadClients \cup {c}
      /\ obituaries' = obituaries \cup {<<r, c>> : r \in {q \in Recs : c \in watched[q]}}
      /\ held' = [r \in Recs |-> [held[r] EXCEPT ![c] = 0]]
      /\ UNCHANGED <<mutex, data, call, env, alive, deaths, killed, timedOut, intruded>>
  BY DEF ClientDies
<1>2. /\ held' \in [Recs -> [Clients -> Nat]]
      /\ \A q \in Recs, d \in Clients : held'[q][d] = IF d = c THEN 0 ELSE held[q][d]
  BY <1>1 DEF IInv, TypeOK
<1>3. obituaries' \subseteq Recs \X Clients
  <2>1. obituaries \subseteq Recs \X Clients
    BY DEF IInv, TypeOK
  <2>2. \A r \in Recs : <<r, c>> \in Recs \X Clients
    OBVIOUS
  <2> QED
    BY <1>1, <2>1, <2>2
<1>4. TypeOK'
  BY <1>1, <1>2, <1>3 DEF IInv, TypeOK, data
<1>5. CallsOK' /\ OnePerName' /\ StatesOK' /\ WaitersOK' /\ LockOK' /\ StartsOK'
  BY <1>1 DEF IInv, CallsOK, CallOK, OnePerName, StatesOK, WaitersOK, LockOK, StartsOK, HasScheduler, data
<1>6. DeathsOK'
  <2>1. \A q \in Recs, d \in Clients : <<q, d>> \in obituaries' => d \in deadClients'
    BY <1>1 DEF IInv, DeathsOK
  <2> QED
    BY <1>1, <2>1 DEF IInv, DeathsOK, data
<1>7. NothingEarly'
  BY <1>1, <1>2 DEF IInv, NothingEarly, data
<1>8. CountsOK'
  <2>1. Gone \subseteq Gone' /\ c \in Gone'
    BY <1>1, GoneStays DEF Gone, data
  <2>2. \A q \in Recs, d \in Clients \ {c} : Counted(q, d) => Counted(q, d)'
    BY <1>1, <1>2 DEF Counted, Returning, data
  <2> QED
    BY <1>1, <2>1, <2>2 DEF IInv, TypeOK, CountsOK, data
<1> QED
  BY <1>4, <1>5, <1>6, <1>7, <1>8 DEF IInv
-------------------------------------------------------------------------------
\* Every step keeps the inductive invariant.
LEMMA StepKeeps ==
    ASSUME IInv, [Next]_vars
    PROVE  IInv'
<1>1. CASE UNCHANGED vars
  <2>1. TypeOK' /\ OnePerName' /\ StatesOK' /\ WaitersOK' /\ DeathsOK' /\ NothingEarly' /\ LockOK' /\ StartsOK'
    BY <1>1 DEF IInv, TypeOK, OnePerName, StatesOK, WaitersOK, DeathsOK, NothingEarly, LockOK, StartsOK,
                HasScheduler, vars, data, process, history
  <2>2. CallsOK'
    BY <1>1 DEF IInv, CallsOK, CallOK, HasScheduler, vars, data
  <2>3. CountsOK'
    <3>1. Gone' = Gone /\ \A q, d : Counted(q, d)' <=> Counted(q, d)
      BY <1>1 DEF Gone, Buried, Counted, Returning, vars, data, process, history
    <3> QED
      BY <1>1, <3>1 DEF IInv, CountsOK, vars, data
  <2> QED
    BY <2>1, <2>2, <2>3 DEF IInv
<1> QED
  BY <1>1, AcquireLockKeeps, RestartLockKeeps, AcquireFindKeeps, AcquireJoinKeeps,
     AcquireRefusedKeeps, AcquireStartKeeps, AcquireInsertKeeps, EnterWaitKeeps,
     WaitForLoadedKeeps, LoadFailedKeeps, GiveUpKeeps,
     AcquireResumedKeeps, AcquireReturnKeeps, ReleaseKeeps, AttachAbilityThreadKeeps,
     TransitionDoneKeeps, TransitionFailedKeeps, OnAbilityDiedKeeps, OnClientDiedKeeps,
     ProviderDiesKeeps, ClientDiesKeeps DEF Next

\* The initial states satisfy the inductive invariant.
LEMMA InitHolds == Init => IInv
<1> SUFFICES ASSUME Init PROVE IInv
  OBVIOUS
<1>1. TypeOK
  BY IdleCall DEF Init, TypeOK
<1>2. CallsOK
  BY IdleCall DEF Init, CallsOK, CallOK, Waiting, Handing
<1>3. LockOK /\ StartsOK
  BY IdleCall DEF Init, LockOK, StartsOK, Looking
<1> QED
  BY <1>1, <1>2, <1>3 DEF Init, IInv, OnePerName, StatesOK, WaitersOK, DeathsOK, NothingEarly, CountsOK

\* The inductive invariant is an invariant.
LEMMA Invariant == Spec => []IInv
<1>1. IInv /\ [Next]_vars => IInv'
  BY StepKeeps
<1> QED
  BY <1>1, InitHolds, PTL DEF Spec

\* The maps of DataAbilityManager agree although half of Acquire runs without mutex_:
\* a name is loaded or loading by a record made for it, what Acquire finds loaded has a
\* scheduler to return, and a name is not both unless a second unlock has let a thread
\* in between the look-ups and the insert of another Acquire of that name.
THEOREM MapsAgree == Spec => []Consistent
<1>1. IInv => LoadedServes
  BY DEF IInv, StatesOK, LoadedServes, Loaded, Loading
<1>2. IInv => Consistent
  BY <1>1 DEF IInv, Consistent
<1> QED
  BY <1>2, Invariant, PTL

\* Every load in progress has a caller whose timeout ends it, however many
\* callers wait, time out and erase by name.
THEOREM LoadsAreAwaited == Spec => []LoadingHasWaiter
<1>1. IInv => LoadingHasWaiter
  BY DEF IInv, WaitersOK, Awaiting, LoadingHasWaiter, Loading
<1> QED
  BY <1>1, Invariant, PTL

\* A loaded record counts for every living client exactly the schedulers that
\* client holds or is about to be handed, however acquires, releases and deaths
\* interleave.
THEOREM ClientsAccounted == Spec => []Accounted
<1>1. IInv => Accounted
  BY DEF IInv, CountsOK, Counted, Gone, Accounted, Loaded
<1> QED
  BY <1>1, Invariant, PTL
===============================================================================
