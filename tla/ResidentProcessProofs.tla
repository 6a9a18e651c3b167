------------------------ MODULE ResidentProcessProofs -------------------------
(***************************************************************************)
(* No resident process is forgotten, for any applications, users and       *)
(* limits: from the exit of a process to the record of the next one there  *)
(* is always a thread, a task, a notice or a list that knows of it.        *)
(*                                                                         *)
(* The chain breaks where an exit is dropped: it is not marked as resident *)
(* (Marked), its bundle is already waited for (Registered), or it is put   *)
(* on a list after the list was emptied (NothingLeftListed).               *)
(***************************************************************************)
EXTENDS ResidentProcess, TLAPS, FiniteSetTheorems, SequenceTheorems

RecsTyped == rec \in Seq(RecordType) /\ Len(rec) <= MaxStarts

ThreadsTyped ==
    /\ map \subseteq 1 .. Len(rec) /\ killing \subseteq 1 .. Len(rec)
    /\ starting \subseteq [app : Apps, count : Int, by : {"died", "ended", "load"}, row : Nat]
    /\ filling \subseteq [id : 1 .. Len(rec), count : Int]
    /\ exits \subseteq [id : 1 .. Len(rec), by : {"died", "ended"},
                        pc : {"remove", "web", "low", "big", "submit"}]

QueueTyped ==
    /\ tasks \subseteq [app : Apps, id : 0 .. MaxStarts, by : {"died", "ended", "load"}]
    /\ notices \subseteq SUBSET Apps
    /\ \A n \in waiting : \E a \in Apps : n = BundleOf[a]

MemoryTyped ==
    /\ low \in [now : BOOLEAN, list : SUBSET Apps]
    /\ big \in [now : BOOLEAN, list : SUBSET Apps]
    /\ web \subseteq Apps
    /\ screen \in [sub : BOOLEAN, unsub : BOOLEAN, require : BOOLEAN]
    /\ front \in [user : Users, back : Users \cup {NoSwitch}]

EnvTyped ==
    /\ env \in [faults : SUBSET FaultKinds, left : [Kinds -> Nat]]
    /\ \E e \in Environments : /\ env.faults = e.faults
                               /\ \A k \in Kinds : env.left[k] <= e.left[k]

\* A record continues one that was made before it, and no count grows.
RowsOK == /\ \A i \in 1 .. Len(rec) : rec[i].row < i
          /\ \A s \in starting : s.row <= Len(rec) /\ s.count <= MaxRestart
          /\ \A f \in filling : f.count <= MaxRestart

\* Exits and restarts are of processes that attached.
TasksOK == /\ \A e \in exits : rec[e.id].state # "created"
           /\ \A t \in tasks : t.by # "load" => t.id \in 1 .. Len(rec) /\ App(t.id) = t.app

\* An exit of record i, of one kind, is being dealt with.
Pending(i, by) == \/ \E e \in exits : e.id = i /\ e.by = by
                  \/ \E t \in tasks : t.id = i /\ t.by = by

\* A record exits once in each of the two ways.
Once ==
    /\ \A d, e \in exits : d.id = e.id /\ d.by = e.by => d = e
    /\ \A e \in exits, t \in tasks : ~(e.id = t.id /\ e.by = t.by)
    /\ \A i \in 1 .. Len(rec) : i \in map => ~Pending(i, "died")
    /\ \A i \in 1 .. Len(rec) : rec[i].alive = TRUE => ~Pending(i, "ended")

\* The record may be restarted for its death, or for its termination.
MayDie(i) == i \in map \/ Pending(i, "died")
MayEnd(i) == rec[i].alive = TRUE \/ Pending(i, "ended")

Quota == \A i \in 1 .. Len(rec) : /\ MayDie(i) \/ MayEnd(i) => rec[i].count >= -1
                                  /\ MayDie(i) /\ MayEnd(i) => rec[i].count >= 0

\* What attached was marked as resident before.
Marked == "early" \notin env.faults =>
             \A i \in 1 .. Len(rec) : rec[i].state # "created" => rec[i].keepAlive = TRUE

\* A bundle that is registered for a restart has one.
Registered == \A n \in waiting : \E t \in tasks : t.by # "load" /\ BundleOf[t.app] = n

Typed == RecsTyped /\ ThreadsTyped /\ QueueTyped /\ MemoryTyped /\ EnvTyped

\* The inductive invariant.
IInv == /\ Typed /\ RowsOK /\ TasksOK /\ Once /\ Quota
        /\ NothingLeftListed /\ Marked /\ Registered /\ Accounted
-------------------------------------------------------------------------------
(* How the parts of the state change.                                      *)

\* What a record consists of.
LEMMA Fields ==
    ASSUME NEW x \in RecordType
    PROVE  /\ x.app \in Apps /\ x.count \in Int /\ x.count >= -2 /\ x.count <= MaxRestart
           /\ x.keepAlive \in BOOLEAN /\ x.alive \in BOOLEAN
           /\ x.row \in Nat /\ x.row <= MaxStarts
<1>1. x.count \in -2 .. MaxRestart /\ x.row \in 0 .. MaxStarts
  BY DEF RecordType
<1>2. x.app \in Apps /\ x.keepAlive \in BOOLEAN /\ x.alive \in BOOLEAN
  BY DEF RecordType
<1> QED
  BY <1>1, <1>2, ResidentAssumption

\* The record of a process that ended.
LEMMA Ended ==
    ASSUME NEW x \in RecordType, NEW r, r = [x EXCEPT !.alive = FALSE]
    PROVE  /\ r \in RecordType /\ r.alive = FALSE
           /\ r.app = x.app /\ r.row = x.row /\ r.state = x.state
           /\ r.count = x.count /\ r.keepAlive = x.keepAlive
<1>1. r \in RecordType
  BY DEF RecordType
<1>2. r.alive = FALSE
  BY DEF RecordType
<1>3. r.app = x.app /\ r.row = x.row /\ r.state = x.state /\ r.count = x.count
  BY DEF RecordType
<1>4. r.keepAlive = x.keepAlive
  BY DEF RecordType
<1> QED
  BY <1>1, <1>2, <1>3, <1>4

\* One record changes.
LEMMA RecUpdated ==
    ASSUME RecsTyped, NEW i \in 1 .. Len(rec), NEW r \in RecordType, rec' = [rec EXCEPT ![i] = r]
    PROVE  /\ RecsTyped' /\ Len(rec') = Len(rec) /\ rec'[i] = r
           /\ \A j \in 1 .. Len(rec) : j # i => rec'[j] = rec[j]
<1>1. rec \in Seq(RecordType) /\ Len(rec) \in Nat /\ DOMAIN rec = 1 .. Len(rec)
  BY DEF RecsTyped
<1>2. rec \in [1 .. Len(rec) -> RecordType]
  BY <1>1
<1>3. rec' \in [1 .. Len(rec) -> RecordType] /\ rec'[i] = r
      /\ \A j \in 1 .. Len(rec) : j # i => rec'[j] = rec[j]
  BY <1>2
<1>4. rec' \in Seq(RecordType) /\ Len(rec') = Len(rec)
  BY <1>1, <1>3
<1> QED
  BY <1>3, <1>4 DEF RecsTyped

\* Something from outside happens.
LEMMA Spent ==
    ASSUME EnvTyped, NEW k \in Kinds, Spend(k)
    PROVE  EnvTyped' /\ env'.faults = env.faults
<1>1. env \in [faults : SUBSET FaultKinds, left : [Kinds -> Nat]] /\ env.left[k] > 0
  BY DEF EnvTyped, Spend
<1>2. env' = [env EXCEPT !.left[k] = env.left[k] - 1]
  BY DEF Spend
<1>3. /\ env' \in [faults : SUBSET FaultKinds, left : [Kinds -> Nat]]
      /\ env'.faults = env.faults /\ \A j \in Kinds : env'.left[j] <= env.left[j]
  BY <1>1, <1>2
<1>4. PICK e \in Environments : env.faults = e.faults /\ \A j \in Kinds : env.left[j] <= e.left[j]
  BY DEF EnvTyped
<1>5. \A j \in Kinds : e.left[j] \in Nat /\ env.left[j] \in Nat /\ env'.left[j] \in Nat
  BY <1>1, <1>3, ResidentAssumption
<1>6. \A j \in Kinds : env'.left[j] <= e.left[j]
  BY <1>3, <1>4, <1>5
<1> QED
  BY <1>3, <1>4, <1>6 DEF EnvTyped

Safe(a) == Exists(a) \/ Held(a) \/ Coming(a)

\* While the users stay, an application stays accounted for if nothing that
\* knew of it lets go of it.
LEMMA AccountedKept ==
    ASSUME Accounted, env'.faults = env.faults, front' = front,
           \A a \in Apps : InFront(a) /\ ~Shared(a) /\ Safe(a)
                           /\ env.faults \cap {"spawn", "early", "switch"} = {} => Safe(a)'
    PROVE  Accounted'
<1>1. \A a \in Apps : InFront(a)' <=> InFront(a)
  BY DEF InFront
<1> QED
  BY <1>1, Zenon DEF Accounted, Safe

\* The exits of records are those of before.
LEMMA PendingSame ==
    ASSUME exits' = exits, tasks' = tasks, NEW i, NEW by
    PROVE  Pending(i, by)' <=> Pending(i, by)
  BY DEF Pending

\* A change of one record that starts or ends no exit.
LEMMA RecordStep ==
    ASSUME IInv, NEW i \in 1 .. Len(rec), NEW r \in RecordType, rec' = [rec EXCEPT ![i] = r],
           r.app = rec[i].app, r.row < i,
           r.alive = TRUE => rec[i].alive = TRUE,
           r.state = "created" => rec[i].state = "created",
           r.count >= 0 \/ r.count >= rec[i].count,
           "early" \notin env.faults /\ r.state # "created" => r.keepAlive = TRUE,
           UNCHANGED <<map, starting, exits, tasks, notices, waiting, low, big, screen, front>>,
           web \subseteq web', web' \subseteq Apps,
           filling' \subseteq filling, killing' \subseteq killing, EnvTyped', env'.faults = env.faults
    PROVE  IInv'
<1>1. /\ RecsTyped' /\ Len(rec') = Len(rec) /\ rec'[i] = r
      /\ \A j \in 1 .. Len(rec) : j # i => rec'[j] = rec[j]
  BY RecUpdated DEF IInv, Typed
<1>2. Typed'
  <2>1. ThreadsTyped'
    BY <1>1 DEF IInv, Typed, ThreadsTyped
  <2>2. QueueTyped' /\ MemoryTyped'
    BY DEF IInv, Typed, QueueTyped, MemoryTyped
  <2> QED
    BY <1>1, <2>1, <2>2 DEF Typed
<1>3. RowsOK'
  BY <1>1 DEF IInv, RowsOK
<1>4. TasksOK'
  <2>1. \A e \in exits : e.id \in 1 .. Len(rec)
    BY DEF IInv, Typed, ThreadsTyped
  <2> QED
    BY <1>1, <2>1 DEF IInv, TasksOK, App
<1>5. Once'
  BY <1>1 DEF IInv, Once, Pending
<1>6. Quota'
  <2>1. \A j \in 1 .. Len(rec) : rec[j].count \in Int /\ rec'[j].count \in Int
    <3>1. \A j \in 1 .. Len(rec) : rec[j] \in RecordType
      BY DEF IInv, Typed, RecsTyped
    <3> QED
      BY <3>1, <1>1 DEF RecordType
  <2> SUFFICES ASSUME NEW j \in 1 .. Len(rec)
               PROVE  /\ MayDie(j)' \/ MayEnd(j)' => rec'[j].count >= -1
                      /\ MayDie(j)' /\ MayEnd(j)' => rec'[j].count >= 0
    BY <1>1 DEF Quota
  <2>2. (MayDie(j)' => MayDie(j)) /\ (MayEnd(j)' => MayEnd(j))
    BY <1>1 DEF MayDie, MayEnd, Pending
  <2>3. /\ MayDie(j) \/ MayEnd(j) => rec[j].count >= -1
        /\ MayDie(j) /\ MayEnd(j) => rec[j].count >= 0
    BY DEF IInv, Quota
  <2>4. rec'[j].count >= 0 \/ rec'[j].count >= rec[j].count
    BY <1>1, <2>1
  <2> QED
    BY <2>1, <2>2, <2>3, <2>4
<1>7. NothingLeftListed' /\ Registered'
  BY DEF IInv, NothingLeftListed, Registered
<1>8. Marked'
  BY <1>1 DEF IInv, Marked
<1>9. Accounted'
  <2>1. \A j \in 1 .. Len(rec) : App(j)' = App(j)
    BY <1>1 DEF App
  <2>2. map \subseteq 1 .. Len(rec) /\ \A e \in exits : e.id \in 1 .. Len(rec)
    BY DEF IInv, Typed, ThreadsTyped
  <2>3. \A a \in Apps : Safe(a) => Safe(a)'
    BY <2>1, <2>2 DEF Safe, Exists, Held, Coming
  <2> QED
    BY <2>3, AccountedKept DEF IInv
<1> QED
  BY <1>2, <1>3, <1>4, <1>5, <1>6, <1>7, <1>8, <1>9 DEF IInv

\* A change of memory, screen or web upgrade, in which what was listed stays
\* listed or is handed on.
LEMMA MemoryStep ==
    ASSUME IInv, UNCHANGED <<rec, map, starting, filling, exits, tasks, waiting, front>>,
           killing' \subseteq 1 .. Len(rec), MemoryTyped', NothingLeftListed',
           notices \subseteq notices', notices' \subseteq SUBSET Apps,
           EnvTyped', env'.faults = env.faults,
           \A a \in Apps : Held(a) => Held(a)' \/ \E S \in notices' : a \in S
    PROVE  IInv'
<1>1. Typed'
  BY DEF IInv, Typed, RecsTyped, ThreadsTyped, QueueTyped
<1>2. RowsOK' /\ TasksOK' /\ Registered' /\ Marked'
  BY DEF IInv, RowsOK, TasksOK, Registered, Marked, App
<1>3. Once' /\ Quota'
  BY DEF IInv, Once, Quota, MayDie, MayEnd, Pending
<1>4. Accounted'
  <2>1. \A a \in Apps : Safe(a) => Safe(a)'
    BY DEF Safe, Exists, Coming, App
  <2> QED
    BY <2>1, AccountedKept DEF IInv
<1> QED
  BY <1>1, <1>2, <1>3, <1>4 DEF IInv

\* A thread that deals with an exit goes on to pc, or is done.
LEMMA ExitStep ==
    ASSUME IInv, NEW e \in exits, NEW pc \in {"remove", "web", "low", "big", "submit"},
           exits' = ExitAt(e, pc) \/ exits' = exits \ {e},
           UNCHANGED <<rec, starting, filling, tasks, notices, waiting, killing, front, env>>,
           map' \subseteq map, MemoryTyped', NothingLeftListed',
           \A a \in Apps : InFront(a) /\ ~Shared(a) /\ Safe(a)
                           /\ env.faults \cap {"spawn", "early", "switch"} = {} => Safe(a)'
    PROVE  IInv'
<1>1. e \in [id : 1 .. Len(rec), by : {"died", "ended"}, pc : {"remove", "web", "low", "big", "submit"}]
  BY DEF IInv, Typed, ThreadsTyped
<1>2. \A d \in exits' : \/ d \in exits /\ d # e
                        \/ d.id = e.id /\ d.by = e.by /\ d.pc = pc /\ d = Exit(e.id, e.by, pc)
  BY DEF ExitAt, Exit
<1>3. \A d \in exits' : \E g \in exits : g.id = d.id /\ g.by = d.by
  BY <1>2
<1>4. Typed'
  <2>1. exits' \subseteq [id : 1 .. Len(rec), by : {"died", "ended"},
                          pc : {"remove", "web", "low", "big", "submit"}]
    BY <1>1, <1>2 DEF IInv, Typed, ThreadsTyped, Exit
  <2> QED
    BY <2>1 DEF IInv, Typed, RecsTyped, ThreadsTyped, QueueTyped, EnvTyped
<1>5. RowsOK' /\ Registered' /\ Marked'
  BY DEF IInv, RowsOK, Registered, Marked
<1>6. TasksOK'
  BY <1>2 DEF IInv, TasksOK, App
<1>7. \A i \in 1 .. Len(rec) : \A by : Pending(i, by)' => Pending(i, by)
  BY <1>3 DEF Pending
<1>8. Once'
  <2>1. \A d, g \in exits' : d.id = g.id /\ d.by = g.by => d = g
    BY <1>2 DEF IInv, Once
  <2>2. \A d \in exits', t \in tasks' : ~(d.id = t.id /\ d.by = t.by)
    BY <1>3 DEF IInv, Once
  <2> QED
    BY <2>1, <2>2, <1>7 DEF IInv, Once
<1>9. Quota'
  BY <1>7 DEF IInv, Quota, MayDie, MayEnd
<1>10. Accounted'
  BY AccountedKept DEF IInv
<1> QED
  BY <1>4, <1>5, <1>6, <1>8, <1>9, <1>10 DEF IInv
-------------------------------------------------------------------------------
(* Processes.                                                              *)

\* A process that ends is still in the map.
LEMMA DieStep ==
    ASSUME IInv, NEW i \in DOMAIN rec, Die(i)
    PROVE  IInv'
<1> DEFINE r == [rec[i] EXCEPT !.alive = FALSE]
<1>1. /\ rec' = [rec EXCEPT ![i] = r] /\ Spend("exits")
      /\ UNCHANGED <<map, starting, filling, exits, tasks, notices, waiting, low, big, web, screen,
                     killing, front>>
  BY DEF Die, queue, memory
<1>2. i \in 1 .. Len(rec) /\ rec[i] \in RecordType /\ rec[i].row < i
  BY DEF IInv, Typed, RecsTyped, RowsOK
<1>3. /\ r \in RecordType /\ r.alive = FALSE
      /\ r.app = rec[i].app /\ r.row = rec[i].row /\ r.state = rec[i].state
      /\ r.count = rec[i].count /\ r.keepAlive = rec[i].keepAlive
  BY <1>2, Ended
<1>4. EnvTyped' /\ env'.faults = env.faults /\ web \subseteq Apps
  BY <1>1, Spent DEF IInv, Typed, Kinds, MemoryTyped
<1>5. "early" \notin env.faults /\ r.state # "created" => r.keepAlive = TRUE
  BY <1>2, <1>3 DEF IInv, Marked
<1>6. r.count >= rec[i].count
  BY <1>2, <1>3, Fields
<1> HIDE DEF r
<1> QED
  BY <1>1, <1>2, <1>3, <1>4, <1>5, <1>6, RecordStep

\* A process attaches after its record was marked, unless it is early.
LEMMA AttachApplicationStep ==
    ASSUME IInv, NEW i \in DOMAIN rec, AttachApplication(i)
    PROVE  IInv'
<1> DEFINE r == [rec[i] EXCEPT !.state = "attached"]
<1>1. /\ rec' = [rec EXCEPT ![i] = r] /\ ("early" \notin env.faults => rec[i].keepAlive)
      /\ UNCHANGED <<map, starting, filling, exits, tasks, notices, waiting, low, big, web, screen,
                     killing, front, env>>
  BY DEF AttachApplication, queue, memory
<1>2. i \in 1 .. Len(rec) /\ rec[i] \in RecordType /\ rec[i].row < i
  BY DEF IInv, Typed, RecsTyped, RowsOK
<1>3. /\ r \in RecordType /\ r.state = "attached" /\ r.alive = rec[i].alive
      /\ r.app = rec[i].app /\ r.row = rec[i].row /\ r.count = rec[i].count
      /\ r.keepAlive = rec[i].keepAlive /\ r.keepAlive \in BOOLEAN
  BY <1>2 DEF RecordType
<1>4. EnvTyped' /\ env'.faults = env.faults /\ web \subseteq Apps
  BY <1>1 DEF IInv, Typed, EnvTyped, MemoryTyped
<1>5. r.count >= rec[i].count /\ ("early" \notin env.faults => r.keepAlive = TRUE)
  BY <1>1, <1>2, <1>3, Fields
<1> HIDE DEF r
<1> QED
  BY <1>1, <1>2, <1>3, <1>4, <1>5, RecordStep

\* The launch gives a record its restarts back.
LEMMA LaunchApplicationStep ==
    ASSUME IInv, NEW i \in DOMAIN rec, LaunchApplication(i)
    PROVE  IInv'
<1> DEFINE r == [rec[i] EXCEPT !.state = "ready", !.count = MaxRestart,
                               !.staged = rec[i].keepAlive, !.row = 0]
<1>1. /\ rec' = [rec EXCEPT ![i] = r] /\ rec[i].state = "attached"
      /\ UNCHANGED <<map, starting, filling, exits, tasks, notices, waiting, low, big, web, screen,
                     killing, front, env>>
  BY DEF LaunchApplication, queue, memory
<1>2. i \in 1 .. Len(rec) /\ rec[i] \in RecordType /\ rec[i].row < i
  BY DEF IInv, Typed, RecsTyped, RowsOK
<1>3. /\ r \in RecordType /\ r.state = "ready" /\ r.alive = rec[i].alive
      /\ r.app = rec[i].app /\ r.row = 0 /\ r.count = MaxRestart
      /\ r.keepAlive = rec[i].keepAlive
  <2>1. MaxRestart \in -2 .. MaxRestart /\ 0 \in 0 .. MaxStarts /\ rec[i].keepAlive \in BOOLEAN
    BY <1>2, Fields, ResidentAssumption
  <2>2. r \in RecordType
    BY <1>2, <2>1 DEF RecordType
  <2>3. r.state = "ready" /\ r.app = rec[i].app /\ r.row = 0 /\ r.count = MaxRestart
    BY <1>2 DEF RecordType
  <2>4. r.alive = rec[i].alive /\ r.keepAlive = rec[i].keepAlive
    BY <1>2 DEF RecordType
  <2> QED
    BY <2>2, <2>3, <2>4
<1>4. EnvTyped' /\ env'.faults = env.faults /\ web \subseteq Apps
  BY <1>1 DEF IInv, Typed, EnvTyped, MemoryTyped
<1>5. "early" \notin env.faults /\ r.state # "created" => r.keepAlive = TRUE
  BY <1>1, <1>2, <1>3 DEF IInv, Marked
<1>6. MaxRestart >= 0 /\ 0 < i
  BY <1>2, ResidentAssumption
<1> HIDE DEF r
<1> QED
  BY <1>1, <1>2, <1>3, <1>4, <1>5, <1>6, RecordStep

\* The rest of a start marks the record.
LEMMA FillRecordStep ==
    ASSUME IInv, NEW f \in filling, FillRecord(f)
    PROVE  IInv'
<1> DEFINE i == f.id
           n == IF f.count > 0 THEN f.count ELSE rec[i].count
           r == [rec[i] EXCEPT !.keepAlive = TRUE, !.count = n]
<1>1. /\ rec' = [rec EXCEPT ![i] = r] /\ filling' = filling \ {f}
      /\ UNCHANGED <<map, starting, exits, tasks, notices, waiting, low, big, web, screen,
                     killing, front, env>>
  BY DEF FillRecord, queue, memory
<1>2. /\ i \in 1 .. Len(rec) /\ rec[i] \in RecordType /\ rec[i].row < i
      /\ f.count \in Int /\ f.count <= MaxRestart
  BY DEF IInv, Typed, RecsTyped, ThreadsTyped, RowsOK
<1>3. n \in -2 .. MaxRestart /\ (n >= 0 \/ n >= rec[i].count)
  BY <1>2, ResidentAssumption DEF RecordType
<1>4. /\ r \in RecordType /\ r.keepAlive = TRUE /\ r.alive = rec[i].alive /\ r.state = rec[i].state
      /\ r.app = rec[i].app /\ r.row = rec[i].row /\ r.count = n
  BY <1>2, <1>3 DEF RecordType
<1>5. EnvTyped' /\ env'.faults = env.faults /\ web \subseteq Apps
  BY <1>1 DEF IInv, Typed, EnvTyped, MemoryTyped
<1> HIDE DEF i, n, r
<1> QED
  BY <1>1, <1>2, <1>3, <1>4, <1>5, RecordStep

\* A process killed for the web upgrade is listed if it is resident.
LEMMA KillNextStep ==
    ASSUME IInv, NEW i \in killing, KillNext(i)
    PROVE  IInv'
<1> DEFINE r == [rec[i] EXCEPT !.alive = FALSE]
<1>1. /\ rec' = [rec EXCEPT ![i] = r] /\ killing' = killing \ {i}
      /\ web' = IF rec[i].keepAlive THEN web \cup {App(i)} ELSE web
      /\ UNCHANGED <<map, starting, filling, exits, tasks, notices, waiting, low, big, screen,
                     front, env>>
  BY DEF KillNext, queue
<1>2. i \in 1 .. Len(rec) /\ rec[i] \in RecordType /\ rec[i].row < i
  BY DEF IInv, Typed, RecsTyped, ThreadsTyped, RowsOK
<1>3. /\ r \in RecordType /\ r.alive = FALSE
      /\ r.app = rec[i].app /\ r.row = rec[i].row /\ r.state = rec[i].state
      /\ r.count = rec[i].count /\ r.keepAlive = rec[i].keepAlive
  BY <1>2, Ended
<1>4. EnvTyped' /\ env'.faults = env.faults
  BY <1>1 DEF IInv, Typed, EnvTyped
<1>5. web \subseteq web' /\ web' \subseteq Apps
  BY <1>1, <1>2 DEF IInv, Typed, MemoryTyped, App, RecordType
<1>6. "early" \notin env.faults /\ r.state # "created" => r.keepAlive = TRUE
  BY <1>2, <1>3 DEF IInv, Marked
<1>7. r.count >= rec[i].count
  BY <1>2, <1>3, Fields
<1> HIDE DEF r
<1> QED
  BY <1>1, <1>2, <1>3, <1>4, <1>5, <1>6, <1>7, RecordStep
-------------------------------------------------------------------------------
(* Exits.                                                                  *)

\* A record that died leaves the map, and a thread deals with its exit.
LEMMA OnRemoteDiedStep ==
    ASSUME IInv, NEW i \in DOMAIN rec, OnRemoteDied(i)
    PROVE  IInv'
<1> DEFINE e == Exit(i, "died", "web")
<1>1. /\ i \in map /\ rec[i].state # "created" /\ ~rec[i].alive
      /\ map' = map \ {i} /\ exits' = exits \cup {e}
      /\ UNCHANGED <<rec, starting, filling, tasks, notices, waiting, low, big, web, screen,
                     killing, front, env>>
  BY DEF OnRemoteDied, queue, memory
<1>2. i \in 1 .. Len(rec) /\ e.id = i /\ e.by = "died" /\ e.pc = "web"
  BY <1>1 DEF IInv, Typed, ThreadsTyped, Exit
<1>3. Typed'
  <2>1. e \in [id : 1 .. Len(rec), by : {"died", "ended"},
               pc : {"remove", "web", "low", "big", "submit"}]
    BY <1>2 DEF Exit
  <2> HIDE DEF e
  <2> QED
    BY <1>1, <2>1 DEF IInv, Typed, RecsTyped, ThreadsTyped, QueueTyped, MemoryTyped, EnvTyped
<1> HIDE DEF e
<1>4. RowsOK' /\ Registered' /\ Marked' /\ NothingLeftListed'
  BY <1>1 DEF IInv, RowsOK, Registered, Marked, NothingLeftListed
<1>5. TasksOK'
  BY <1>1, <1>2 DEF IInv, TasksOK, App
<1>6. \A j \in 1 .. Len(rec) : /\ Pending(j, "ended")' <=> Pending(j, "ended")
                               /\ Pending(j, "died")' <=> Pending(j, "died") \/ j = i
  BY <1>1, <1>2 DEF Pending
<1>7. ~Pending(i, "died")
  BY <1>1, <1>2 DEF IInv, Once
<1>8. Once'
  <2>1. \A d \in exits : ~(d.id = i /\ d.by = "died")
    BY <1>7 DEF Pending
  <2>2. \A t \in tasks : ~(t.id = i /\ t.by = "died")
    BY <1>7 DEF Pending
  <2>3. \A d, g \in exits' : d.id = g.id /\ d.by = g.by => d = g
    BY <1>1, <1>2, <2>1 DEF IInv, Once
  <2>4. \A d \in exits', t \in tasks' : ~(d.id = t.id /\ d.by = t.by)
    BY <1>1, <1>2, <2>2 DEF IInv, Once
  <2> QED
    BY <2>3, <2>4, <1>1, <1>6 DEF IInv, Once
<1>9. Quota'
  <2>1. \A j \in 1 .. Len(rec) : (MayDie(j)' <=> MayDie(j)) /\ (MayEnd(j)' <=> MayEnd(j))
    BY <1>1, <1>6 DEF MayDie, MayEnd
  <2> QED
    BY <1>1, <2>1 DEF IInv, Quota
<1>10. Accounted'
  <2>1. \A a \in Apps : Safe(a) => Safe(a)'
    BY <1>1, <1>2 DEF Safe, Exists, Held, Coming, App
  <2> QED
    BY <1>1, <2>1, AccountedKept DEF IInv
<1> QED
  BY <1>3, <1>4, <1>5, <1>8, <1>9, <1>10 DEF IInv

\* A process that terminates is over at once, and a thread removes its record.
LEMMA ApplicationTerminatedStep ==
    ASSUME IInv, NEW i \in DOMAIN rec, ApplicationTerminated(i)
    PROVE  IInv'
<1> DEFINE e == Exit(i, "ended", "remove")
           r == [rec[i] EXCEPT !.alive = FALSE]
<1>1. /\ i \in map /\ rec[i].state = "ready" /\ rec[i].alive = TRUE
      /\ rec' = [rec EXCEPT ![i] = r] /\ exits' = exits \cup {e} /\ Spend("exits")
      /\ UNCHANGED <<map, starting, filling, tasks, notices, waiting, low, big, web, screen,
                     killing, front>>
  <2>1. rec[i] \in RecordType
    BY DEF IInv, Typed, RecsTyped
  <2> QED
    BY <2>1, Fields DEF ApplicationTerminated, queue, memory
<1>2. i \in 1 .. Len(rec) /\ e.id = i /\ e.by = "ended" /\ e.pc = "remove"
  BY <1>1 DEF IInv, Typed, ThreadsTyped, Exit
<1>3. /\ rec[i] \in RecordType /\ r \in RecordType /\ r.alive = FALSE
      /\ r.app = rec[i].app /\ r.row = rec[i].row /\ r.state = rec[i].state
      /\ r.count = rec[i].count /\ r.keepAlive = rec[i].keepAlive
  <2>1. rec[i] \in RecordType
    BY DEF IInv, Typed, RecsTyped
  <2> QED
    BY <2>1, Ended
<1>4. e \in [id : 1 .. Len(rec), by : {"died", "ended"},
             pc : {"remove", "web", "low", "big", "submit"}]
  BY <1>2 DEF Exit
<1> HIDE DEF e, r
<1>5. /\ RecsTyped' /\ Len(rec') = Len(rec) /\ rec'[i] = r
      /\ \A j \in 1 .. Len(rec) : j # i => rec'[j] = rec[j]
  BY <1>1, <1>2, <1>3, RecUpdated DEF IInv, Typed
<1>6. EnvTyped' /\ env'.faults = env.faults
  BY <1>1, Spent DEF IInv, Typed, Kinds
<1>7. Typed'
  <2>1. ThreadsTyped'
    BY <1>1, <1>4, <1>5 DEF IInv, Typed, ThreadsTyped
  <2>2. QueueTyped' /\ MemoryTyped'
    BY <1>1 DEF IInv, Typed, QueueTyped, MemoryTyped
  <2> QED
    BY <2>1, <2>2, <1>5, <1>6 DEF Typed
<1>8. RowsOK'
  BY <1>1, <1>3, <1>5 DEF IInv, RowsOK
<1>9. Registered' /\ NothingLeftListed'
  BY <1>1 DEF IInv, Registered, NothingLeftListed
<1>10. Marked'
  BY <1>1, <1>3, <1>5, <1>6 DEF IInv, Marked
<1>11. TasksOK'
  <2>1. \A d \in exits : d.id \in 1 .. Len(rec)
    BY DEF IInv, Typed, ThreadsTyped
  <2> QED
    BY <2>1, <1>1, <1>2, <1>3, <1>5 DEF IInv, TasksOK, App
<1>12. \A j \in 1 .. Len(rec) : /\ Pending(j, "died")' <=> Pending(j, "died")
                                /\ Pending(j, "ended")' <=> Pending(j, "ended") \/ j = i
  BY <1>1, <1>2 DEF Pending
<1>13. ~Pending(i, "ended")
  BY <1>1, <1>2 DEF IInv, Once
<1>14. Once'
  <2>1. \A d \in exits : ~(d.id = i /\ d.by = "ended")
    BY <1>13 DEF Pending
  <2>2. \A t \in tasks : ~(t.id = i /\ t.by = "ended")
    BY <1>13 DEF Pending
  <2>3. \A d, g \in exits' : d.id = g.id /\ d.by = g.by => d = g
    BY <1>1, <1>2, <2>1 DEF IInv, Once
  <2>4. \A d \in exits', t \in tasks' : ~(d.id = t.id /\ d.by = t.by)
    BY <1>1, <1>2, <2>2 DEF IInv, Once
  <2> QED
    BY <2>3, <2>4, <1>1, <1>3, <1>5, <1>12 DEF IInv, Once
<1>15. Quota'
  <2>1. \A j \in 1 .. Len(rec) : (MayDie(j)' <=> MayDie(j)) /\ (MayEnd(j)' <=> MayEnd(j))
    BY <1>1, <1>3, <1>5, <1>12 DEF MayDie, MayEnd
  <2> QED
    BY <1>3, <1>5, <2>1 DEF IInv, Quota
<1>16. Accounted'
  <2>1. \A j \in 1 .. Len(rec) : App(j)' = App(j)
    BY <1>3, <1>5 DEF App
  <2>2. map \subseteq 1 .. Len(rec) /\ \A d \in exits : d.id \in 1 .. Len(rec)
    BY DEF IInv, Typed, ThreadsTyped
  <2>3. \A a \in Apps : Safe(a) => Safe(a)'
    BY <1>1, <2>1, <2>2 DEF Safe, Exists, Held, Coming
  <2> QED
    BY <1>1, <1>6, <2>3, AccountedKept DEF IInv
<1> QED
  BY <1>7, <1>8, <1>9, <1>10, <1>11, <1>14, <1>15, <1>16 DEF IInv

\* The thread that removes a record still has its exit to deal with.
LEMMA RemoveAppRunningRecordStep ==
    ASSUME IInv, NEW e \in exits, RemoveAppRunningRecord(e)
    PROVE  IInv'
<1>1. /\ map' = map \ {e.id} /\ exits' = ExitAt(e, "web")
      /\ UNCHANGED <<rec, starting, filling, tasks, notices, waiting, low, big, web, screen,
                     killing, front, env>>
  BY DEF RemoveAppRunningRecord, queue, memory
<1>2. Exit(e.id, e.by, "web") \in exits' /\ Exit(e.id, e.by, "web").id = e.id
      /\ \A d \in exits : d # e => d \in exits'
  BY <1>1 DEF ExitAt, Exit
<1>3. \A a \in Apps : Safe(a) => Safe(a)'
  BY <1>1, <1>2 DEF Safe, Exists, Held, Coming, App
<1>4. MemoryTyped' /\ NothingLeftListed'
  BY <1>1 DEF IInv, Typed, MemoryTyped, NothingLeftListed
<1> QED
  BY <1>1, <1>3, <1>4, ExitStep

\* An exit is dropped if the process is not resident, not of a user in front,
\* or listed for the end of the web upgrade.
LEMMA CheckRestartStep ==
    ASSUME IInv, NEW e \in exits, CheckRestart(e)
    PROVE  IInv'
<1>1. /\ exits' = IF rec[e.id].keepAlive /\ InFront(App(e.id)) /\ ~IsKilledForUpgradeWeb(App(e.id))
                  THEN ExitAt(e, "low") ELSE exits \ {e}
      /\ UNCHANGED <<rec, map, starting, filling, tasks, notices, waiting, low, big, web, screen,
                     killing, front, env>>
  BY DEF CheckRestart, queue, memory
<1>2. ASSUME NEW a \in Apps, InFront(a), ~Shared(a), Safe(a),
             env.faults \cap {"spawn", "early", "switch"} = {}
      PROVE  Safe(a)'
  <2>1. CASE \E d \in exits \ {e} : App(d.id) = a
    <3>1. PICK d \in exits \ {e} : App(d.id) = a
      BY <2>1
    <3>2. d \in exits'
      BY <1>1, <3>1 DEF ExitAt
    <3> QED
      BY <1>1, <3>1, <3>2 DEF Safe, Coming, App
  <2>2. CASE App(e.id) # a /\ ~ \E d \in exits \ {e} : App(d.id) = a
    BY <1>1, <1>2, <2>2 DEF Safe, Exists, Held, Coming, App
  <2>3. CASE App(e.id) = a
    <3>1. rec[e.id].keepAlive = TRUE
      <4>1. e.id \in 1 .. Len(rec) /\ rec[e.id].state # "created"
        BY DEF IInv, Typed, ThreadsTyped, TasksOK
      <4> QED
        BY <4>1, <1>2 DEF IInv, Marked
    <3>2. CASE IsKilledForUpgradeWeb(a)
      <4>1. PICK b \in web : BundleOf[b] = BundleOf[a]
        BY <3>2 DEF IsKilledForUpgradeWeb
      <4>2. b = a
        BY <4>1, <1>2 DEF Shared, IInv, Typed, MemoryTyped
      <4> QED
        BY <4>1, <4>2, <1>1 DEF Safe, Held
    <3>3. CASE ~IsKilledForUpgradeWeb(a)
      <4>1. Exit(e.id, e.by, "low") \in exits' /\ Exit(e.id, e.by, "low").id = e.id
        BY <1>1, <1>2, <2>3, <3>1, <3>3 DEF ExitAt, Exit
      <4> QED
        BY <4>1, <1>1, <2>3 DEF Safe, Coming, App
    <3> QED
      BY <3>2, <3>3
  <2> QED
    BY <2>1, <2>2, <2>3
<1>3. MemoryTyped' /\ NothingLeftListed'
  BY <1>1 DEF IInv, Typed, MemoryTyped, NothingLeftListed
<1>4. exits' = ExitAt(e, "low") \/ exits' = exits \ {e}
  BY <1>1
<1>5. map' \subseteq map
  BY <1>1
<1> QED
  BY <1>1, <1>2, <1>3, <1>4, <1>5, ExitStep


\* While memory is short an exit is listed, under the lock that ends the shortage.
LEMMA RecordExitResidentBundleNameStep ==
    ASSUME IInv, NEW e \in exits, RecordExitResidentBundleName(e)
    PROVE  IInv'
<1>1. /\ \/ /\ low.now /\ low' = [low EXCEPT !.list = low.list \cup {App(e.id)}]
            /\ exits' = exits \ {e}
         \/ low' = low /\ exits' = ExitAt(e, "big")
      /\ UNCHANGED <<rec, map, starting, filling, tasks, notices, waiting, big, web, screen,
                     killing, front, env>>
  BY DEF RecordExitResidentBundleName, queue
<1>2. e.id \in 1 .. Len(rec) /\ App(e.id) \in Apps
  <2>1. e.id \in 1 .. Len(rec) /\ rec[e.id] \in RecordType
    BY DEF IInv, Typed, RecsTyped, ThreadsTyped
  <2> QED
    BY <2>1, Fields DEF App
<1>3. low \in [now : BOOLEAN, list : SUBSET Apps]
  BY DEF IInv, Typed, MemoryTyped
<1>4. CASE exits' = exits \ {e} /\ low.now /\ low' = [low EXCEPT !.list = low.list \cup {App(e.id)}]
  <2>1. /\ low' \in [now : BOOLEAN, list : SUBSET Apps] /\ low'.now = low.now
        /\ low'.list = low.list \cup {App(e.id)}
    BY <1>2, <1>3, <1>4
  <2>2. MemoryTyped' /\ NothingLeftListed'
    BY <1>1, <1>4, <2>1 DEF IInv, Typed, MemoryTyped, NothingLeftListed
  <2>3. \A a \in Apps : Safe(a) => Safe(a)'
    BY <1>1, <1>4, <2>1 DEF Safe, Exists, Held, Coming, App
  <2> QED
    BY <1>1, <1>4, <2>2, <2>3, ExitStep
<1>5. CASE exits' = ExitAt(e, "big") /\ low' = low
  <2>1. /\ Exit(e.id, e.by, "big") \in exits' /\ Exit(e.id, e.by, "big").id = e.id
        /\ \A d \in exits : d # e => d \in exits'
    BY <1>5 DEF ExitAt, Exit
  <2>2. MemoryTyped' /\ NothingLeftListed'
    BY <1>1, <1>5 DEF IInv, Typed, MemoryTyped, NothingLeftListed
  <2>3. \A a \in Apps : Safe(a) => Safe(a)'
    BY <1>1, <1>5, <2>1 DEF Safe, Exists, Held, Coming, App
  <2> QED
    BY <1>1, <1>5, <2>2, <2>3, ExitStep
<1> QED
  BY <1>1, <1>4, <1>5

\* Likewise while big memory is required.
LEMMA RecordExitResidentBundleNameOnRequireBigMemoryStep ==
    ASSUME IInv, NEW e \in exits, RecordExitResidentBundleNameOnRequireBigMemory(e)
    PROVE  IInv'
<1>1. /\ \/ /\ big.now /\ big' = [big EXCEPT !.list = big.list \cup {App(e.id)}]
            /\ exits' = exits \ {e}
         \/ big' = big /\ exits' = ExitAt(e, "submit")
      /\ UNCHANGED <<rec, map, starting, filling, tasks, notices, waiting, low, web, screen,
                     killing, front, env>>
  BY DEF RecordExitResidentBundleNameOnRequireBigMemory, queue
<1>2. e.id \in 1 .. Len(rec) /\ App(e.id) \in Apps
  <2>1. e.id \in 1 .. Len(rec) /\ rec[e.id] \in RecordType
    BY DEF IInv, Typed, RecsTyped, ThreadsTyped
  <2> QED
    BY <2>1, Fields DEF App
<1>3. big \in [now : BOOLEAN, list : SUBSET Apps]
  BY DEF IInv, Typed, MemoryTyped
<1>4. CASE exits' = exits \ {e} /\ big.now /\ big' = [big EXCEPT !.list = big.list \cup {App(e.id)}]
  <2>1. /\ big' \in [now : BOOLEAN, list : SUBSET Apps] /\ big'.now = big.now
        /\ big'.list = big.list \cup {App(e.id)}
    BY <1>2, <1>3, <1>4
  <2>2. MemoryTyped' /\ NothingLeftListed'
    BY <1>1, <1>4, <2>1 DEF IInv, Typed, MemoryTyped, NothingLeftListed
  <2>3. \A a \in Apps : Safe(a) => Safe(a)'
    BY <1>1, <1>4, <2>1 DEF Safe, Exists, Held, Coming, App
  <2> QED
    BY <1>1, <1>4, <2>2, <2>3, ExitStep
<1>5. CASE exits' = ExitAt(e, "submit") /\ big' = big
  <2>1. /\ Exit(e.id, e.by, "submit") \in exits' /\ Exit(e.id, e.by, "submit").id = e.id
        /\ \A d \in exits : d # e => d \in exits'
    BY <1>5 DEF ExitAt, Exit
  <2>2. MemoryTyped' /\ NothingLeftListed'
    BY <1>1, <1>5 DEF IInv, Typed, MemoryTyped, NothingLeftListed
  <2>3. \A a \in Apps : Safe(a) => Safe(a)'
    BY <1>1, <1>5, <2>1 DEF Safe, Exists, Held, Coming, App
  <2> QED
    BY <1>1, <1>5, <2>2, <2>3, ExitStep
<1> QED
  BY <1>1, <1>4, <1>5

\* The task for an exit is submitted, or its bundle is waiting for one.
LEMMA SubmitRestartStep ==
    ASSUME IInv, NEW e \in exits, SubmitRestart(e)
    PROVE  IInv'
<1> DEFINE t0 == [app |-> App(e.id), id |-> e.id, by |-> e.by]
           name == BundleOf[App(e.id)]
<1>1. /\ exits' = exits \ {e}
      /\ \/ name \in waiting /\ tasks' = tasks /\ waiting' = waiting
         \/ tasks' = tasks \cup {t0} /\ (waiting' = waiting \/ waiting' = waiting \cup {name})
      /\ UNCHANGED <<rec, map, starting, filling, notices, low, big, web, screen, killing,
                     front, env>>
  BY DEF SubmitRestart, memory
<1>2. /\ e.id \in 1 .. Len(rec) /\ App(e.id) \in Apps /\ e.by \in {"died", "ended"}
      /\ Len(rec) <= MaxStarts /\ Len(rec) \in Nat
  <2>1. e.id \in 1 .. Len(rec) /\ rec[e.id] \in RecordType /\ e.by \in {"died", "ended"}
        /\ Len(rec) <= MaxStarts /\ Len(rec) \in Nat
    BY DEF IInv, Typed, RecsTyped, ThreadsTyped
  <2> QED
    BY <2>1, Fields DEF App
<1>3. /\ t0.app = App(e.id) /\ t0.id = e.id /\ t0.by = e.by /\ t0.by # "load"
      /\ t0 \in [app : Apps, id : 0 .. MaxStarts, by : {"died", "ended", "load"}]
  <2>1. e.id \in 0 .. MaxStarts
    BY <1>2, ResidentAssumption
  <2> QED
    BY <1>2, <2>1
<1> HIDE DEF t0
<1>4. Typed'
  <2>1. QueueTyped'
    BY <1>1, <1>2, <1>3 DEF IInv, Typed, QueueTyped
  <2> QED
    BY <1>1, <2>1 DEF IInv, Typed, RecsTyped, ThreadsTyped, MemoryTyped, EnvTyped
<1>5. RowsOK' /\ Marked' /\ NothingLeftListed'
  BY <1>1 DEF IInv, RowsOK, Marked, NothingLeftListed
<1>6. TasksOK'
  BY <1>1, <1>2, <1>3 DEF IInv, TasksOK, App
<1>7. \A i \in 1 .. Len(rec) : \A by : Pending(i, by)' => Pending(i, by)
  BY <1>1, <1>3 DEF Pending
<1>8. Once'
  <2>1. \A d \in exits', t \in tasks' : ~(d.id = t.id /\ d.by = t.by)
    BY <1>1, <1>3 DEF IInv, Once
  <2> QED
    BY <2>1, <1>1, <1>7 DEF IInv, Once
<1>9. Quota'
  BY <1>1, <1>7 DEF IInv, Quota, MayDie, MayEnd
<1>10. Registered'
  BY <1>1, <1>3 DEF IInv, Registered
<1>11. Accounted'
  <2>1. ASSUME NEW a \in Apps, ~Shared(a), Safe(a)
        PROVE  Safe(a)'
    <3>1. CASE App(e.id) # a
      BY <1>1, <2>1, <3>1 DEF Safe, Exists, Held, Coming, App
    <3>2. CASE App(e.id) = a
      <4>1. \E t \in tasks' : t.app = a
        <5>1. CASE tasks' = tasks \cup {t0}
          BY <5>1, <3>2, <1>3
        <5>2. CASE name \in waiting /\ tasks' = tasks
          <6>1. PICK t \in tasks : BundleOf[t.app] = name
            BY <5>2 DEF IInv, Registered
          <6>2. t.app \in Apps
            BY DEF IInv, Typed, QueueTyped
          <6>3. t.app = a
            BY <6>1, <6>2, <3>2, <2>1 DEF Shared
          <6> QED
            BY <5>2, <6>3
        <5> QED
          BY <1>1, <5>1, <5>2
      <4> QED
        BY <4>1 DEF Safe, Coming
    <3> QED
      BY <3>1, <3>2
  <2> QED
    BY <1>1, <2>1, AccountedKept DEF IInv
<1> QED
  BY <1>4, <1>5, <1>6, <1>8, <1>9, <1>10, <1>11 DEF IInv
-------------------------------------------------------------------------------
(* Starts.                                                                 *)

\* A restart counts for its record, and finds one of the process or starts one.
LEMMA RestartResidentProcessStep ==
    ASSUME IInv, NEW t \in tasks, RestartResidentProcess(t)
    PROVE  IInv'
<1> DEFINE i == t.id
           r == [rec[i] EXCEPT !.count = rec[i].count - 1]
           s0 == [app |-> t.app, count |-> rec'[i].count, by |-> t.by, row |-> rec[i].row + 1]
<1>1. /\ t.by # "load" /\ tasks' = tasks \ {t} /\ waiting' = waiting \ {BundleOf[t.app]}
      /\ rec' = [rec EXCEPT ![i] = r]
      /\ starting' = IF Exists(t.app) THEN starting ELSE starting \cup {s0}
      /\ UNCHANGED <<map, filling, exits, notices, low, big, web, screen, killing, front, env>>
  BY DEF RestartResidentProcess, memory
<1>2. /\ i \in 1 .. Len(rec) /\ App(i) = t.app /\ t.app \in Apps /\ t.by \in {"died", "ended"}
      /\ rec[i] \in RecordType /\ Len(rec) \in Nat /\ rec[i].row < i
  BY <1>1 DEF IInv, Typed, RecsTyped, QueueTyped, TasksOK, RowsOK
<1>3. Pending(i, t.by) /\ rec[i].count >= -1 /\ rec[i].count \in Int /\ rec[i].count <= MaxRestart
      /\ rec[i].row \in Nat
  <2>1. Pending(i, t.by)
    BY DEF Pending
  <2>2. MayDie(i) \/ MayEnd(i)
    BY <1>2, <2>1 DEF MayDie, MayEnd
  <2> QED
    BY <1>2, <2>1, <2>2, Fields DEF IInv, Quota
<1>4. /\ r \in RecordType /\ r.count = rec[i].count - 1
      /\ r.app = rec[i].app /\ r.row = rec[i].row /\ r.state = rec[i].state
      /\ r.alive = rec[i].alive /\ r.keepAlive = rec[i].keepAlive
  <2>1. rec[i].count - 1 \in -2 .. MaxRestart
    BY <1>3, ResidentAssumption
  <2>2. r \in RecordType
    BY <1>2, <2>1 DEF RecordType
  <2>3. r.count = rec[i].count - 1 /\ r.app = rec[i].app /\ r.row = rec[i].row
        /\ r.state = rec[i].state
    BY <1>2 DEF RecordType
  <2>4. r.alive = rec[i].alive /\ r.keepAlive = rec[i].keepAlive
    BY <1>2 DEF RecordType
  <2> QED
    BY <2>2, <2>3, <2>4
<1> HIDE DEF i, r
<1>5. /\ RecsTyped' /\ Len(rec') = Len(rec) /\ rec'[i] = r
      /\ \A j \in 1 .. Len(rec) : j # i => rec'[j] = rec[j]
  BY <1>1, <1>2, <1>4, RecUpdated DEF IInv, Typed
<1>6. /\ s0 \in [app : Apps, count : Int, by : {"died", "ended", "load"}, row : Nat]
      /\ s0.app = t.app /\ s0.row = rec[i].row + 1 /\ s0.count = rec[i].count - 1
  BY <1>2, <1>3, <1>4, <1>5
<1>7. s0.row <= Len(rec) /\ s0.count <= MaxRestart
  BY <1>2, <1>3, <1>6, ResidentAssumption
<1> HIDE DEF s0
<1>8. Typed'
  <2>1. ThreadsTyped'
    BY <1>1, <1>5, <1>6 DEF IInv, Typed, ThreadsTyped
  <2>2. QueueTyped' /\ MemoryTyped' /\ EnvTyped'
    BY <1>1 DEF IInv, Typed, QueueTyped, MemoryTyped, EnvTyped
  <2> QED
    BY <2>1, <2>2, <1>5 DEF Typed
<1>9. RowsOK'
  BY <1>1, <1>4, <1>5, <1>7 DEF IInv, RowsOK
<1>10. TasksOK'
  <2>1. \A e \in exits : e.id \in 1 .. Len(rec)
    BY DEF IInv, Typed, ThreadsTyped
  <2> QED
    BY <2>1, <1>1, <1>4, <1>5 DEF IInv, TasksOK, App
<1>11. /\ \A j \in 1 .. Len(rec) : \A by : Pending(j, by)' => Pending(j, by)
       /\ ~Pending(i, t.by)'
  <2>1. \A u \in tasks : u.id = i /\ u.by = t.by => u = t
    <3>1. \A u \in tasks : u \in [app : Apps, id : 0 .. MaxStarts, by : {"died", "ended", "load"}]
      BY DEF IInv, Typed, QueueTyped
    <3>2. \A u \in tasks : u.id = i /\ u.by = t.by => u.app = t.app
      BY <1>1, <1>2 DEF IInv, TasksOK
    <3> QED
      BY <3>1, <3>2 DEF i
  <2>2. \A e \in exits : ~(e.id = i /\ e.by = t.by)
    BY DEF IInv, Once, i
  <2> QED
    BY <2>1, <2>2, <1>1 DEF Pending
<1>12. Once'
  <2>1. \A d \in exits', u \in tasks' : ~(d.id = u.id /\ d.by = u.by)
    BY <1>1 DEF IInv, Once
  <2> QED
    BY <2>1, <1>1, <1>4, <1>5, <1>11 DEF IInv, Once
<1>13. Quota'
  <2> SUFFICES ASSUME NEW j \in 1 .. Len(rec)
               PROVE  /\ MayDie(j)' \/ MayEnd(j)' => rec'[j].count >= -1
                      /\ MayDie(j)' /\ MayEnd(j)' => rec'[j].count >= 0
    BY <1>5 DEF Quota
  <2>1. (MayDie(j)' => MayDie(j)) /\ (MayEnd(j)' => MayEnd(j))
    BY <1>1, <1>4, <1>5, <1>11 DEF MayDie, MayEnd
  <2>2. CASE j # i
    BY <2>1, <2>2, <1>5 DEF IInv, Quota
  <2>3. CASE j = i /\ t.by = "died"
    <3>1. MayDie(i) /\ ~MayDie(i)'
      <4>1. i \notin map
        BY <2>3, <1>2, <1>3 DEF IInv, Once
      <4> QED
        BY <4>1, <2>3, <1>1, <1>3, <1>11 DEF MayDie
    <3>2. MayEnd(i) => rec[i].count >= 0
      BY <3>1, <1>2 DEF IInv, Quota
    <3> QED
      BY <2>1, <2>3, <3>1, <3>2, <1>3, <1>4, <1>5
  <2>4. CASE j = i /\ t.by = "ended"
    <3>1. MayEnd(i) /\ ~MayEnd(i)'
      <4>1. ~(rec[i].alive = TRUE)
        BY <2>4, <1>2, <1>3 DEF IInv, Once
      <4> QED
        BY <4>1, <2>4, <1>3, <1>4, <1>5, <1>11 DEF MayEnd
    <3>2. MayDie(i) => rec[i].count >= 0
      BY <3>1, <1>2 DEF IInv, Quota
    <3> QED
      BY <2>1, <2>4, <3>1, <3>2, <1>3, <1>4, <1>5
  <2> QED
    BY <2>2, <2>3, <2>4, <1>2
<1>14. NothingLeftListed' /\ Registered'
  BY <1>1 DEF IInv, NothingLeftListed, Registered
<1>15. Marked'
  BY <1>1, <1>4, <1>5 DEF IInv, Marked
<1>16. Accounted'
  <2>1. \A j \in 1 .. Len(rec) : App(j)' = App(j)
    BY <1>4, <1>5 DEF App
  <2>2. map \subseteq 1 .. Len(rec) /\ \A e \in exits : e.id \in 1 .. Len(rec)
    BY DEF IInv, Typed, ThreadsTyped
  <2>3. Safe(t.app)'
    BY <1>1, <1>6, <2>1, <2>2 DEF Safe, Exists, Coming
  <2>4. \A a \in Apps : Safe(a) => Safe(a)'
    BY <1>1, <2>1, <2>2, <2>3 DEF Safe, Exists, Held, Coming
  <2> QED
    BY <1>1, <2>4, AccountedKept DEF IInv
<1> QED
  BY <1>8, <1>9, <1>10, <1>12, <1>13, <1>14, <1>15, <1>16 DEF IInv

\* A start for residence finds a record of the process or makes one.
LEMMA LoadResidentProcessStep ==
    ASSUME IInv, NEW t \in tasks, LoadResidentProcess(t)
    PROVE  IInv'
<1> DEFINE s0 == [app |-> t.app, count |-> -1, by |-> "load", row |-> 0]
<1>1. /\ t.by = "load" /\ tasks' = tasks \ {t}
      /\ starting' = IF Exists(t.app) THEN starting ELSE starting \cup {s0}
      /\ UNCHANGED <<rec, map, filling, exits, notices, waiting, low, big, web, screen, killing,
                     front, env>>
  BY DEF LoadResidentProcess, memory
<1>2. t.app \in Apps /\ Len(rec) \in Nat
  BY DEF IInv, Typed, QueueTyped, RecsTyped
<1>3. /\ s0 \in [app : Apps, count : Int, by : {"died", "ended", "load"}, row : Nat]
      /\ s0.app = t.app /\ s0.row = 0 /\ s0.count = -1
  BY <1>2
<1>4. s0.row <= Len(rec) /\ s0.count <= MaxRestart
  BY <1>2, <1>3, ResidentAssumption
<1> HIDE DEF s0
<1>5. Typed'
  <2>1. ThreadsTyped'
    BY <1>1, <1>3 DEF IInv, Typed, ThreadsTyped
  <2>2. RecsTyped' /\ QueueTyped' /\ MemoryTyped' /\ EnvTyped'
    BY <1>1 DEF IInv, Typed, RecsTyped, QueueTyped, MemoryTyped, EnvTyped
  <2> QED
    BY <2>1, <2>2 DEF Typed
<1>6. RowsOK'
  BY <1>1, <1>4 DEF IInv, RowsOK
<1>7. TasksOK' /\ NothingLeftListed' /\ Marked' /\ Registered'
  BY <1>1 DEF IInv, TasksOK, App, NothingLeftListed, Marked, Registered
<1>8. \A i \in 1 .. Len(rec) : \A by : Pending(i, by)' => Pending(i, by)
  BY <1>1 DEF Pending
<1>9. Once' /\ Quota'
  BY <1>1, <1>8 DEF IInv, Once, Quota, MayDie, MayEnd
<1>10. Accounted'
  <2>1. Safe(t.app)'
    BY <1>1, <1>3 DEF Safe, Exists, Coming, App
  <2>2. \A a \in Apps : Safe(a) => Safe(a)'
    BY <1>1, <2>1 DEF Safe, Exists, Held, Coming, App
  <2> QED
    BY <1>1, <2>2, AccountedKept DEF IInv
<1> QED
  BY <1>5, <1>6, <1>7, <1>9, <1>10 DEF IInv

\* A new record is in the map at once.
LEMMA StartEmptyResidentProcessStep ==
    ASSUME IInv, NEW s \in starting, StartEmptyResidentProcess(s)
    PROVE  IInv'
<1> DEFINE r == Record(s.app, s.row)
           n == Len(rec) + 1
           f0 == [id |-> n, count |-> s.count]
<1>1. /\ Len(rec) < MaxStarts /\ starting' = starting \ {s} /\ rec' = Append(rec, r)
      /\ map' = map \cup {Len(rec')} /\ filling' = filling \cup {[id |-> Len(rec'), count |-> s.count]}
      /\ UNCHANGED <<exits, tasks, notices, waiting, low, big, web, screen, killing, front, env>>
  BY DEF StartEmptyResidentProcess, queue, memory
<1>2. /\ s.app \in Apps /\ s.count \in Int /\ s.count <= MaxRestart /\ s.row \in Nat /\ s.row <= Len(rec)
      /\ rec \in Seq(RecordType) /\ Len(rec) \in Nat
  BY DEF IInv, Typed, RecsTyped, ThreadsTyped, RowsOK
<1>3. /\ r \in RecordType /\ r.app = s.app /\ r.row = s.row /\ r.state = "created" /\ r.count = 0
  <2>1. s.row \in 0 .. MaxStarts /\ 0 \in -2 .. MaxRestart
    BY <1>1, <1>2, ResidentAssumption
  <2> QED
    BY <1>2, <2>1 DEF Record, RecordType
<1> HIDE DEF r
<1>4. /\ rec' \in Seq(RecordType) /\ Len(rec') = n /\ rec'[n] = r
      /\ \A j \in 1 .. Len(rec) : rec'[j] = rec[j]
  BY <1>1, <1>2, <1>3
<1>5. n \in 1 .. n /\ n \in Nat /\ n <= MaxStarts /\ 1 .. Len(rec) \subseteq 1 .. n
      /\ \A j \in 1 .. n : j # n => j \in 1 .. Len(rec)
  BY <1>1, <1>2, ResidentAssumption
<1>6. /\ map' = map \cup {n} /\ filling' = filling \cup {f0}
      /\ f0 \in [id : 1 .. n, count : Int] /\ f0.count = s.count
  BY <1>1, <1>2, <1>4, <1>5
<1>7. s.row < n /\ s.row \in Nat
  BY <1>2
<1>8. \A e \in exits : e.id \in 1 .. Len(rec) /\ e.by # "load"
  BY DEF IInv, Typed, ThreadsTyped
<1>9. n \notin 1 .. Len(rec)
  BY <1>2
<1> HIDE DEF n, f0
<1>10. Typed'
  <2>1. RecsTyped'
    BY <1>4, <1>5 DEF RecsTyped
  <2>2. ThreadsTyped'
    <3>1. map' \subseteq 1 .. n /\ killing' \subseteq 1 .. n
      BY <1>1, <1>5, <1>6 DEF IInv, Typed, ThreadsTyped
    <3>2. filling' \subseteq [id : 1 .. n, count : Int]
      BY <1>5, <1>6 DEF IInv, Typed, ThreadsTyped
    <3>3. exits' \subseteq [id : 1 .. n, by : {"died", "ended"},
                            pc : {"remove", "web", "low", "big", "submit"}]
      BY <1>1, <1>5 DEF IInv, Typed, ThreadsTyped
    <3> QED
      BY <3>1, <3>2, <3>3, <1>1, <1>4 DEF IInv, Typed, ThreadsTyped
  <2>3. QueueTyped' /\ MemoryTyped' /\ EnvTyped'
    BY <1>1 DEF IInv, Typed, QueueTyped, MemoryTyped, EnvTyped
  <2> QED
    BY <2>1, <2>2, <2>3 DEF Typed
<1>11. RowsOK'
  <2>1. \A i \in 1 .. n : rec'[i].row < i
    BY <1>3, <1>4, <1>5, <1>7 DEF IInv, RowsOK
  <2>2. \A u \in starting' : u.row <= n /\ u.count <= MaxRestart
    <3>1. \A u \in starting : u.row <= Len(rec) /\ u.row \in Nat /\ u.count <= MaxRestart
      BY DEF IInv, Typed, ThreadsTyped, RowsOK
    <3> QED
      BY <3>1, <1>1, <1>2 DEF n
  <2>3. \A f \in filling' : f.count <= MaxRestart
    BY <1>2, <1>6 DEF IInv, RowsOK
  <2> QED
    BY <2>1, <2>2, <2>3, <1>4 DEF RowsOK
<1>12. TasksOK'
  BY <1>1, <1>4, <1>5, <1>8 DEF IInv, TasksOK, App
<1>13. \A i, by : Pending(i, by)' <=> Pending(i, by)
  BY <1>1 DEF Pending
<1>14. ~Pending(n, "died") /\ ~Pending(n, "ended")
  BY <1>8, <1>9 DEF Pending, IInv, TasksOK
<1>15. Once'
  BY <1>1, <1>4, <1>5, <1>6, <1>9, <1>13, <1>14 DEF IInv, Once
<1>16. Quota'
  <2>1. \A j \in 1 .. Len(rec) : (MayDie(j)' <=> MayDie(j)) /\ (MayEnd(j)' <=> MayEnd(j))
    BY <1>4, <1>6, <1>9, <1>13 DEF MayDie, MayEnd
  <2> QED
    BY <2>1, <1>3, <1>4, <1>5 DEF IInv, Quota
<1>17. NothingLeftListed' /\ Registered'
  BY <1>1 DEF IInv, NothingLeftListed, Registered
<1>18. Marked'
  BY <1>1, <1>3, <1>4, <1>5 DEF IInv, Marked
<1>19. Accounted'
  <2>1. \A j \in 1 .. Len(rec) : App(j)' = App(j)
    BY <1>4 DEF App
  <2>2. map \subseteq 1 .. Len(rec)
    BY DEF IInv, Typed, ThreadsTyped
  <2>3. Safe(s.app)'
    BY <1>3, <1>4, <1>6 DEF Safe, Exists, App
  <2>4. \A a \in Apps : Safe(a) => Safe(a)'
    BY <1>1, <1>6, <1>8, <2>1, <2>2, <2>3 DEF Safe, Exists, Held, Coming
  <2> QED
    BY <1>1, <2>4, AccountedKept DEF IInv
<1> QED
  BY <1>10, <1>11, <1>12, <1>15, <1>16, <1>17, <1>18, <1>19 DEF IInv

\* Where a spawn can fail nothing is promised.
LEMMA SpawnFailsStep ==
    ASSUME IInv, NEW s \in starting, SpawnFails(s)
    PROVE  IInv'
<1>1. /\ "spawn" \in env.faults /\ starting' = starting \ {s}
      /\ UNCHANGED <<rec, map, filling, exits, tasks, notices, waiting, low, big, web, screen,
                     killing, front, env>>
  BY DEF SpawnFails, queue, memory
<1>2. Typed'
  BY <1>1 DEF IInv, Typed, RecsTyped, ThreadsTyped, QueueTyped, MemoryTyped, EnvTyped
<1>3. RowsOK' /\ TasksOK' /\ NothingLeftListed' /\ Marked' /\ Registered'
  BY <1>1 DEF IInv, RowsOK, TasksOK, App, NothingLeftListed, Marked, Registered
<1>4. Once' /\ Quota'
  BY <1>1 DEF IInv, Once, Quota, MayDie, MayEnd, Pending
<1>5. Accounted'
  BY <1>1 DEF Accounted
<1> QED
  BY <1>2, <1>3, <1>4, <1>5 DEF IInv

\* Starts are submitted.
LEMMA LoadsAdded ==
    ASSUME IInv, NEW S \in SUBSET Apps, tasks' = tasks \cup Load(S),
           UNCHANGED <<rec, map, starting, filling, exits, waiting, low, big, web, screen,
                       killing, env>>,
           notices' \subseteq notices, front' \in [user : Users, back : Users \cup {NoSwitch}]
    PROVE  /\ Typed' /\ RowsOK' /\ TasksOK' /\ Once' /\ Quota'
           /\ NothingLeftListed' /\ Marked' /\ Registered'
           /\ \A a \in S : \E t \in tasks' : t.app = a
<1>1. /\ \A x \in Load(S) : /\ x \in [app : Apps, id : 0 .. MaxStarts, by : {"died", "ended", "load"}]
                            /\ x.by = "load"
      /\ \A a \in S : \E x \in Load(S) : x.app = a
  <2>1. 0 \in 0 .. MaxStarts
    BY ResidentAssumption
  <2>2. ASSUME NEW x \in Load(S)
        PROVE  /\ x \in [app : Apps, id : 0 .. MaxStarts, by : {"died", "ended", "load"}]
               /\ x.by = "load"
    <3>1. PICK a \in S : x = [app |-> a, id |-> 0, by |-> "load"]
      BY DEF Load
    <3> QED
      BY <2>1, <3>1
  <2>3. ASSUME NEW a \in S
        PROVE  \E x \in Load(S) : x.app = a
    <3>1. [app |-> a, id |-> 0, by |-> "load"] \in Load(S)
      BY DEF Load
    <3> QED
      BY <3>1
  <2> QED
    BY <2>2, <2>3
<1>2. Typed'
  BY <1>1 DEF IInv, Typed, RecsTyped, ThreadsTyped, QueueTyped, MemoryTyped, EnvTyped
<1>3. RowsOK' /\ TasksOK' /\ NothingLeftListed' /\ Marked' /\ Registered'
  BY <1>1 DEF IInv, RowsOK, TasksOK, App, NothingLeftListed, Marked, Registered
<1>4. \A i : (Pending(i, "died")' <=> Pending(i, "died")) /\ (Pending(i, "ended")' <=> Pending(i, "ended"))
  BY <1>1 DEF Pending
<1>5. Once' /\ Quota'
  <2>1. \A e \in exits : e.by # "load"
    BY DEF IInv, Typed, ThreadsTyped
  <2>2. Once'
    BY <1>1, <1>4, <2>1 DEF IInv, Once
  <2>3. Quota'
    BY <1>4 DEF IInv, Quota, MayDie, MayEnd
  <2> QED
    BY <2>2, <2>3
<1> QED
  BY <1>1, <1>2, <1>3, <1>5

\* A notice becomes a start of each application whose user is in front.
LEMMA NotifyStartResidentProcessStep ==
    ASSUME IInv, NEW S \in notices, NotifyStartResidentProcess(S)
    PROVE  IInv'
<1> DEFINE F == {a \in S : InFront(a)}
<1>1. /\ notices' = notices \ {S} /\ tasks' = tasks \cup Load(F)
      /\ UNCHANGED <<rec, map, starting, filling, exits, waiting, low, big, web, screen, killing,
                     front, env>>
  BY DEF NotifyStartResidentProcess, memory
<1>2. S \in SUBSET Apps /\ F \in SUBSET Apps
      /\ front \in [user : Users, back : Users \cup {NoSwitch}]
  BY DEF IInv, Typed, QueueTyped, MemoryTyped
<1> HIDE DEF F
<1>3. /\ Typed' /\ RowsOK' /\ TasksOK' /\ Once' /\ Quota'
      /\ NothingLeftListed' /\ Marked' /\ Registered'
      /\ \A a \in F : \E t \in tasks' : t.app = a
  BY <1>1, <1>2, LoadsAdded
<1>4. Accounted'
  <2>1. \A a \in S : InFront(a) => Safe(a)'
    BY <1>3 DEF Safe, Coming, F
  <2>2. \A a \in Apps : InFront(a) /\ Safe(a) => Safe(a)'
    BY <1>1, <2>1 DEF Safe, Exists, Held, Coming, App
  <2> QED
    BY <1>1, <2>2, AccountedKept DEF IInv
<1> QED
  BY <1>3, <1>4 DEF IInv
-------------------------------------------------------------------------------
(* Memory, the screen and the web engine.                                  *)


\* A shortage begins with an empty list.
LEMMA HandleMemorySizeInSufficentStep ==
    ASSUME IInv, HandleMemorySizeInSufficent
    PROVE  IInv'
<1>1. /\ ~low.now /\ low' = [low EXCEPT !.now = TRUE] /\ Spend("low")
      /\ UNCHANGED <<rec, map, starting, filling, exits, tasks, notices, waiting, big, web,
                     screen, killing, front>>
  BY DEF HandleMemorySizeInSufficent, queue
<1>2. EnvTyped' /\ env'.faults = env.faults
  BY <1>1, Spent DEF IInv, Typed, Kinds
<1>3. MemoryTyped
  BY DEF IInv, Typed
<1>4. MemoryTyped' /\ NothingLeftListed'
  BY <1>1, <1>3 DEF IInv, MemoryTyped, NothingLeftListed
<1>5. killing' \subseteq 1 .. Len(rec) /\ notices \subseteq notices'
      /\ notices' \subseteq SUBSET Apps
  BY <1>1, <1>3 DEF IInv, Typed, RecsTyped, ThreadsTyped, QueueTyped, MemoryTyped
<1>6. \A a \in Apps : Held(a) => Held(a)' \/ \E S \in notices' : a \in S
  BY <1>1, <1>3 DEF Held, MemoryTyped
<1> QED
  BY <1>1, <1>2, <1>4, <1>5, <1>6, MemoryStep

\* The end of a shortage hands the list on under the lock.
LEMMA HandleMemorySizeSufficientStep ==
    ASSUME IInv, HandleMemorySizeSufficient
    PROVE  IInv'
<1>1. /\ low.now /\ low' = [now |-> FALSE, list |-> {}] /\ notices' = notices \cup {low.list}
      /\ UNCHANGED <<rec, map, starting, filling, exits, tasks, waiting, big, web, screen,
                     killing, front, env>>
  BY DEF HandleMemorySizeSufficient, queue
<1>2. EnvTyped' /\ env'.faults = env.faults
  BY <1>1 DEF IInv, Typed, EnvTyped
<1>3. MemoryTyped
  BY DEF IInv, Typed
<1>4. MemoryTyped' /\ NothingLeftListed'
  BY <1>1, <1>3 DEF IInv, MemoryTyped, NothingLeftListed
<1>5. killing' \subseteq 1 .. Len(rec) /\ notices \subseteq notices'
      /\ notices' \subseteq SUBSET Apps
  BY <1>1, <1>3 DEF IInv, Typed, RecsTyped, ThreadsTyped, QueueTyped, MemoryTyped
<1>6. \A a \in Apps : Held(a) => Held(a)' \/ \E S \in notices' : a \in S
  BY <1>1, <1>3 DEF Held, MemoryTyped
<1> QED
  BY <1>1, <1>2, <1>4, <1>5, <1>6, MemoryStep

\* Nothing is listed yet.
LEMMA SubscribeScreenOffEventStep ==
    ASSUME IInv, SubscribeScreenOffEvent
    PROVE  IInv'
<1>1. /\ screen' = [screen EXCEPT !.sub = TRUE, !.require = TRUE] /\ Spend("big")
      /\ UNCHANGED <<rec, map, starting, filling, exits, tasks, notices, waiting, low, big, web,
                     killing, front>>
  BY DEF SubscribeScreenOffEvent, queue
<1>2. EnvTyped' /\ env'.faults = env.faults
  BY <1>1, Spent DEF IInv, Typed, Kinds
<1>3. MemoryTyped
  BY DEF IInv, Typed
<1>4. MemoryTyped' /\ NothingLeftListed'
  BY <1>1, <1>3 DEF IInv, MemoryTyped, NothingLeftListed
<1>5. killing' \subseteq 1 .. Len(rec) /\ notices \subseteq notices'
      /\ notices' \subseteq SUBSET Apps
  BY <1>1, <1>3 DEF IInv, Typed, RecsTyped, ThreadsTyped, QueueTyped, MemoryTyped
<1>6. \A a \in Apps : Held(a) => Held(a)' \/ \E S \in notices' : a \in S
  BY <1>1, <1>3 DEF Held, MemoryTyped
<1> QED
  BY <1>1, <1>2, <1>4, <1>5, <1>6, MemoryStep

\* What was listed stays so.
LEMMA HandleRequireBigMemoryOptimizationStep ==
    ASSUME IInv, HandleRequireBigMemoryOptimization
    PROVE  IInv'
<1>1. /\ screen' = [screen EXCEPT !.require = FALSE] /\ big' = [big EXCEPT !.now = TRUE]
      /\ UNCHANGED <<rec, map, starting, filling, exits, tasks, notices, waiting, low, web,
                     killing, front, env>>
  BY DEF HandleRequireBigMemoryOptimization, queue
<1>2. EnvTyped' /\ env'.faults = env.faults
  BY <1>1 DEF IInv, Typed, EnvTyped
<1>3. MemoryTyped
  BY DEF IInv, Typed
<1>4. MemoryTyped' /\ NothingLeftListed'
  BY <1>1, <1>3 DEF IInv, MemoryTyped, NothingLeftListed
<1>5. killing' \subseteq 1 .. Len(rec) /\ notices \subseteq notices'
      /\ notices' \subseteq SUBSET Apps
  BY <1>1, <1>3 DEF IInv, Typed, RecsTyped, ThreadsTyped, QueueTyped, MemoryTyped
<1>6. \A a \in Apps : Held(a) => Held(a)' \/ \E S \in notices' : a \in S
  BY <1>1, <1>3 DEF Held, MemoryTyped
<1> QED
  BY <1>1, <1>2, <1>4, <1>5, <1>6, MemoryStep

\* The end of the requirement hands the list on.
LEMMA NoRequireBigMemoryStep ==
    ASSUME IInv, NoRequireBigMemory
    PROVE  IInv'
<1>1. /\ big' = [now |-> FALSE, list |-> {}] /\ notices' = notices \cup {big.list}
      /\ UNCHANGED <<rec, map, starting, filling, exits, tasks, waiting, low, web, screen,
                     killing, front, env>>
  BY DEF NoRequireBigMemory, ReleaseBig
<1>2. EnvTyped' /\ env'.faults = env.faults
  BY <1>1 DEF IInv, Typed, EnvTyped
<1>3. MemoryTyped
  BY DEF IInv, Typed
<1>4. MemoryTyped' /\ NothingLeftListed'
  BY <1>1, <1>3 DEF IInv, MemoryTyped, NothingLeftListed
<1>5. killing' \subseteq 1 .. Len(rec) /\ notices \subseteq notices'
      /\ notices' \subseteq SUBSET Apps
  BY <1>1, <1>3 DEF IInv, Typed, RecsTyped, ThreadsTyped, QueueTyped, MemoryTyped
<1>6. \A a \in Apps : Held(a) => Held(a)' \/ \E S \in notices' : a \in S
  BY <1>1, <1>3 DEF Held, MemoryTyped
<1> QED
  BY <1>1, <1>2, <1>4, <1>5, <1>6, MemoryStep

\* So does the screen, if there is one.
LEMMA OnScreenOffStep ==
    ASSUME IInv, OnScreenOff
    PROVE  IInv'
<1>1. /\ \/ big' = [now |-> FALSE, list |-> {}] /\ notices' = notices \cup {big.list}
         \/ UNCHANGED <<big, notices>>
      /\ screen' = [screen EXCEPT !.unsub = TRUE]
      /\ UNCHANGED <<rec, map, starting, filling, exits, tasks, waiting, low, web, killing,
                     front, env>>
  BY DEF OnScreenOff, ReleaseBig
<1>2. EnvTyped' /\ env'.faults = env.faults
  BY <1>1 DEF IInv, Typed, EnvTyped
<1>3. MemoryTyped
  BY DEF IInv, Typed
<1>4. MemoryTyped' /\ NothingLeftListed'
  <2>1. screen' \in [sub : BOOLEAN, unsub : BOOLEAN, require : BOOLEAN]
    BY <1>1, <1>3 DEF MemoryTyped
  <2>2. CASE big' = [now |-> FALSE, list |-> {}]
    BY <2>1, <2>2, <1>1, <1>3 DEF IInv, MemoryTyped, NothingLeftListed
  <2>3. CASE big' = big
    BY <2>1, <2>3, <1>1, <1>3 DEF IInv, MemoryTyped, NothingLeftListed
  <2> QED
    BY <2>2, <2>3, <1>1
<1>5. killing' \subseteq 1 .. Len(rec) /\ notices \subseteq notices'
      /\ notices' \subseteq SUBSET Apps
  BY <1>1, <1>3 DEF IInv, Typed, RecsTyped, ThreadsTyped, QueueTyped, MemoryTyped
<1>6. \A a \in Apps : Held(a) => Held(a)' \/ \E S \in notices' : a \in S
  BY <1>1, <1>3 DEF Held, MemoryTyped
<1> QED
  BY <1>1, <1>2, <1>4, <1>5, <1>6, MemoryStep

\* The subscription does not matter to the lists.
LEMMA UnSubscribeScreenOffEventStep ==
    ASSUME IInv, UnSubscribeScreenOffEvent
    PROVE  IInv'
<1>1. /\ screen' = [screen EXCEPT !.sub = FALSE, !.unsub = FALSE]
      /\ UNCHANGED <<rec, map, starting, filling, exits, tasks, notices, waiting, low, big, web,
                     killing, front, env>>
  BY DEF UnSubscribeScreenOffEvent, queue
<1>2. EnvTyped' /\ env'.faults = env.faults
  BY <1>1 DEF IInv, Typed, EnvTyped
<1>3. MemoryTyped
  BY DEF IInv, Typed
<1>4. MemoryTyped' /\ NothingLeftListed'
  BY <1>1, <1>3 DEF IInv, MemoryTyped, NothingLeftListed
<1>5. killing' \subseteq 1 .. Len(rec) /\ notices \subseteq notices'
      /\ notices' \subseteq SUBSET Apps
  BY <1>1, <1>3 DEF IInv, Typed, RecsTyped, ThreadsTyped, QueueTyped, MemoryTyped
<1>6. \A a \in Apps : Held(a) => Held(a)' \/ \E S \in notices' : a \in S
  BY <1>1, <1>3 DEF Held, MemoryTyped
<1> QED
  BY <1>1, <1>2, <1>4, <1>5, <1>6, MemoryStep

\* The records to kill are those of the map.
LEMMA KillProcessDependedOnWebStep ==
    ASSUME IInv, KillProcessDependedOnWeb
    PROVE  IInv'
<1>1. /\ killing' = {i \in map : rec[i].state = "ready" /\ App(i) \in WebApps} /\ Spend("web")
      /\ UNCHANGED <<rec, map, starting, filling, exits, tasks, notices, waiting, low, big, web,
                     screen, front>>
  BY DEF KillProcessDependedOnWeb, queue, memory
<1>2. EnvTyped' /\ env'.faults = env.faults
  BY <1>1, Spent DEF IInv, Typed, Kinds
<1>3. MemoryTyped
  BY DEF IInv, Typed
<1>4. MemoryTyped' /\ NothingLeftListed'
  BY <1>1, <1>3 DEF IInv, MemoryTyped, NothingLeftListed
<1>5. killing' \subseteq 1 .. Len(rec) /\ notices \subseteq notices'
      /\ notices' \subseteq SUBSET Apps
  BY <1>1, <1>3 DEF IInv, Typed, RecsTyped, ThreadsTyped, QueueTyped, MemoryTyped
<1>6. \A a \in Apps : Held(a) => Held(a)' \/ \E S \in notices' : a \in S
  BY <1>1, <1>3 DEF Held, MemoryTyped
<1> QED
  BY <1>1, <1>2, <1>4, <1>5, <1>6, MemoryStep

\* The end of the upgrade hands the list on.
LEMMA RestartResidentProcessDependedOnWebStep ==
    ASSUME IInv, RestartResidentProcessDependedOnWeb
    PROVE  IInv'
<1>1. /\ notices' = notices \cup {web} /\ web' = {}
      /\ UNCHANGED <<rec, map, starting, filling, exits, tasks, waiting, low, big, screen,
                     killing, front, env>>
  BY DEF RestartResidentProcessDependedOnWeb, queue
<1>2. EnvTyped' /\ env'.faults = env.faults
  BY <1>1 DEF IInv, Typed, EnvTyped
<1>3. MemoryTyped
  BY DEF IInv, Typed
<1>4. MemoryTyped' /\ NothingLeftListed'
  BY <1>1, <1>3 DEF IInv, MemoryTyped, NothingLeftListed
<1>5. killing' \subseteq 1 .. Len(rec) /\ notices \subseteq notices'
      /\ notices' \subseteq SUBSET Apps
  BY <1>1, <1>3 DEF IInv, Typed, RecsTyped, ThreadsTyped, QueueTyped, MemoryTyped
<1>6. \A a \in Apps : Held(a) => Held(a)' \/ \E S \in notices' : a \in S
  BY <1>1, <1>3 DEF Held, MemoryTyped
<1> QED
  BY <1>1, <1>2, <1>4, <1>5, <1>6, MemoryStep
-------------------------------------------------------------------------------
(* Users.                                                                  *)

\* Until SwitchToUser has run, the start of the new user's processes is still
\* to come.
LEMMA StartUserStep ==
    ASSUME IInv, NEW u \in Users, StartUser(u)
    PROVE  IInv'
<1>1. /\ front.back = NoSwitch /\ front' = [user |-> u, back |-> front.user] /\ Spend("switch")
      /\ UNCHANGED <<rec, map, starting, filling, exits, tasks, notices, waiting, low, big, web,
                     screen, killing>>
  BY DEF StartUser, queue, memory
<1>2. EnvTyped' /\ env'.faults = env.faults
  BY <1>1, Spent DEF IInv, Typed, Kinds
<1>3. front.user \in Users /\ front'.user = u /\ front'.back # NoSwitch
  BY <1>1, ResidentAssumption DEF IInv, Typed, MemoryTyped
<1>4. Typed'
  <2>1. MemoryTyped'
    BY <1>1, <1>3 DEF IInv, Typed, MemoryTyped
  <2> QED
    BY <2>1, <1>1, <1>2 DEF IInv, Typed, RecsTyped, ThreadsTyped, QueueTyped
<1>5. RowsOK' /\ TasksOK' /\ NothingLeftListed' /\ Marked' /\ Registered'
  BY <1>1, <1>2 DEF IInv, RowsOK, TasksOK, App, NothingLeftListed, Marked, Registered
<1>6. Once' /\ Quota'
  BY <1>1 DEF IInv, Once, Quota, MayDie, MayEnd, Pending
<1>7. Accounted'
  <2> SUFFICES ASSUME NEW a \in Apps, InFront(a)', ~Shared(a),
                      env.faults \cap {"spawn", "early", "switch"} = {}
               PROVE  Safe(a)'
    BY <1>2, Zenon DEF Accounted, Safe
  <2>1. CASE UserOf[a] = u
    BY <2>1, <1>3 DEF Safe, Coming
  <2>2. CASE UserOf[a] # u
    <3>1. UserOf[a] = U0
      BY <2>2, <1>3 DEF InFront
    <3>2. Safe(a)
      BY <3>1 DEF IInv, Accounted, Safe, InFront
    <3>3. UserOf[a] # front.user
      BY <3>1, <1>3, ResidentAssumption
    <3> QED
      BY <3>2, <3>3, <1>1 DEF Safe, Exists, Held, Coming, App
  <2> QED
    BY <2>1, <2>2
<1> QED
  BY <1>4, <1>5, <1>6, <1>7 DEF IInv

\* SwitchToUser starts all the processes of the user in front.
LEMMA SwitchToUserStep ==
    ASSUME IInv, SwitchToUser
    PROVE  IInv'
<1> DEFINE F == {a \in Apps : UserOf[a] = front.user}
<1>1. /\ front' = [front EXCEPT !.back = NoSwitch] /\ tasks' = tasks \cup Load(F)
      /\ UNCHANGED <<rec, map, starting, filling, exits, notices, waiting, low, big, web, screen,
                     killing, env>>
  BY DEF SwitchToUser, memory
<1>2. front' \in [user : Users, back : Users \cup {NoSwitch}] /\ front'.user = front.user
  BY <1>1 DEF IInv, Typed, MemoryTyped
<1>3. /\ Typed' /\ RowsOK' /\ TasksOK' /\ Once' /\ Quota'
      /\ NothingLeftListed' /\ Marked' /\ Registered'
      /\ \A a \in F : \E t \in tasks' : t.app = a
  <2>1. F \in SUBSET Apps
    OBVIOUS
  <2> HIDE DEF F
  <2> QED
    BY <2>1, <1>1, <1>2, LoadsAdded
<1>4. Accounted'
  <2> SUFFICES ASSUME NEW a \in Apps, InFront(a)', ~Shared(a),
                      env.faults \cap {"spawn", "early", "switch"} = {}
               PROVE  Safe(a)'
    BY <1>1, Zenon DEF Accounted, Safe
  <2>1. CASE UserOf[a] = front.user
    BY <2>1, <1>3 DEF Safe, Coming
  <2>2. CASE UserOf[a] # front.user
    <3>1. InFront(a)
      BY <1>2 DEF InFront
    <3>2. Safe(a)
      BY <3>1 DEF IInv, Accounted, Safe
    <3> QED
      BY <2>2, <3>2, <1>1 DEF Safe, Exists, Held, Coming, App
  <2> QED
    BY <2>1, <2>2
<1> QED
  BY <1>3, <1>4 DEF IInv

\* A list without repetition, as long as a finite set, names every element.
LEMMA AllTaken ==
    ASSUME NEW S, IsFiniteSet(S), NEW n \in Nat, n = Cardinality(S),
           NEW f \in [1 .. n -> S], IsInjective(f)
    PROVE  \A x \in S : \E i \in 1 .. n : f[i] = x
<1>1. f \in Injection(1 .. n, S)
  BY DEF Injection
<1>2. Cardinality(1 .. n) = n /\ IsFiniteSet(1 .. n)
  BY FS_Interval
<1>3. f \in Surjection(1 .. n, S)
  BY <1>1, <1>2, FS_Injection
<1> QED
  BY <1>3 DEF Surjection

\* Where a switch can fail nothing is promised.
LEMMA SwitchFailsStep ==
    ASSUME IInv, SwitchFails
    PROVE  IInv'
<1>1. /\ "switch" \in env.faults /\ front.back # NoSwitch
      /\ front' = [user |-> front.back, back |-> NoSwitch]
      /\ UNCHANGED <<rec, map, starting, filling, exits, tasks, notices, waiting, low, big, web,
                     screen, killing, env>>
  BY DEF SwitchFails, queue, memory
<1>2. Typed'
  <2>1. MemoryTyped'
    BY <1>1 DEF IInv, Typed, MemoryTyped
  <2> QED
    BY <1>1, <2>1 DEF IInv, Typed, RecsTyped, ThreadsTyped, QueueTyped, EnvTyped
<1>3. RowsOK' /\ TasksOK' /\ NothingLeftListed' /\ Marked' /\ Registered'
  BY <1>1 DEF IInv, RowsOK, TasksOK, App, NothingLeftListed, Marked, Registered
<1>4. Once' /\ Quota'
  BY <1>1 DEF IInv, Once, Quota, MayDie, MayEnd, Pending
<1>5. Accounted'
  BY <1>1 DEF Accounted
<1> QED
  BY <1>2, <1>3, <1>4, <1>5 DEF IInv
-------------------------------------------------------------------------------
\* When the device is up every application in front has a record.
LEMMA InitOK == Init => IInv
<1> SUFFICES ASSUME Init
             PROVE  IInv
  OBVIOUS
<1> DEFINE A == {a \in Apps : InFront(a)}
           n == Cardinality(A)
           R(a) == [Record(a, 0) EXCEPT !.state = "ready", !.count = MaxRestart,
                                        !.keepAlive = TRUE, !.staged = TRUE]
<1>1. IsFiniteSet(A) /\ n \in Nat /\ n <= MaxStarts
  <2>1. A \in SUBSET Apps
    OBVIOUS
  <2>2. IsFiniteSet(A) /\ n <= Cardinality(Apps) /\ n \in Nat /\ Cardinality(Apps) \in Nat
    BY <2>1, ResidentAssumption, FS_Subset, FS_CardinalityType
  <2> QED
    BY <2>2, ResidentAssumption
<1>2. PICK f \in [1 .. n -> A] : /\ IsInjective(f)
                                 /\ rec = [i \in DOMAIN f |-> R(f[i])]
                                 /\ map = DOMAIN f
  BY DEF Init
<1>3. \A a \in Apps : /\ R(a) \in RecordType /\ R(a).app = a /\ R(a).state = "ready"
                      /\ R(a).count = MaxRestart /\ R(a).row = 0
                      /\ R(a).keepAlive = TRUE
  <2>1. MaxRestart \in -2 .. MaxRestart /\ 0 \in 0 .. MaxStarts
    BY ResidentAssumption
  <2> QED
    BY <2>1 DEF Record, RecordType
<1>4. \A a \in A : \E i \in 1 .. n : f[i] = a
  <2>1. n = Cardinality(A) /\ n \in Nat /\ IsFiniteSet(A)
    BY <1>1
  <2>2. f \in [1 .. n -> A] /\ IsInjective(f)
    BY <1>2
  <2> HIDE DEF n, A
  <2> QED
    BY ONLY <2>1, <2>2, AllTaken
<1>5. A \subseteq Apps /\ \A a \in Apps : InFront(a) <=> a \in A
  OBVIOUS
<1>6. /\ starting = {} /\ filling = {} /\ exits = {} /\ tasks = {} /\ notices = {} /\ waiting = {}
      /\ low = [now |-> FALSE, list |-> {}] /\ big = [now |-> FALSE, list |-> {}]
      /\ web = {} /\ killing = {} /\ env \in Environments
      /\ screen = [sub |-> FALSE, unsub |-> FALSE, require |-> FALSE]
      /\ \E u \in Users : front = [user |-> u, back |-> NoSwitch]
  BY DEF Init
<1> HIDE DEF A, n, R
<1>7. /\ rec \in [1 .. n -> RecordType] /\ map = 1 .. n
      /\ \A i \in 1 .. n : f[i] \in Apps /\ rec[i] = R(f[i])
  BY <1>2, <1>3, <1>5
<1>8. rec \in Seq(RecordType) /\ Len(rec) = n
  BY <1>1, <1>7
<1>9. Typed
  <2>1. RecsTyped /\ ThreadsTyped /\ QueueTyped
    BY <1>1, <1>6, <1>7, <1>8 DEF RecsTyped, ThreadsTyped, QueueTyped
  <2>2. MemoryTyped
    BY <1>6 DEF MemoryTyped
  <2>3. EnvTyped
    <3>1. env \in [faults : SUBSET FaultKinds, left : [Kinds -> Nat]]
      BY <1>6, ResidentAssumption
    <3> QED
      BY <1>6, <3>1 DEF EnvTyped
  <2> QED
    BY <2>1, <2>2, <2>3 DEF Typed
<1>10. RowsOK /\ Marked
  BY <1>3, <1>6, <1>7, <1>8 DEF RowsOK, Marked
<1>11. TasksOK /\ Once /\ NothingLeftListed /\ Registered
  BY <1>6 DEF TasksOK, Once, Pending, NothingLeftListed, Registered
<1>12. Quota
  BY <1>3, <1>7, <1>8, ResidentAssumption DEF Quota
<1>13. Accounted
  <2>1. \A a \in Apps : InFront(a) => Exists(a)
    BY <1>3, <1>4, <1>5, <1>7 DEF Exists, App
  <2> QED
    BY <2>1 DEF Accounted
<1> QED
  BY <1>9, <1>10, <1>11, <1>12, <1>13 DEF IInv

\* Every step keeps the inductive invariant.
LEMMA NextOK == IInv /\ [Next]_vars => IInv'
<1> SUFFICES ASSUME IInv, [Next]_vars
             PROVE  IInv'
  OBVIOUS
<1>1. CASE UNCHANGED vars
  <2>1. UNCHANGED <<rec, map, starting, filling, exits, tasks, notices, waiting, low, big, web,
                    screen, killing, front, env>>
    BY <1>1 DEF vars, queue, memory
  <2>2. MemoryTyped' /\ NothingLeftListed' /\ EnvTyped'
    BY <2>1 DEF IInv, Typed, MemoryTyped, EnvTyped, NothingLeftListed
  <2>3. killing' \subseteq 1 .. Len(rec) /\ notices' \subseteq SUBSET Apps
    BY <2>1 DEF IInv, Typed, ThreadsTyped, QueueTyped
  <2>4. \A a \in Apps : Held(a) => Held(a)'
    BY <2>1 DEF Held
  <2> QED
    BY <2>1, <2>2, <2>3, <2>4, MemoryStep
<1>2. CASE Next
  BY <1>2, DieStep, AttachApplicationStep, LaunchApplicationStep, OnRemoteDiedStep,
     ApplicationTerminatedStep, RemoveAppRunningRecordStep, CheckRestartStep,
     RecordExitResidentBundleNameStep, RecordExitResidentBundleNameOnRequireBigMemoryStep,
     SubmitRestartStep, RestartResidentProcessStep, LoadResidentProcessStep,
     StartEmptyResidentProcessStep, SpawnFailsStep, FillRecordStep, NotifyStartResidentProcessStep,
     HandleMemorySizeInSufficentStep, HandleMemorySizeSufficientStep, SubscribeScreenOffEventStep,
     HandleRequireBigMemoryOptimizationStep, NoRequireBigMemoryStep, OnScreenOffStep,
     UnSubscribeScreenOffEventStep, KillProcessDependedOnWebStep, KillNextStep,
     RestartResidentProcessDependedOnWebStep, StartUserStep, SwitchToUserStep, SwitchFailsStep
     DEF Next
<1> QED
  BY <1>1, <1>2

\* No resident process of user 0 or the user in front is forgotten, and nothing
\* stays listed for a shortage that is over, whatever exits, shortages, upgrades
\* and switches cross one another.
THEOREM NeverForgotten == Spec => []Consistent
<1>1. IInv => Consistent
  <2> SUFFICES ASSUME IInv
               PROVE  Consistent
    OBVIOUS
  <2>1. DOMAIN rec = 1 .. Len(rec) /\ \A i \in 1 .. Len(rec) : rec[i] \in RecordType
    BY DEF IInv, Typed, RecsTyped
  <2>2. waiting \subseteq Range(BundleOf)
    BY ResidentAssumption DEF IInv, Typed, QueueTyped, Range
  <2>3. \E e \in Environments : /\ env.faults = e.faults
                                /\ \A k \in Kinds : env.left[k] \in 0 .. e.left[k]
    <3>1. PICK e \in Environments : env.faults = e.faults /\ \A k \in Kinds : env.left[k] <= e.left[k]
      BY DEF IInv, Typed, EnvTyped
    <3>2. \A k \in Kinds : env.left[k] \in Nat /\ e.left[k] \in Nat
      BY ResidentAssumption DEF IInv, Typed, EnvTyped
    <3> QED
      BY <3>1, <3>2
  <2>4. TypeOK
    BY <2>1, <2>2, <2>3 DEF IInv, Typed, RecsTyped, ThreadsTyped, QueueTyped, MemoryTyped, TypeOK
  <2> QED
    BY <2>4 DEF IInv, Consistent
<1> QED
  BY <1>1, InitOK, NextOK, PTL DEF Spec
===============================================================================
