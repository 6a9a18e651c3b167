-------------------------- MODULE PendingWantProofs ---------------------------
(***************************************************************************)
(* A want agent that may be triggered once is triggered once, a trigger    *)
(* after a cancel executes nothing, a manager finds one usable record for  *)
(* a key, and threads wait for one another only where a receiver entangles *)
(* them: for any threads, users, keys, records and listeners.              *)
(*                                                                         *)
(* The argument: lock_ and mutex_ are held exactly by the threads whose    *)
(* place in the code says so (LocksOK), also while they wait for a         *)
(* receiver; a record is only ever in the map of the manager that made it  *)
(* (PlacesOK); one that is marked and still there is being cancelled by    *)
(* the thread that has mutex_ (MarkedOK); and a ONE_TIME record that has   *)
(* executed is cancelled (OnceOK), while a trigger before its execution    *)
(* has lock_ (CallOK).                                                     *)
(***************************************************************************)
EXTENDS PendingWant, TLAPS, FiniteSetTheorems

Places == {"idle", "get", "cancel", "update", "find", "register", "unregister", "tell", "told",
           "send", "once", "build", "execute", "receive", "refused"}
Afters == {"none", "return", "build", "make", "makeOnce", "register", "unregister"}
Calls == [pc : Places, rec : Recs \cup {NoRec}, late : BOOLEAN, user : Users \cup {NoUser},
          want : 0 .. MaxVersion, wants : 0 .. MaxVersion, key : Keys \cup {NoRec},
          to : Listeners \cup {NoRec}, left : SUBSET Listeners, after : Afters,
          from : Threads \cup {NoThread}]

\* Where a call tells the listeners, where it has mutex_, where it is a trigger that
\* has not executed and has lock_, where it has lock_ at all, and where it is a
\* trigger that may still execute.
Telling(c) == c.pc \in {"tell", "told"}
Holding(c) == c.pc = "update" \/ Telling(c)
Before(c)  == c.pc \in {"once", "build", "execute"} \/ (Telling(c) /\ c.after = "build")
Inside(c)  == Before(c) \/ c.pc \in {"receive", "refused"}
ToSend(c)  == c.pc = "send" \/ Before(c)

\* A call is about a record that was made, in the manager that was chosen for it.
\* A ONE_TIME record that has not been executed is executed after it was marked,
\* and a late trigger is refused.
CallOK(c) ==
    /\ c.pc \notin {"idle", "get"} => c.rec \in Made
    /\ c.pc \in {"get", "cancel", "update", "find", "register", "unregister", "tell", "told"}
          => c.user \in Users
    /\ c.pc \in {"find", "register", "unregister", "tell", "told"} => c.to \in Listeners
    /\ c.pc = "find" => c.after \in {"register", "unregister"}
    /\ c.pc = "get" => c.key \in Keys /\ (UserOf[c.key] # NoUser => c.user = UserOf[c.key])
    /\ c.pc = "cancel" \/ Telling(c) => (UserOf[key[c.rec]] # NoUser => c.user = home[c.rec])
    /\ Telling(c) => /\ c.rec \in canceled
                     /\ c.after \in {"return", "build", "make", "makeOnce"}
                     /\ c.after = "build" => c.user = home[c.rec] /\ c.rec \in oneTime
                     /\ c.after \in {"make", "makeOnce"} => c.rec \in records[c.user]
    /\ c.pc = "once" => c.rec \in oneTime
    /\ c.pc \in {"build", "execute"} /\ c.rec \in oneTime => c.rec \in canceled
    /\ Before(c) /\ c.rec \in oneTime => sent[c.rec] = 0
    /\ c.late => (c.pc = "send" /\ c.rec \in canceled) \/ c.pc = "refused"

CallsOK == call \in [Threads -> Calls] /\ \A t \in Threads : CallOK(call[t])

LocksOK ==
    /\ \A t \in Threads : Inside(call[t]) => lock[call[t].rec] = t
    /\ \A r \in Recs : lock[r] # NoThread => Inside(call[lock[r]]) /\ call[lock[r]].rec = r
    /\ \A t \in Threads : Holding(call[t]) => mutex[call[t].user] = t
    /\ \A u \in Users : mutex[u] # NoThread => Holding(call[mutex[u]]) /\ call[mutex[u]].user = u

\* A record is in no map but that of the manager that made it, the one its key
\* names if the key names one.
PlacesOK ==
    /\ \A r \in Made : /\ home[r] \in Users
                       /\ UserOf[key[r]] # NoUser => home[r] = UserOf[key[r]]
    /\ \A u \in Users : \A r \in records[u] : home[r] = u

\* A ONE_TIME record that has executed has done so once and is cancelled.
OnceOK ==
    /\ \A r \in oneTime : sent[r] # 0 => sent[r] = 1 /\ r \in canceled
    /\ \A r \in Recs \ Made : sent[r] = 0

\* A record that is marked and still in the map is about to be erased.
MarkedOK ==
    \A u \in Users : \A r \in records[u] \cap canceled :
        \/ UserOf[key[r]] = NoUser
        \/ mutex[u] # NoThread /\ Telling(call[mutex[u]]) /\ call[mutex[u]].rec = r

\* The triggers of a record that were called and have not executed.
Sending(r) == {t \in Threads : call[t].rec = r /\ ToSend(call[t])}

WithinBound == \A r \in Recs : sent[r] + Cardinality(Sending(r)) <= MaxSent

\* The inductive invariant.
IInv == /\ TypeOK /\ CallsOK /\ LocksOK /\ PlacesOK /\ OnceOK /\ MarkedOK /\ WithinBound
        /\ OneRecordPerKey
-------------------------------------------------------------------------------
\* A record that GetWantSender makes was not made before.
LEMMA NewRecFresh ==
    ASSUME NEW r \in NewRecs
    PROVE  r \in Recs /\ key[r] = NoRec
<1>1. Made \subseteq Recs /\ Made # Recs /\ r = CHOOSE q \in Recs \ Made : TRUE
  BY DEF NewRecs, Made
<1>2. \E q : q \in Recs \ Made
  BY <1>1
<1>3. r \in Recs \ Made
  BY <1>1, <1>2
<1> QED
  BY <1>3 DEF Made

\* The manager AbilityManagerService chooses is the manager of a user.
LEMMA ManagerIsUser ==
    ASSUME TypeOK, NEW k \in Keys
    PROVE  /\ ManagerOf(k) \in Users
           /\ UserOf[k] # NoUser => ManagerOf(k) = UserOf[k]
  BY KeyAssumption DEF TypeOK, ManagerOf

\* The keys and listeners of an environment are keys and listeners.
LEMMA EnvOK ==
    ASSUME TypeOK
    PROVE  env.keys \subseteq Keys /\ env.listeners \subseteq Listeners
  BY KeyAssumption DEF TypeOK

\* What an idle thread does.
LEMMA IdleCall ==
    /\ Idle \in Calls
    /\ Idle.pc = "idle" /\ Idle.late = FALSE /\ Idle.rec = NoRec
  BY BoundAssumption DEF Calls, Places, Afters, Idle

\* An idle thread has no lock and triggers nothing.
LEMMA IdleHasNothing ==
    /\ ~Holding(Idle) /\ ~Inside(Idle) /\ ~ToSend(Idle) /\ ~Before(Idle)
    /\ CallOK(Idle) /\ CallOK(Idle)'
  BY DEF Idle, Holding, Inside, ToSend, Before, Telling, CallOK

\* The places of the calls are those TypeOK lists.
LEMMA PlacesTyped ==
    ASSUME call \in [Threads -> Calls]
    PROVE  \A t \in Threads : call[t].pc \in Places
  BY DEF Calls

\* A step that executes nothing and starts no trigger stays within the bound.
LEMMA NoMoreSending ==
    ASSUME IInv, sent' = sent, \A r \in Recs : Sending(r)' \subseteq Sending(r)
    PROVE  WithinBound'
<1> SUFFICES ASSUME NEW r \in Recs
             PROVE  sent[r] + Cardinality(Sending(r)') <= MaxSent
  BY DEF WithinBound
<1>1. IsFiniteSet(Sending(r))
  BY BoundAssumption, FS_Subset DEF Sending
<1>2. Cardinality(Sending(r)') <= Cardinality(Sending(r)) /\ IsFiniteSet(Sending(r)')
  BY <1>1, FS_Subset
<1>3. Cardinality(Sending(r)') \in Nat /\ Cardinality(Sending(r)) \in Nat
  BY <1>1, <1>2, FS_CardinalityType
<1>4. sent[r] \in Nat /\ sent[r] + Cardinality(Sending(r)) <= MaxSent
  BY BoundAssumption DEF IInv, WithinBound, TypeOK
<1> QED
  BY <1>2, <1>3, <1>4, BoundAssumption

\* A trigger that is called stays within the bound.
LEMMA OneMoreSending ==
    ASSUME IInv, NEW t \in Threads, NEW r \in Recs, NEW c, c.rec = r,
           call' = [call EXCEPT ![t] = c], sent' = sent, ~ToSend(call[t]), MaySend(r)
    PROVE  WithinBound'
<1> SUFFICES ASSUME NEW q \in Recs
             PROVE  sent[q] + Cardinality(Sending(q)') <= MaxSent
  BY DEF WithinBound
<1> DEFINE with == {s \in Threads : call[s].rec = q}
<1>0. call'[t] = c /\ \A s \in Threads \ {t} : call'[s] = call[s]
  BY DEF IInv, CallsOK
<1>1. IsFiniteSet(Sending(q)) /\ Sending(q) \subseteq with /\ IsFiniteSet(with)
  BY BoundAssumption, FS_Subset DEF Sending
<1>2. sent[q] \in Nat /\ sent[q] + Cardinality(Sending(q)) <= MaxSent
  BY BoundAssumption DEF IInv, TypeOK, WithinBound
<1>3. CASE q = r
  <2>1. Sending(q)' \subseteq Sending(q) \cup {t}
    BY <1>0 DEF Sending
  <2>2. Cardinality(Sending(q)) <= Cardinality(with) /\ Cardinality(Sending(q)) \in Nat
        /\ Cardinality(with) \in Nat
    BY <1>1, FS_Subset, FS_CardinalityType
  <2>3. /\ IsFiniteSet(Sending(q) \cup {t})
        /\ Cardinality(Sending(q) \cup {t}) =
              IF t \in Sending(q) THEN Cardinality(Sending(q)) ELSE Cardinality(Sending(q)) + 1
    BY <1>1, FS_AddElement
  <2>4. Cardinality(Sending(q)') <= Cardinality(Sending(q) \cup {t}) /\ Cardinality(Sending(q)') \in Nat
        /\ Cardinality(Sending(q) \cup {t}) \in Nat
    BY <2>1, <2>3, FS_Subset, FS_CardinalityType
  <2>5. sent[q] + Cardinality(with) < MaxSent
    BY <1>3 DEF MaySend
  <2> HIDE DEF with
  <2> QED
    BY <1>2, <2>2, <2>3, <2>4, <2>5, BoundAssumption
<1>4. CASE q # r
  <2>1. Sending(q)' = Sending(q)
    BY <1>0, <1>4 DEF Sending
  <2> QED
    BY <1>2, <2>1
<1> QED
  BY <1>3, <1>4
-------------------------------------------------------------------------------
(* What the other threads' calls rely on is not disturbed.                 *)

\* Records are made and marked and never unmade or unmarked, a map changes only
\* under its mutex_, and a record executes only under its lock_.
Orderly(t) ==
    /\ Made \subseteq Made' /\ canceled \subseteq canceled'
    /\ \A r \in Made : key'[r] = key[r] /\ home'[r] = home[r] /\ (r \in oneTime' <=> r \in oneTime)
    /\ \A r \in Recs : sent'[r] = sent[r] \/ lock[r] = t
    /\ \A u \in Users : mutex[u] = t \/ mutex[u] = NoThread \/ records'[u] = records[u]

\* A call of another thread is as it was.
LEMMA OthersOK ==
    ASSUME IInv, NEW t, NEW s \in Threads, s # t, Orderly(t)
    PROVE  \A c : c = call[s] => CallOK(c)'
<1> SUFFICES ASSUME NEW c, c = call[s]
             PROVE  CallOK(c)'
  OBVIOUS
<1>1. CallOK(c) /\ c \in Calls
  BY DEF IInv, CallsOK
<1>2. Inside(c) => lock[c.rec] = s
  BY DEF IInv, LocksOK
<1>3. Holding(c) => mutex[c.user] = s
  BY DEF IInv, LocksOK
<1>4. c.rec \in Made => c.rec \in Recs /\ c.rec \in Made'
  BY DEF Orderly, Made
<1>5. Before(c) => sent'[c.rec] = sent[c.rec]
  BY <1>1, <1>2, <1>4 DEF Orderly, Inside, Before, Telling, CallOK
<1>6. Telling(c) /\ c.rec \in records[c.user] => c.rec \in records'[c.user]
  BY <1>1, <1>3, KeyAssumption DEF Orderly, Holding, Telling, CallOK
<1>7. Made \subseteq Made' /\ canceled \subseteq canceled'
      /\ \A r \in Made : key'[r] = key[r] /\ home'[r] = home[r] /\ (r \in oneTime' <=> r \in oneTime)
  BY DEF Orderly
<1>8. c.pc \notin {"idle", "get"} => c.rec \in Made /\ c.rec \in Made' /\ key'[c.rec] = key[c.rec]
         /\ home'[c.rec] = home[c.rec] /\ (c.rec \in oneTime' <=> c.rec \in oneTime)
         /\ (c.rec \in canceled => c.rec \in canceled')
  BY <1>1, <1>7 DEF CallOK
<1>9. Telling(c) => c.pc \notin {"idle", "get"}
  BY DEF Telling
<1>10. Before(c) => c.pc \notin {"idle", "get"}
  BY DEF Before, Telling
<1> QED
  BY <1>1, <1>5, <1>6, <1>8, <1>9, <1>10 DEF CallOK

\* A step of thread t leaves the calls in order if its own new call is.
LEMMA CallsKept ==
    ASSUME IInv, NEW t \in Threads, NEW c \in Calls, call' = [call EXCEPT ![t] = c], Orderly(t),
           CallOK(c)'
    PROVE  CallsOK' /\ call'[t] = c /\ \A s \in Threads \ {t} : call'[s] = call[s]
<1>1. call' \in [Threads -> Calls] /\ call'[t] = c /\ \A s \in Threads \ {t} : call'[s] = call[s]
  BY DEF IInv, CallsOK
<1>2. ASSUME NEW s \in Threads
      PROVE  CallOK(call[s])'
  <2>1. CASE s = t
    BY <1>1, <2>1 DEF CallOK
  <2>2. CASE s # t
    <3>1. PICK d : d = call[s]
      OBVIOUS
    <3>2. CallOK(d)' /\ call'[s] = d
      BY <1>1, <2>2, <3>1, OthersOK
    <3> QED
      BY <3>2 DEF CallOK
  <2> QED
    BY <2>1, <2>2
<1> QED
  BY <1>1, <1>2 DEF CallsOK

\* A step that changes nothing but what thread t is doing.
LEMMA CallStep ==
    ASSUME IInv, NEW t \in Threads, NEW c \in Calls, call' = [call EXCEPT ![t] = c],
           UNCHANGED <<env, current, mutex, records, agents, lock, clearing, sent>>,
           told' \subseteq Listeners \X Recs,
           CallOK(c), Inside(c) <=> Inside(call[t]), Inside(c) => c.rec = call[t].rec,
           Holding(c) <=> Holding(call[t]), Holding(c) => c.user = call[t].user,
           Telling(call[t]) => Telling(c) /\ c.rec = call[t].rec,
           \/ ToSend(c) => ToSend(call[t]) /\ c.rec = call[t].rec
           \/ c.rec \in Recs /\ ~ToSend(call[t]) /\ MaySend(c.rec)
    PROVE  IInv'
<1>0. /\ env' = env /\ current' = current /\ mutex' = mutex /\ records' = records /\ lock' = lock
      /\ clearing' = clearing /\ sent' = sent /\ key' = key /\ home' = home /\ oneTime' = oneTime
      /\ canceled' = canceled /\ want' = want /\ wants' = wants /\ listeners' = listeners
      /\ Made' = Made
  BY DEF agents, Made
<1>1. Orderly(t) /\ CallOK(c)'
  BY <1>0 DEF Orderly, CallOK
<1>2. CallsOK' /\ call'[t] = c /\ \A s \in Threads \ {t} : call'[s] = call[s]
  BY <1>1, CallsKept
<1>3. TypeOK'
  <2>1. \A s \in Threads : call'[s].pc \in Places
    BY <1>2 DEF CallsOK, Calls
  <2> QED
    BY <1>0, <2>1 DEF IInv, TypeOK, Places, Bundles
<1>4. LocksOK'
  <2>1. \A s \in Threads : Inside(call'[s]) <=> Inside(call[s])
    BY <1>2
  <2>2. \A s \in Threads : Holding(call'[s]) <=> Holding(call[s])
    BY <1>2
  <2>3. \A s \in Threads : Inside(call'[s]) => call'[s].rec = call[s].rec
    BY <1>2
  <2>4. \A s \in Threads : Holding(call'[s]) => call'[s].user = call[s].user
    BY <1>2
  <2>5. /\ \A r \in Recs : lock[r] # NoThread => lock[r] \in Threads
        /\ \A u \in Users : mutex[u] # NoThread => mutex[u] \in Threads
    BY DEF IInv, TypeOK
  <2> QED
    BY <1>0, <2>1, <2>2, <2>3, <2>4, <2>5 DEF IInv, LocksOK
<1>5. PlacesOK' /\ OnceOK' /\ OneRecordPerKey'
  BY <1>0 DEF IInv, PlacesOK, OnceOK, OneRecordPerKey
<1>6. MarkedOK'
  <2>1. \A s \in Threads : Telling(call[s]) => Telling(call'[s]) /\ call'[s].rec = call[s].rec
    BY <1>2
  <2>2. \A u \in Users : mutex[u] # NoThread => mutex[u] \in Threads
    BY DEF IInv, TypeOK
  <2> QED
    BY <1>0, <2>1, <2>2 DEF IInv, MarkedOK
<1>7. WithinBound'
  <2>1. CASE ToSend(c) => ToSend(call[t]) /\ c.rec = call[t].rec
    <3>1. \A q \in Recs : Sending(q)' \subseteq Sending(q)
      BY <1>2, <2>1 DEF Sending
    <3> QED
      BY <1>0, <3>1, NoMoreSending
  <2>2. CASE c.rec \in Recs /\ ~ToSend(call[t]) /\ MaySend(c.rec)
    BY <1>0, <2>2, OneMoreSending
  <2> QED
    BY <2>1, <2>2
<1> QED
  BY <1>2, <1>3, <1>4, <1>5, <1>6, <1>7 DEF IInv
-------------------------------------------------------------------------------
(* The steps that change nothing but what a thread is doing.               *)

\* A thread that serves no call, or a receiver's call that waits for mutex_, has
\* no lock and triggers nothing; the manager chosen is one.
LEMMA GettingOK ==
    ASSUME IInv, NEW t \in Threads, NEW k \in env.keys, Getting(t, k)
    PROVE  /\ k \in Keys /\ Chosen(t, k) \in Users
           /\ UserOf[k] # NoUser => Chosen(t, k) = UserOf[k]
           /\ ~Inside(call[t]) /\ ~Holding(call[t]) /\ ~Telling(call[t]) /\ ~ToSend(call[t])
           /\ call[t] \in Calls /\ ~call[t].late
<1>1. k \in Keys
  BY EnvOK DEF IInv
<1>2. call[t] \in Calls /\ CallOK(call[t]) /\ call[t].pc \in {"idle", "get"}
      /\ (call[t].pc = "get" => call[t].key = k)
  BY DEF IInv, CallsOK, Getting, Unused
<1>3. Chosen(t, k) \in Users /\ (UserOf[k] # NoUser => Chosen(t, k) = UserOf[k])
  <2>1. CASE call[t].pc = "idle"
    BY <1>1, <2>1, ManagerIsUser DEF IInv, Chosen
  <2>2. CASE call[t].pc = "get"
    BY <1>2, <2>2 DEF Chosen, CallOK
  <2> QED
    BY <1>2, <2>1, <2>2
<1> QED
  BY <1>1, <1>2, <1>3 DEF Inside, Holding, Telling, ToSend, Before, CallOK

\* GetFound keeps the inductive invariant.
LEMMA GetFoundKeeps ==
    ASSUME IInv, NEW t \in Threads, NEW k \in env.keys, GetFound(t, k)
    PROVE  IInv'
<1>1. /\ Getting(t, k) /\ call' = [call EXCEPT ![t] = Idle]
      /\ UNCHANGED <<env, current, mutex, records, agents, lock, clearing, sent, told>>
  BY DEF GetFound, history
<1>2. told' \subseteq Listeners \X Recs
  BY <1>1 DEF IInv, TypeOK
<1>3. ~Inside(call[t]) /\ ~Holding(call[t]) /\ ~Telling(call[t])
  BY <1>1, GettingOK
<1> QED
  BY <1>1, <1>2, <1>3, IdleCall, IdleHasNothing, CallStep

\* A trigger that is called.
LEMMA TriggerOK ==
    ASSUME IInv, NEW r \in Made, NEW by \in Threads \cup {NoThread}
    PROVE  /\ Trigger(r, by) \in Calls /\ Trigger(r, by).rec = r /\ Trigger(r, by).pc = "send"
           /\ CallOK(Trigger(r, by))
<1> DEFINE late == r \in canceled
           c == [Idle EXCEPT !.pc = "send", !.rec = r, !.late = late, !.from = by]
<1>1. late \in BOOLEAN /\ r \in Recs /\ Trigger(r, by) = c
  BY DEF Made, Trigger
<1>2. late => r \in canceled
  OBVIOUS
<1> HIDE DEF late
<1>3. c \in Calls /\ c.rec = r /\ c.pc = "send" /\ c.late = late
  BY <1>1, IdleCall DEF Calls, Places
<1> HIDE DEF c
<1> QED
  BY <1>1, <1>2, <1>3 DEF CallOK, Telling, Before

\* SendStart keeps the inductive invariant.
LEMMA SendStartKeeps ==
    ASSUME IInv, NEW t \in Threads, NEW r \in Recs, SendStart(t, r)
    PROVE  IInv'
<1>1. /\ call[t].pc = "idle" /\ MaySend(r) /\ r \in Made
      /\ UNCHANGED <<env, current, mutex, records, agents, lock, clearing, sent, told>>
  BY DEF SendStart, history, Unused, MaySend
<1>2. PICK c : c = Trigger(r, NoThread)
  OBVIOUS
<1>3. c \in Calls /\ c.rec = r /\ c.pc = "send" /\ CallOK(c) /\ call' = [call EXCEPT ![t] = c]
  BY <1>1, <1>2, TriggerOK DEF SendStart
<1>4. told' \subseteq Listeners \X Recs
  BY <1>1 DEF IInv, TypeOK
<1>5. /\ ~Inside(c) /\ ~Holding(c) /\ ~Inside(call[t]) /\ ~Holding(call[t]) /\ ~Telling(call[t])
      /\ ~ToSend(call[t])
  BY <1>1, <1>3 DEF Inside, Holding, Telling, ToSend, Before
<1> QED
  BY <1>1, <1>3, <1>4, <1>5, CallStep

\* CallBack keeps the inductive invariant.
LEMMA CallBackKeeps ==
    ASSUME IInv, NEW t \in Threads, NEW s \in Threads, CallBack(t, s)
    PROVE  IInv'
<1>1. /\ call[s].pc = "idle"
      /\ UNCHANGED <<env, current, mutex, records, agents, lock, clearing, sent, told>>
  BY DEF CallBack, history, Unused
<1>2. told' \subseteq Listeners \X Recs
  BY <1>1 DEF IInv, TypeOK
<1>3. ~Inside(call[s]) /\ ~Holding(call[s]) /\ ~Telling(call[s]) /\ ~ToSend(call[s])
  BY <1>1 DEF Inside, Holding, Telling, ToSend, Before
<1>4. ASSUME NEW k \in env.keys,
             call' = [call EXCEPT ![s] = [Idle EXCEPT !.pc = "get", !.key = k,
                                                      !.user = ManagerOf(k), !.from = t]]
      PROVE  IInv'
  <2>1. k \in Keys /\ ManagerOf(k) \in Users /\ (UserOf[k] # NoUser => ManagerOf(k) = UserOf[k])
    BY EnvOK, ManagerIsUser DEF IInv
  <2>2. PICK u : u = ManagerOf(k)
    OBVIOUS
  <2>3. PICK c : c = [Idle EXCEPT !.pc = "get", !.key = k, !.user = u, !.from = t]
    OBVIOUS
  <2>4. c \in Calls /\ c.pc = "get" /\ c.key = k /\ c.user = u /\ c.late = FALSE
    BY <2>1, <2>2, <2>3, IdleCall DEF Calls, Places
  <2>5. CallOK(c) /\ ~Inside(c) /\ ~Holding(c) /\ ~ToSend(c)
    BY <2>1, <2>2, <2>4 DEF CallOK, Inside, Holding, Telling, ToSend, Before
  <2>6. call' = [call EXCEPT ![s] = c]
    BY <1>4, <2>2, <2>3
  <2> QED
    BY <1>1, <1>2, <1>3, <2>4, <2>5, <2>6, CallStep
<1>5. ASSUME NEW r \in Made,
             call' = [call EXCEPT ![s] = [Idle EXCEPT !.pc = "cancel", !.rec = r,
                                                      !.user = ManagerOf(key[r]), !.from = t]]
      PROVE  IInv'
  <2>1. key[r] \in Keys /\ r \in Recs
    BY DEF Made, IInv, TypeOK
  <2>2. PICK u : u = ManagerOf(key[r])
    OBVIOUS
  <2>3. u \in Users /\ (UserOf[key[r]] # NoUser => u = home[r])
    BY <2>1, <2>2, ManagerIsUser DEF IInv, PlacesOK
  <2>4. PICK c : c = [Idle EXCEPT !.pc = "cancel", !.rec = r, !.user = u, !.from = t]
    OBVIOUS
  <2>5. c \in Calls /\ c.pc = "cancel" /\ c.rec = r /\ c.user = u /\ c.late = FALSE
    BY <2>1, <2>3, <2>4, IdleCall DEF Calls, Places
  <2>6. CallOK(c) /\ ~Inside(c) /\ ~Holding(c) /\ ~ToSend(c)
    BY <2>3, <2>5 DEF CallOK, Inside, Holding, Telling, ToSend, Before
  <2>7. call' = [call EXCEPT ![s] = c]
    BY <1>5, <2>2, <2>4
  <2> QED
    BY <1>1, <1>2, <1>3, <2>5, <2>6, <2>7, CallStep
<1>6. ASSUME NEW r \in Recs, MaySend(r), call' = [call EXCEPT ![s] = Trigger(r, t)]
      PROVE  IInv'
  <2>1. r \in Made
    BY <1>6 DEF MaySend
  <2>2. PICK c : c = Trigger(r, t)
    OBVIOUS
  <2>3. c \in Calls /\ c.rec = r /\ c.pc = "send" /\ CallOK(c) /\ call' = [call EXCEPT ![s] = c]
    BY <1>6, <2>1, <2>2, TriggerOK
  <2>4. ~Inside(c) /\ ~Holding(c)
    BY <2>3 DEF Inside, Holding, Telling, Before
  <2> QED
    BY <1>1, <1>2, <1>3, <1>6, <2>3, <2>4, CallStep
<1> QED
  BY <1>4, <1>5, <1>6 DEF CallBack

\* BuildSendWant keeps the inductive invariant.
LEMMA BuildSendWantKeeps ==
    ASSUME IInv, NEW t \in Threads, BuildSendWant(t)
    PROVE  IInv'
<1>1. /\ call[t].pc = "build" /\ call[t] \in Calls /\ CallOK(call[t]) /\ call[t].rec \in Recs
      /\ UNCHANGED <<env, current, mutex, records, agents, lock, clearing, sent, told>>
  BY DEF BuildSendWant, history, IInv, CallsOK, CallOK, Made
<1>2. PICK v : v = want[call[t].rec]
  OBVIOUS
<1>3. PICK c : c = [call[t] EXCEPT !.pc = "execute", !.want = v]
  OBVIOUS
<1>4. v \in 0 .. MaxVersion
  BY <1>1, <1>2 DEF IInv, TypeOK
<1>5. c \in Calls /\ c.pc = "execute" /\ c.rec = call[t].rec /\ c.late = call[t].late
  BY <1>1, <1>3, <1>4 DEF Calls, Places
<1>6. call' = [call EXCEPT ![t] = c]
  BY <1>1, <1>2, <1>3 DEF BuildSendWant, IInv, CallsOK, Calls
<1>7. CallOK(c)
  BY <1>1, <1>5 DEF CallOK, Telling, Before
<1>8. told' \subseteq Listeners \X Recs
  BY <1>1 DEF IInv, TypeOK
<1>9. /\ Inside(c) /\ Inside(call[t]) /\ ~Holding(c) /\ ~Holding(call[t]) /\ ~Telling(call[t])
      /\ ToSend(call[t])
  BY <1>1, <1>5 DEF Inside, Holding, Telling, ToSend, Before
<1> QED
  BY <1>1, <1>5, <1>6, <1>7, <1>8, <1>9, CallStep

\* Tell keeps the inductive invariant.
LEMMA TellKeeps ==
    ASSUME IInv, NEW t \in Threads, Tell(t)
    PROVE  IInv'
<1>1. /\ call[t].pc = "tell" /\ call[t] \in Calls /\ CallOK(call[t]) /\ call[t].rec \in Recs
      /\ call[t].to \in Listeners
      /\ UNCHANGED <<env, current, mutex, records, agents, lock, clearing, sent>>
  BY DEF Tell, IInv, CallsOK, CallOK, Made
<1>3. PICK c : c = [call[t] EXCEPT !.pc = "told"]
  OBVIOUS
<1>5. c \in Calls /\ c.pc = "told" /\ c.rec = call[t].rec /\ c.late = call[t].late
      /\ c.user = call[t].user /\ c.to = call[t].to /\ c.after = call[t].after
  BY <1>1, <1>3 DEF Calls, Places
<1>6. call' = [call EXCEPT ![t] = c]
  BY <1>1, <1>3 DEF Tell, IInv, CallsOK, Calls
<1>7. CallOK(c)
  BY <1>1, <1>5 DEF CallOK, Telling, Before
<1>8. told' \subseteq Listeners \X Recs
  BY <1>1 DEF IInv, TypeOK, Tell
<1>9. /\ Inside(c) <=> Inside(call[t])
      /\ Holding(c) /\ Holding(call[t]) /\ Telling(call[t]) /\ Telling(c)
      /\ ToSend(c) => ToSend(call[t])
  BY <1>1, <1>5 DEF Inside, Holding, Telling, ToSend, Before
<1> QED
  BY <1>1, <1>5, <1>6, <1>7, <1>8, <1>9, CallStep

\* ListenStart keeps the inductive invariant.
LEMMA ListenStartKeeps ==
    ASSUME IInv, NEW t \in Threads, NEW r \in Recs, NEW l \in Listeners, ListenStart(t, r, l)
    PROVE  IInv'
<1>1. PICK op \in {"register", "unregister"} :
         call' = [call EXCEPT ![t] = [Idle EXCEPT !.pc = "find", !.rec = r, !.user = current,
                                                  !.to = l, !.after = op]]
  BY DEF ListenStart
<1>2. /\ call[t].pc = "idle" /\ r \in Made /\ current \in Users
      /\ UNCHANGED <<env, current, mutex, records, agents, lock, clearing, sent, told>>
  BY DEF ListenStart, history, Unused, IInv, TypeOK
<1>3. PICK u : u = current
  OBVIOUS
<1>4. PICK c : c = [Idle EXCEPT !.pc = "find", !.rec = r, !.user = u, !.to = l, !.after = op]
  OBVIOUS
<1>5. c \in Calls /\ c.pc = "find" /\ c.rec = r /\ c.user = u /\ c.to = l /\ c.after = op
      /\ c.late = FALSE
  BY <1>2, <1>3, <1>4, IdleCall DEF Calls, Places, Afters
<1>6. call' = [call EXCEPT ![t] = c]
  BY <1>1, <1>3, <1>4
<1>7. CallOK(c)
  BY <1>2, <1>3, <1>5 DEF CallOK, Telling, Before
<1>8. told' \subseteq Listeners \X Recs
  BY <1>2 DEF IInv, TypeOK
<1>9. /\ ~Inside(c) /\ ~Inside(call[t]) /\ ~Holding(c) /\ ~Holding(call[t]) /\ ~Telling(call[t])
      /\ ~ToSend(c)
  BY <1>2, <1>5 DEF Inside, Holding, Telling, ToSend, Before
<1> QED
  BY <1>2, <1>5, <1>6, <1>7, <1>8, <1>9, CallStep

\* FindRecord keeps the inductive invariant.
LEMMA FindRecordKeeps ==
    ASSUME IInv, NEW t \in Threads, FindRecord(t)
    PROVE  IInv'
<1>1. /\ call[t].pc = "find" /\ call[t] \in Calls /\ CallOK(call[t])
      /\ UNCHANGED <<env, current, mutex, records, agents, lock, clearing, sent, told>>
  BY DEF FindRecord, history, IInv, CallsOK
<1>2. told' \subseteq Listeners \X Recs
  BY <1>1 DEF IInv, TypeOK
<1>3. ~Inside(call[t]) /\ ~Holding(call[t]) /\ ~Telling(call[t])
  BY <1>1 DEF Inside, Holding, Telling, Before
<1>4. CASE call' = [call EXCEPT ![t] = Idle]
  BY <1>1, <1>2, <1>3, <1>4, IdleCall, IdleHasNothing, CallStep
<1>5. CASE call' = [call EXCEPT ![t] = [call[t] EXCEPT !.pc = call[t].after, !.after = "none"]]
  <2>1. PICK op : op = call[t].after
    OBVIOUS
  <2>2. op \in {"register", "unregister"}
    BY <1>1, <2>1 DEF CallOK
  <2>3. PICK c : c = [call[t] EXCEPT !.pc = op, !.after = "none"]
    OBVIOUS
  <2>4. c \in Calls /\ c.pc = op /\ c.rec = call[t].rec /\ c.late = call[t].late
        /\ c.user = call[t].user /\ c.to = call[t].to
    BY <1>1, <2>2, <2>3 DEF Calls, Places, Afters
  <2>5. CallOK(c)
    BY <1>1, <2>2, <2>4 DEF CallOK, Telling, Before
  <2>6. ~Inside(c) /\ ~Holding(c) /\ ~ToSend(c)
    BY <2>2, <2>4 DEF Inside, Holding, Telling, ToSend, Before
  <2>7. call' = [call EXCEPT ![t] = c]
    BY <1>5, <2>1, <2>3
  <2> QED
    BY <1>1, <1>2, <1>3, <2>4, <2>5, <2>6, <2>7, CallStep
<1> QED
  BY <1>4, <1>5 DEF FindRecord
-------------------------------------------------------------------------------
(* The steps that take or release a lock.                                  *)

\* A step of thread t takes and releases locks for itself only.
LEMMA LocksKept ==
    ASSUME IInv, NEW t \in Threads, NEW c \in Calls, call'[t] = c,
           \A s \in Threads \ {t} : call'[s] = call[s],
           \A r \in Recs : \/ lock'[r] = lock[r]
                           \/ lock[r] \in {t, NoThread} /\ lock'[r] \in {t, NoThread},
           \A u \in Users : \/ mutex'[u] = mutex[u]
                            \/ mutex[u] \in {t, NoThread} /\ mutex'[u] \in {t, NoThread},
           Inside(c) => c.rec \in Recs /\ lock'[c.rec] = t,
           \A r \in Recs : lock'[r] = t => Inside(c) /\ c.rec = r,
           Holding(c) => c.user \in Users /\ mutex'[c.user] = t,
           \A u \in Users : mutex'[u] = t => Holding(c) /\ c.user = u
    PROVE  LocksOK'
<1>0. /\ t # NoThread /\ NoThread \notin Threads
      /\ \A r \in Recs : lock[r] \in Threads \cup {NoThread}
      /\ \A u \in Users : mutex[u] \in Threads \cup {NoThread}
  BY KeyAssumption DEF IInv, TypeOK
<1>1. ASSUME NEW s \in Threads, Inside(call[s])' PROVE lock'[call'[s].rec] = s
  <2>1. CASE s = t
    BY <1>1, <2>1 DEF Inside, Before, Telling
  <2>2. CASE s # t
    <3>1. Inside(call[s]) /\ call'[s] = call[s]
      BY <1>1, <2>2 DEF Inside, Before, Telling
    <3>2. lock[call[s].rec] = s /\ call[s].rec \in Recs
      BY <3>1 DEF IInv, LocksOK, CallsOK, CallOK, Inside, Before, Telling, Made
    <3> QED
      BY <1>0, <2>2, <3>1, <3>2
  <2> QED
    BY <2>1, <2>2
<1>2. ASSUME NEW r \in Recs, lock'[r] # NoThread
      PROVE  Inside(call[lock[r]])' /\ call'[lock'[r]].rec = r
  <2>1. CASE lock'[r] = t
    BY <2>1 DEF Inside, Before, Telling
  <2>2. CASE lock'[r] # t
    <3>1. lock'[r] = lock[r] /\ lock[r] \in Threads /\ lock[r] # t
      BY <1>0, <1>2, <2>2
    <3>2. call'[lock[r]] = call[lock[r]] /\ Inside(call[lock[r]]) /\ call[lock[r]].rec = r
      BY <1>0, <3>1 DEF IInv, LocksOK
    <3> QED
      BY <3>1, <3>2 DEF Inside, Before, Telling
  <2> QED
    BY <2>1, <2>2
<1>3. ASSUME NEW s \in Threads, Holding(call[s])' PROVE mutex'[call'[s].user] = s
  <2>1. CASE s = t
    BY <1>3, <2>1 DEF Holding, Telling
  <2>2. CASE s # t
    <3>1. Holding(call[s]) /\ call'[s] = call[s]
      BY <1>3, <2>2 DEF Holding, Telling
    <3>2. mutex[call[s].user] = s /\ call[s].user \in Users
      BY <3>1 DEF IInv, LocksOK, CallsOK, CallOK, Holding, Telling
    <3> QED
      BY <1>0, <2>2, <3>1, <3>2
  <2> QED
    BY <2>1, <2>2
<1>4. ASSUME NEW u \in Users, mutex'[u] # NoThread
      PROVE  Holding(call[mutex[u]])' /\ call'[mutex'[u]].user = u
  <2>1. CASE mutex'[u] = t
    BY <2>1 DEF Holding, Telling
  <2>2. CASE mutex'[u] # t
    <3>1. mutex'[u] = mutex[u] /\ mutex[u] \in Threads /\ mutex[u] # t
      BY <1>0, <1>4, <2>2
    <3>2. call'[mutex[u]] = call[mutex[u]] /\ Holding(call[mutex[u]])
          /\ call[mutex[u]].user = u
      BY <1>0, <3>1 DEF IInv, LocksOK
    <3> QED
      BY <3>1, <3>2 DEF Holding, Telling
  <2> QED
    BY <2>1, <2>2
<1> QED
  BY <1>1, <1>2, <1>3, <1>4 DEF LocksOK

\* A marked record that is still in its map is being cancelled, as it was.
LEMMA MarkedKept ==
    ASSUME IInv, NEW t \in Threads, \A s \in Threads \ {t} : call'[s] = call[s],
           \A u \in Users : \A r \in records'[u] \cap canceled' :
              \/ UserOf[key'[r]] = NoUser
              \/ mutex'[u] = t /\ Telling(call'[t]) /\ call'[t].rec = r
              \/ /\ r \in records[u] \cap canceled /\ key'[r] = key[r]
                 /\ mutex[u] # t /\ (mutex[u] # NoThread => mutex'[u] = mutex[u])
    PROVE  MarkedOK'
<1> SUFFICES ASSUME NEW u \in Users, NEW r \in records'[u] \cap canceled',
                    UserOf[key'[r]] # NoUser
             PROVE  mutex'[u] # NoThread /\ Telling(call[mutex[u]])' /\ call'[mutex'[u]].rec = r
  BY DEF MarkedOK
<1>0. t # NoThread /\ mutex[u] \in Threads \cup {NoThread}
  BY KeyAssumption DEF IInv, TypeOK
<1>1. CASE mutex'[u] = t /\ Telling(call'[t]) /\ call'[t].rec = r
  BY <1>0, <1>1 DEF Telling
<1>2. CASE /\ r \in records[u] \cap canceled /\ key'[r] = key[r]
           /\ mutex[u] # t /\ (mutex[u] # NoThread => mutex'[u] = mutex[u])
  <2>1. mutex[u] # NoThread /\ Telling(call[mutex[u]]) /\ call[mutex[u]].rec = r
    BY <1>2 DEF IInv, MarkedOK
  <2>2. mutex'[u] = mutex[u] /\ mutex[u] \in Threads \ {t} /\ call'[mutex[u]] = call[mutex[u]]
    BY <1>0, <1>2, <2>1
  <2> QED
    BY <2>1, <2>2 DEF Telling
<1> QED
  BY <1>1, <1>2

\* A thread that waits for mutex_ of manager u, or starts, and those that hold
\* something.
LEMMA HoldersDiffer ==
    ASSUME IInv, NEW t \in Threads
    PROVE  /\ ~Holding(call[t]) => \A u \in Users : mutex[u] # t
           /\ ~Inside(call[t]) => \A r \in Recs : lock[r] # t
           /\ Holding(call[t]) => call[t].user \in Users
                 /\ \A u \in Users : mutex[u] = t <=> u = call[t].user
           /\ Inside(call[t]) => call[t].rec \in Recs
                 /\ \A r \in Recs : lock[r] = t <=> r = call[t].rec
<1>1. t # NoThread
  BY KeyAssumption
<1>2. CallOK(call[t])
  BY DEF IInv, CallsOK
<1>3. Holding(call[t]) => call[t].user \in Users
  BY <1>2 DEF CallOK, Holding, Telling
<1>4. Inside(call[t]) => call[t].rec \in Recs
  BY <1>2 DEF CallOK, Inside, Before, Telling, Made
<1> QED
  BY <1>1, <1>3, <1>4 DEF IInv, LocksOK

\* A step that takes or releases locks and changes no record, but for its wants.
LEMMA LockStep ==
    ASSUME IInv, NEW t \in Threads, NEW c \in Calls, call' = [call EXCEPT ![t] = c],
           UNCHANGED <<env, current, records, key, home, oneTime, canceled, clearing, sent, told>>,
           want' \in [Recs -> 0 .. MaxVersion], wants' \in [Recs -> 0 .. MaxVersion],
           listeners' \in [Recs -> SUBSET Listeners],
           lock' \in [Recs -> Threads \cup {NoThread}],
           mutex' \in [Users -> Threads \cup {NoThread}],
           CallOK(c),
           \A r \in Recs : \/ lock'[r] = lock[r]
                           \/ lock[r] \in {t, NoThread} /\ lock'[r] \in {t, NoThread},
           \A u \in Users : \/ mutex'[u] = mutex[u]
                            \/ mutex[u] \in {t, NoThread} /\ mutex'[u] \in {t, NoThread},
           Inside(c) => c.rec \in Recs /\ lock'[c.rec] = t,
           \A r \in Recs : lock'[r] = t => Inside(c) /\ c.rec = r,
           Holding(c) => c.user \in Users /\ mutex'[c.user] = t,
           \A u \in Users : mutex'[u] = t => Holding(c) /\ c.user = u,
           ~Telling(call[t]),
           ToSend(c) => ToSend(call[t]) /\ c.rec = call[t].rec
    PROVE  IInv'
<1>0. Made' = Made
  BY DEF Made
<1>1. Orderly(t) /\ CallOK(c)'
  BY <1>0 DEF Orderly, CallOK
<1>2. CallsOK' /\ call'[t] = c /\ \A s \in Threads \ {t} : call'[s] = call[s]
  BY <1>1, CallsKept
<1>3. TypeOK'
  <2>1. \A s \in Threads : call'[s].pc \in Places
    BY <1>2 DEF CallsOK, Calls
  <2> QED
    BY <1>0, <2>1 DEF IInv, TypeOK, Places, Bundles
<1>4. LocksOK'
  BY <1>2, LocksKept
<1>5. PlacesOK' /\ OnceOK' /\ OneRecordPerKey'
  BY <1>0 DEF IInv, PlacesOK, OnceOK, OneRecordPerKey
<1>6. MarkedOK'
  <2>1. \A u \in Users : \A r \in records'[u] \cap canceled' :
           \/ UserOf[key'[r]] = NoUser
           \/ /\ r \in records[u] \cap canceled /\ key'[r] = key[r]
              /\ mutex[u] # t /\ (mutex[u] # NoThread => mutex'[u] = mutex[u])
    BY DEF IInv, MarkedOK
  <2> QED
    BY <1>2, <2>1, MarkedKept
<1>7. WithinBound'
  <2>1. \A q \in Recs : Sending(q)' \subseteq Sending(q)
    BY <1>2 DEF Sending
  <2> QED
    BY <2>1, NoMoreSending
<1> QED
  BY <1>2, <1>3, <1>4, <1>5, <1>6, <1>7 DEF IInv

\* GetUpdate keeps the inductive invariant.
LEMMA GetUpdateKeeps ==
    ASSUME IInv, NEW t \in Threads, NEW k \in env.keys, GetUpdate(t, k)
    PROVE  IInv'
<1>1. PICK u : u = Chosen(t, k)
  OBVIOUS
<1>2. PICK r \in Match(u, k) :
         /\ want[r] < MaxVersion /\ want' = [want EXCEPT ![r] = @ + 1]
         /\ call' = [call EXCEPT ![t] = [call[t] EXCEPT !.pc = "update", !.rec = r, !.user = u]]
  BY <1>1 DEF GetUpdate
<1>3. /\ Getting(t, k) /\ mutex[u] = NoThread /\ mutex' = [mutex EXCEPT ![u] = t]
      /\ UNCHANGED <<env, current, records, key, home, oneTime, canceled, wants, listeners, lock,
                     clearing, sent, told>>
  BY <1>1 DEF GetUpdate, history
<1>4. /\ u \in Users /\ ~Inside(call[t]) /\ ~Holding(call[t]) /\ ~Telling(call[t])
      /\ ~ToSend(call[t]) /\ call[t] \in Calls /\ ~call[t].late
  BY <1>1, <1>3, GettingOK
<1>5. r \in Made /\ r \in Recs
  BY <1>2, <1>4 DEF Match, IInv, TypeOK, Made
<1>6. PICK c : c = [call[t] EXCEPT !.pc = "update", !.rec = r, !.user = u]
  OBVIOUS
<1>7. c \in Calls /\ c.pc = "update" /\ c.rec = r /\ c.user = u /\ c.late = call[t].late
  BY <1>4, <1>5, <1>6 DEF Calls, Places
<1>8. CallOK(c) /\ ~Inside(c) /\ Holding(c) /\ ~ToSend(c)
  BY <1>4, <1>5, <1>7 DEF CallOK, Inside, Holding, Telling, ToSend, Before
<1>9. /\ want' \in [Recs -> 0 .. MaxVersion] /\ wants' \in [Recs -> 0 .. MaxVersion]
      /\ listeners' \in [Recs -> SUBSET Listeners] /\ lock' \in [Recs -> Threads \cup {NoThread}]
      /\ mutex' \in [Users -> Threads \cup {NoThread}]
  BY <1>2, <1>3, <1>4, <1>5, BoundAssumption DEF IInv, TypeOK
<1>10. mutex'[u] = t /\ \A v \in Users \ {u} : mutex'[v] = mutex[v]
  BY <1>3, <1>4 DEF IInv, TypeOK
<1>11. \A v \in Users : mutex[v] # t
  BY <1>4, HoldersDiffer
<1>12. \A q \in Recs : lock'[q] # t /\ lock'[q] = lock[q]
  BY <1>3, <1>4, HoldersDiffer
<1>13. call' = [call EXCEPT ![t] = c]
  BY <1>2, <1>6
<1>14. \A v \in Users : \/ mutex'[v] = mutex[v]
                        \/ mutex[v] \in {t, NoThread} /\ mutex'[v] \in {t, NoThread}
  BY <1>3, <1>10
<1>15. \A v \in Users : mutex'[v] = t => v = u
  BY <1>10, <1>11
<1> QED
  BY <1>3, <1>4, <1>7, <1>8, <1>9, <1>10, <1>12, <1>13, <1>14, <1>15, LockStep

\* UpdateAllWants keeps the inductive invariant.
LEMMA UpdateAllWantsKeeps ==
    ASSUME IInv, NEW t \in Threads, UpdateAllWants(t)
    PROVE  IInv'
<1>1. /\ call[t].pc = "update" /\ CallOK(call[t])
      /\ call' = [call EXCEPT ![t] = Idle] /\ mutex' = [mutex EXCEPT ![call[t].user] = NoThread]
      /\ wants' = [wants EXCEPT ![call[t].rec] = want[call[t].rec]]
      /\ UNCHANGED <<env, current, records, key, home, oneTime, canceled, want, listeners, lock,
                     clearing, sent, told>>
  BY DEF UpdateAllWants, IInv, CallsOK, history
<1>2. call[t].rec \in Recs /\ call[t].user \in Users /\ Holding(call[t]) /\ ~Inside(call[t])
      /\ ~Telling(call[t])
  BY <1>1 DEF CallOK, Made, Holding, Inside, Before, Telling
<1>3. /\ want' \in [Recs -> 0 .. MaxVersion] /\ wants' \in [Recs -> 0 .. MaxVersion]
      /\ listeners' \in [Recs -> SUBSET Listeners] /\ lock' \in [Recs -> Threads \cup {NoThread}]
      /\ mutex' \in [Users -> Threads \cup {NoThread}]
  BY <1>1, <1>2 DEF IInv, TypeOK
<1>4. mutex'[call[t].user] = NoThread
      /\ \A v \in Users \ {call[t].user} : mutex'[v] = mutex[v]
  BY <1>1, <1>2 DEF IInv, TypeOK
<1>5. \A v \in Users : mutex[v] = t <=> v = call[t].user
  BY <1>2, HoldersDiffer
<1>6. \A q \in Recs : lock'[q] # t /\ lock'[q] = lock[q]
  BY <1>1, <1>2, HoldersDiffer
<1>7. \A v \in Users : mutex'[v] # t /\ (\/ mutex'[v] = mutex[v]
                                         \/ mutex[v] \in {t, NoThread} /\ mutex'[v] \in {t, NoThread})
  BY <1>4, <1>5, KeyAssumption
<1> QED
  BY <1>1, <1>2, <1>3, <1>6, <1>7, IdleCall, IdleHasNothing, LockStep

\* SendCheck keeps the inductive invariant.
LEMMA SendCheckKeeps ==
    ASSUME IInv, NEW t \in Threads, SendCheck(t)
    PROVE  IInv'
<1>1. PICK r : r = call[t].rec
  OBVIOUS
<1>2. PICK p : p = CASE r \in canceled            -> "refused"
                     [] r \in oneTime \ canceled -> "once"
                     [] OTHER                     -> "build"
  OBVIOUS
<1>3. /\ call[t].pc = "send" /\ CallOK(call[t]) /\ call[t] \in Calls /\ lock[r] = NoThread
      /\ call' = [call EXCEPT ![t].pc = p] /\ lock' = [lock EXCEPT ![r] = t]
      /\ UNCHANGED <<env, current, mutex, records, key, home, oneTime, canceled, want, wants,
                     listeners, clearing, sent, told>>
  BY <1>1, <1>2 DEF SendCheck, IInv, CallsOK, history, agents
<1>4. r \in Made /\ r \in Recs
  BY <1>1, <1>3 DEF CallOK, Made
<1>5. /\ p \in {"refused", "once", "build"} /\ (p = "refused" <=> r \in canceled)
      /\ (p = "once" => r \in oneTime) /\ (p = "build" => r \notin oneTime)
  BY <1>2
<1>6. PICK c : c = [call[t] EXCEPT !.pc = p]
  OBVIOUS
<1>7. c \in Calls /\ c.pc = p /\ c.rec = r /\ c.late = call[t].late
  BY <1>1, <1>3, <1>5, <1>6 DEF Calls, Places
<1>8. call' = [call EXCEPT ![t] = c]
  BY <1>3, <1>6 DEF IInv, CallsOK, Calls
<1>9. ~Telling(call[t]) /\ ~Inside(call[t]) /\ ~Holding(call[t]) /\ ToSend(call[t])
  BY <1>3 DEF Telling, Inside, Holding, Before, ToSend
<1>10. Inside(c) /\ ~Holding(c) /\ ~Telling(c)
  BY <1>5, <1>7 DEF Telling, Inside, Holding, Before
<1>11. CallOK(c)
  <2>1. p # "refused" /\ r \in oneTime => sent[r] = 0
    BY <1>5 DEF IInv, OnceOK
  <2>2. c.late => r \in canceled
    BY <1>1, <1>3, <1>7 DEF CallOK
  <2> QED
    BY <1>4, <1>5, <1>7, <1>10, <2>1, <2>2 DEF CallOK, Before
<1>12. /\ want' \in [Recs -> 0 .. MaxVersion] /\ wants' \in [Recs -> 0 .. MaxVersion]
       /\ listeners' \in [Recs -> SUBSET Listeners] /\ lock' \in [Recs -> Threads \cup {NoThread}]
       /\ mutex' \in [Users -> Threads \cup {NoThread}]
  BY <1>3, <1>4 DEF IInv, TypeOK
<1>13. lock'[r] = t /\ \A q \in Recs \ {r} : lock'[q] = lock[q]
  BY <1>3, <1>4 DEF IInv, TypeOK
<1>14. \A q \in Recs : lock[q] # t
  BY <1>9, HoldersDiffer
<1>15. \A v \in Users : mutex'[v] # t /\ mutex'[v] = mutex[v]
  BY <1>3, <1>9, HoldersDiffer
<1>16. \A q \in Recs : \/ lock'[q] = lock[q]
                       \/ lock[q] \in {t, NoThread} /\ lock'[q] \in {t, NoThread}
  BY <1>3, <1>13
<1>17. \A q \in Recs : lock'[q] = t => q = r
  BY <1>13, <1>14
<1>18. /\ Inside(c) => c.rec \in Recs /\ lock'[c.rec] = t
       /\ \A q \in Recs : lock'[q] = t => Inside(c) /\ c.rec = q
       /\ Holding(c) => c.user \in Users /\ mutex'[c.user] = t
       /\ \A v \in Users : mutex'[v] = t => Holding(c) /\ c.user = v
       /\ \A v \in Users : \/ mutex'[v] = mutex[v]
                           \/ mutex[v] \in {t, NoThread} /\ mutex'[v] \in {t, NoThread}
  BY <1>4, <1>7, <1>10, <1>13, <1>15, <1>17
<1>19. ToSend(c) => ToSend(call[t]) /\ c.rec = call[t].rec
  BY <1>1, <1>7, <1>9
<1> QED
  BY ONLY IInv, <1>3, <1>7, <1>8, <1>9, <1>11, <1>12, <1>16, <1>18, <1>19, LockStep

\* SendReturn keeps the inductive invariant.
LEMMA SendReturnKeeps ==
    ASSUME IInv, NEW t \in Threads, SendReturn(t)
    PROVE  IInv'
<1>1. /\ call[t].pc \in {"receive", "refused"} /\ CallOK(call[t])
      /\ call' = [call EXCEPT ![t] = Idle] /\ lock' = [lock EXCEPT ![call[t].rec] = NoThread]
      /\ UNCHANGED <<env, current, mutex, records, key, home, oneTime, canceled, want, wants,
                     listeners, clearing, sent, told>>
  BY DEF SendReturn, IInv, CallsOK, history, agents
<1>2. call[t].rec \in Recs /\ ~Holding(call[t]) /\ Inside(call[t]) /\ ~Telling(call[t])
  BY <1>1 DEF CallOK, Made, Holding, Inside, Before, Telling
<1>3. /\ want' \in [Recs -> 0 .. MaxVersion] /\ wants' \in [Recs -> 0 .. MaxVersion]
      /\ listeners' \in [Recs -> SUBSET Listeners] /\ lock' \in [Recs -> Threads \cup {NoThread}]
      /\ mutex' \in [Users -> Threads \cup {NoThread}]
  BY <1>1, <1>2 DEF IInv, TypeOK
<1>4. lock'[call[t].rec] = NoThread
      /\ \A q \in Recs \ {call[t].rec} : lock'[q] = lock[q]
  BY <1>1, <1>2 DEF IInv, TypeOK
<1>5. \A q \in Recs : lock[q] = t <=> q = call[t].rec
  BY <1>2, HoldersDiffer
<1>6. \A v \in Users : mutex'[v] # t /\ mutex'[v] = mutex[v]
  BY <1>1, <1>2, HoldersDiffer
<1>7. \A q \in Recs : lock'[q] # t /\ (\/ lock'[q] = lock[q]
                                       \/ lock[q] \in {t, NoThread} /\ lock'[q] \in {t, NoThread})
  BY <1>4, <1>5, KeyAssumption
<1> QED
  BY <1>1, <1>2, <1>3, <1>6, <1>7, IdleCall, IdleHasNothing, LockStep

\* RegisterCancelListener and UnregisterCancelListener keep the inductive invariant.
LEMMA ListenerKeeps ==
    ASSUME IInv, NEW t \in Threads, RegisterCancelListener(t) \/ UnregisterCancelListener(t)
    PROVE  IInv'
<1>1. /\ call[t].pc \in {"register", "unregister"} /\ CallOK(call[t])
      /\ call' = [call EXCEPT ![t] = Idle]
      /\ UNCHANGED <<env, current, mutex, records, key, home, oneTime, canceled, want, wants,
                     lock, clearing, sent, told>>
  BY DEF RegisterCancelListener, UnregisterCancelListener, IInv, CallsOK, history
<1>2. /\ ~Holding(call[t]) /\ ~Inside(call[t]) /\ ~Telling(call[t])
      /\ call[t].to \in Listeners /\ call[t].rec \in Recs
  BY <1>1 DEF CallOK, Made, Holding, Inside, Before, Telling
<1>3. listeners' \in [Recs -> SUBSET Listeners]
  BY <1>2 DEF RegisterCancelListener, UnregisterCancelListener, IInv, TypeOK
<1>4. /\ want' \in [Recs -> 0 .. MaxVersion] /\ wants' \in [Recs -> 0 .. MaxVersion]
      /\ lock' \in [Recs -> Threads \cup {NoThread}]
      /\ mutex' \in [Users -> Threads \cup {NoThread}]
  BY <1>1 DEF IInv, TypeOK
<1>5. \A v \in Users : mutex'[v] # t /\ mutex'[v] = mutex[v]
  BY <1>1, <1>2, HoldersDiffer
<1>6. \A q \in Recs : lock'[q] # t /\ lock'[q] = lock[q]
  BY <1>1, <1>2, HoldersDiffer
<1> QED
  BY <1>1, <1>2, <1>3, <1>4, <1>5, <1>6, IdleCall, IdleHasNothing, LockStep
-------------------------------------------------------------------------------
(* The steps that change the records.                                      *)

\* Manager u keeps the records "keep" of its map and may make one for a key that
\* none of them has.
Changed(u, keep) ==
    \/ records' = [records EXCEPT ![u] = keep] /\ UNCHANGED <<key, home, oneTime, want, wants>>
    \/ \E k \in Keys, once \in BOOLEAN :
          /\ \A q \in keep : key[q] # k
          /\ UserOf[k] # NoUser => u = UserOf[k]
          /\ Make(u, k, once, keep)

\* What the records are after that.
RecordsOK ==
    /\ records' \in [Users -> SUBSET Made'] /\ key' \in [Recs -> Keys \cup {NoRec}]
    /\ home' \in [Recs -> Users \cup {NoUser}]
    /\ oneTime' \subseteq Made' /\ canceled' \subseteq Made'
    /\ want' \in [Recs -> 0 .. MaxVersion] /\ wants' \in [Recs -> 0 .. MaxVersion]
    /\ PlacesOK' /\ OnceOK' /\ OneRecordPerKey'

\* A map that loses records.
LEMMA ErasedOK ==
    ASSUME IInv, NEW t, NEW u \in Users, NEW keep \in SUBSET records[u],
           records' = [records EXCEPT ![u] = keep], UNCHANGED <<key, home, oneTime, want, wants>>,
           mutex[u] \in {t, NoThread}, sent' = sent, canceled \subseteq canceled',
           canceled' \subseteq Made
    PROVE  /\ RecordsOK /\ Orderly(t) /\ records'[u] \cap Made \subseteq keep
           /\ \A v \in Users \ {u} : records'[v] = records[v]
<1>0. Made' = Made /\ records'[u] = keep /\ \A v \in Users \ {u} : records'[v] = records[v]
  BY DEF Made, IInv, TypeOK
<1>1. \A v \in Users : records'[v] \subseteq records[v]
  BY <1>0
<1>2. records' \in [Users -> SUBSET Made']
  BY <1>0, <1>1 DEF IInv, TypeOK
<1>3. PlacesOK' /\ OnceOK' /\ OneRecordPerKey'
  BY <1>0, <1>1 DEF IInv, PlacesOK, OnceOK, OneRecordPerKey
<1>4. Orderly(t)
  BY <1>0 DEF Orderly
<1> QED
  BY <1>0, <1>2, <1>3, <1>4 DEF RecordsOK, IInv, TypeOK

\* A record that is made, beside the ones that are kept.
LEMMA MadeOK ==
    ASSUME IInv, NEW t, NEW u \in Users, NEW keep \in SUBSET records[u], NEW k \in Keys,
           NEW once \in BOOLEAN, \A q \in keep : key[q] # k, UserOf[k] # NoUser => u = UserOf[k],
           Make(u, k, once, keep),
           mutex[u] \in {t, NoThread}, sent' = sent, canceled \subseteq canceled',
           canceled' \subseteq Made
    PROVE  /\ RecordsOK /\ Orderly(t) /\ records'[u] \cap Made \subseteq keep
           /\ \A v \in Users \ {u} : records'[v] = records[v]
<1>1. PICK n \in NewRecs : /\ key' = [key EXCEPT ![n] = k] /\ home' = [home EXCEPT ![n] = u]
                           /\ oneTime' = IF once THEN oneTime \cup {n} ELSE oneTime
                           /\ want' = [want EXCEPT ![n] = 1] /\ wants' = [wants EXCEPT ![n] = 1]
                           /\ records' = [records EXCEPT ![u] = keep \cup {n}]
  BY DEF Make
<1>2. n \in Recs /\ key[n] = NoRec /\ k # NoRec /\ n \notin Made
  BY <1>1, NewRecFresh, KeyAssumption DEF Made
<1>3. /\ key'[n] = k /\ home'[n] = u
      /\ \A r \in Recs \ {n} : key'[r] = key[r] /\ home'[r] = home[r]
      /\ records'[u] = keep \cup {n} /\ \A v \in Users \ {u} : records'[v] = records[v]
      /\ \A r \in Recs \ {n} : r \in oneTime' <=> r \in oneTime
  BY <1>1, <1>2 DEF IInv, TypeOK
<1>4. Made' = Made \cup {n}
  BY <1>2, <1>3 DEF Made
<1>5. \A v \in Users : records[v] \subseteq Made /\ n \notin records[v]
  BY <1>2 DEF IInv, TypeOK
<1>6. keep \subseteq Made /\ n \notin canceled' /\ oneTime' \subseteq Made' /\ canceled' \subseteq Made'
  BY <1>1, <1>2, <1>4, <1>5 DEF IInv, TypeOK
<1>7. records' \in [Users -> SUBSET Made']
  BY <1>1, <1>4, <1>5, <1>6 DEF IInv, TypeOK
<1>8. Made \subseteq Recs
  BY DEF Made
<1>9. \A r \in Made : key'[r] = key[r] /\ home'[r] = home[r] /\ (r \in oneTime' <=> r \in oneTime)
  BY <1>2, <1>3, <1>8
<1>10. PlacesOK'
  <2>1. \A r \in Made' : /\ home'[r] \in Users
                         /\ UserOf[key'[r]] # NoUser => home'[r] = UserOf[key'[r]]
    BY <1>3, <1>4, <1>9 DEF IInv, PlacesOK
  <2>2. \A v \in Users : \A r \in records'[v] : home'[r] = v
    BY <1>3, <1>5, <1>6, <1>9 DEF IInv, PlacesOK
  <2> QED
    BY <2>1, <2>2 DEF PlacesOK
<1>11. OnceOK'
  <2>1. sent[n] = 0
    BY <1>2 DEF IInv, OnceOK
  <2>2. \A r \in oneTime' : r = n \/ r \in oneTime
    BY <1>1
  <2> QED
    BY <1>4, <2>1, <2>2 DEF IInv, OnceOK
<1>12. OneRecordPerKey'
  <2> SUFFICES ASSUME NEW v \in Users, NEW r \in records'[v], NEW q \in records'[v],
                      key'[r] = key'[q]
               PROVE  r = q
    BY DEF OneRecordPerKey
  <2>1. CASE v # u
    <3>1. r \in records[v] /\ q \in records[v] /\ r \in Made /\ q \in Made
      BY <1>3, <1>5, <2>1
    <3> QED
      BY <1>9, <3>1 DEF IInv, OneRecordPerKey
  <2>2. CASE v = u
    <3>1. r \in keep \cup {n} /\ q \in keep \cup {n}
      BY <1>3, <2>2
    <3>2. \A p \in keep : key'[p] = key[p] /\ key[p] # k
      BY <1>6, <1>9
    <3>3. CASE r \in keep /\ q \in keep
      BY <3>2, <3>3 DEF IInv, OneRecordPerKey
    <3> QED
      BY <1>3, <3>1, <3>2, <3>3
  <2> QED
    BY <2>1, <2>2
<1>13. Orderly(t)
  BY <1>3, <1>4, <1>9 DEF Orderly
<1>14. /\ key' \in [Recs -> Keys \cup {NoRec}] /\ home' \in [Recs -> Users \cup {NoUser}]
       /\ want' \in [Recs -> 0 .. MaxVersion] /\ wants' \in [Recs -> 0 .. MaxVersion]
  BY <1>1, <1>2, BoundAssumption DEF IInv, TypeOK
<1>15. records'[u] \cap Made \subseteq keep
  BY <1>2, <1>3
<1> QED
  BY <1>3, <1>6, <1>7, <1>10, <1>11, <1>12, <1>13, <1>14, <1>15 DEF RecordsOK

\* Both.
LEMMA ChangedOK ==
    ASSUME IInv, NEW t, NEW u \in Users, NEW keep \in SUBSET records[u], Changed(u, keep),
           mutex[u] \in {t, NoThread}, sent' = sent, canceled \subseteq canceled',
           canceled' \subseteq Made
    PROVE  /\ RecordsOK /\ Orderly(t) /\ records'[u] \cap Made \subseteq keep
           /\ \A v \in Users \ {u} : records'[v] = records[v]
<1>1. CASE records' = [records EXCEPT ![u] = keep] /\ UNCHANGED <<key, home, oneTime, want, wants>>
  BY <1>1, ErasedOK
<1>2. ASSUME NEW k \in Keys, NEW once \in BOOLEAN, \A q \in keep : key[q] # k,
             UserOf[k] # NoUser => u = UserOf[k], Make(u, k, once, keep)
      PROVE  /\ RecordsOK /\ Orderly(t) /\ records'[u] \cap Made \subseteq keep
             /\ \A v \in Users \ {u} : records'[v] = records[v]
  BY <1>2, MadeOK
<1> QED
  BY <1>1, <1>2 DEF Changed

\* A step of thread t that changes the records of a manager.
LEMMA RecordsStep ==
    ASSUME IInv, NEW t \in Threads, NEW c \in Calls, call' = [call EXCEPT ![t] = c],
           UNCHANGED <<env, current, listeners, clearing, lock, sent, told>>,
           RecordsOK, Orderly(t), CallOK(c)', MarkedOK', LocksOK',
           mutex' \in [Users -> Threads \cup {NoThread}],
           ToSend(c) => ToSend(call[t]) /\ c.rec = call[t].rec
    PROVE  IInv'
<1>2. CallsOK' /\ call'[t] = c /\ \A s \in Threads \ {t} : call'[s] = call[s]
  BY CallsKept
<1>3. TypeOK'
  <2>1. \A s \in Threads : call'[s].pc \in Places
    BY <1>2 DEF CallsOK, Calls
  <2> QED
    BY <2>1 DEF IInv, TypeOK, Places, Bundles, RecordsOK
<1>7. WithinBound'
  <2>1. \A q \in Recs : Sending(q)' \subseteq Sending(q)
    BY <1>2 DEF Sending
  <2> QED
    BY <2>1, NoMoreSending
<1> QED
  BY <1>2, <1>3, <1>7 DEF IInv, RecordsOK

\* GetCreate keeps the inductive invariant.
LEMMA GetCreateKeeps ==
    ASSUME IInv, NEW t \in Threads, NEW k \in env.keys, NEW once \in BOOLEAN,
           GetCreate(t, k, once)
    PROVE  IInv'
<1>1. PICK u : u = Chosen(t, k)
  OBVIOUS
<1>2. /\ Getting(t, k) /\ mutex[u] = NoThread /\ Match(u, k) = {}
      /\ Make(u, k, once, records[u]) /\ call' = [call EXCEPT ![t] = Idle]
      /\ UNCHANGED <<env, current, mutex, canceled, listeners, lock, clearing, sent, told>>
  BY <1>1 DEF GetCreate, history
<1>3. /\ u \in Users /\ k \in Keys /\ (UserOf[k] # NoUser => u = UserOf[k])
      /\ ~Inside(call[t]) /\ ~Holding(call[t]) /\ ~Telling(call[t]) /\ ~ToSend(call[t])
  BY <1>1, <1>2, GettingOK
<1>4. \A q \in records[u] : key[q] # k
  BY <1>2 DEF Match
<1>5. canceled' \subseteq Made
  BY <1>2 DEF IInv, TypeOK
<1>6. /\ RecordsOK /\ Orderly(t) /\ records'[u] \cap Made \subseteq records[u]
      /\ \A v \in Users \ {u} : records'[v] = records[v]
  BY <1>2, <1>3, <1>4, <1>5, MadeOK
<1>7. CallOK(Idle)' /\ Idle \in Calls /\ ~Inside(Idle) /\ ~Holding(Idle) /\ ~ToSend(Idle)
  BY IdleHasNothing, IdleCall
<1>8. CallsOK' /\ call'[t] = Idle /\ \A s \in Threads \ {t} : call'[s] = call[s]
  BY <1>2, <1>6, <1>7, CallsKept
<1>9. \A v \in Users : mutex[v] # t
  BY <1>3, HoldersDiffer
<1>10. \A q \in Recs : lock[q] # t
  BY <1>3, HoldersDiffer
<1>11. LocksOK'
  BY <1>2, <1>7, <1>8, <1>9, <1>10, LocksKept
<1>12. MarkedOK'
  <2>1. \A v \in Users : \A r \in records'[v] \cap canceled' :
           r \in records[v] \cap canceled /\ key'[r] = key[r]
    BY <1>2, <1>5, <1>6 DEF Orderly
  <2> QED
    BY <1>2, <1>8, <1>9, <2>1, MarkedKept
<1>13. mutex' \in [Users -> Threads \cup {NoThread}]
  BY <1>2 DEF IInv, TypeOK
<1> QED
  BY <1>2, <1>6, <1>7, <1>11, <1>12, <1>13, RecordsStep

\* ExecuteOperation keeps the inductive invariant.
LEMMA ExecuteOperationKeeps ==
    ASSUME IInv, NEW t \in Threads, ExecuteOperation(t)
    PROVE  IInv'
<1>1. PICK r : r = call[t].rec
  OBVIOUS
<1>2. PICK w : w = wants[r]
  OBVIOUS
<1>3. /\ call[t].pc = "execute" /\ CallOK(call[t]) /\ call[t] \in Calls
      /\ call' = [call EXCEPT ![t].pc = "receive", ![t].wants = w]
      /\ sent' = [sent EXCEPT ![r] = @ + 1]
      /\ UNCHANGED <<env, current, mutex, lock, records, key, home, oneTime, canceled, want, wants,
                     listeners, clearing, told>>
  BY <1>1, <1>2 DEF ExecuteOperation, IInv, CallsOK, agents
<1>4. r \in Made /\ r \in Recs /\ Made' = Made
  BY <1>1, <1>3 DEF CallOK, Made
<1>5. w \in 0 .. MaxVersion
  BY <1>2, <1>4 DEF IInv, TypeOK
<1>6. PICK c : c = [call[t] EXCEPT !.pc = "receive", !.wants = w]
  OBVIOUS
<1>7. c \in Calls /\ c.pc = "receive" /\ c.rec = r /\ c.late = call[t].late
  BY <1>1, <1>3, <1>5, <1>6 DEF Calls, Places
<1>8. call' = [call EXCEPT ![t] = c]
  BY <1>3, <1>6 DEF IInv, CallsOK, Calls
<1>9. /\ ~Telling(call[t]) /\ Inside(call[t]) /\ ~Holding(call[t]) /\ ToSend(call[t])
      /\ Before(call[t]) /\ Inside(c) /\ ~Holding(c) /\ ~Telling(c) /\ ~Before(c) /\ ~ToSend(c)
  BY <1>3, <1>7 DEF Telling, Inside, Holding, Before, ToSend
<1>10. CallOK(c)'
  BY <1>3, <1>4, <1>7, <1>9 DEF CallOK, Before, Telling
<1>11. sent'[r] = sent[r] + 1 /\ sent[r] \in Nat /\ \A q \in Recs \ {r} : sent'[q] = sent[q]
  BY <1>3, <1>4 DEF IInv, TypeOK
<1>12. lock[r] = t /\ \A q \in Recs : lock[q] = t <=> q = r
  BY <1>1, <1>9, HoldersDiffer
<1>13. Orderly(t)
  BY <1>3, <1>4, <1>11, <1>12 DEF Orderly
<1>14. CallsOK' /\ call'[t] = c /\ \A s \in Threads \ {t} : call'[s] = call[s]
  BY <1>7, <1>8, <1>10, <1>13, CallsKept
<1>15. \A v \in Users : mutex'[v] # t /\ mutex'[v] = mutex[v]
  BY <1>3, <1>9, HoldersDiffer
<1>16. LocksOK'
  <2>1. /\ \A q \in Recs : lock'[q] = lock[q]
        /\ \A v \in Users : mutex'[v] = mutex[v]
        /\ Inside(c) => c.rec \in Recs /\ lock'[c.rec] = t
        /\ \A q \in Recs : lock'[q] = t => Inside(c) /\ c.rec = q
        /\ Holding(c) => c.user \in Users /\ mutex'[c.user] = t
        /\ \A v \in Users : mutex'[v] = t => Holding(c) /\ c.user = v
    BY <1>3, <1>4, <1>7, <1>9, <1>12, <1>15
  <2> QED
    BY <1>7, <1>14, <2>1, LocksKept
<1>17. PlacesOK' /\ OneRecordPerKey'
  BY <1>3, <1>4 DEF IInv, PlacesOK, OneRecordPerKey
<1>18. OnceOK'
  <2>1. r \in oneTime => sent[r] = 0 /\ r \in canceled
    BY <1>1, <1>3, <1>9 DEF CallOK
  <2> QED
    BY <1>3, <1>4, <1>11, <2>1 DEF IInv, OnceOK, TypeOK
<1>19. MarkedOK'
  <2>1. \A v \in Users : \A q \in records'[v] \cap canceled' :
           /\ q \in records[v] \cap canceled /\ key'[q] = key[q]
           /\ mutex[v] # t /\ (mutex[v] # NoThread => mutex'[v] = mutex[v])
    BY <1>3, <1>15
  <2> QED
    BY <1>14, <2>1, MarkedKept
<1>20. WithinBound' /\ \A q \in Recs : sent'[q] <= MaxSent /\ sent'[q] \in Nat
  <2> SUFFICES ASSUME NEW q \in Recs
               PROVE  /\ sent'[q] + Cardinality(Sending(q)') <= MaxSent
                      /\ sent'[q] <= MaxSent /\ sent'[q] \in Nat
    BY DEF WithinBound
  <2>1. sent[q] \in Nat /\ sent[q] + Cardinality(Sending(q)) <= MaxSent /\ IsFiniteSet(Sending(q))
    BY BoundAssumption, FS_Subset DEF IInv, TypeOK, WithinBound, Sending
  <2>2. Sending(q)' = Sending(q) \ {t}
    BY <1>9, <1>14 DEF Sending
  <2>3. t \in Sending(q) <=> q = r
    BY <1>1, <1>9 DEF Sending
  <2>4. /\ IsFiniteSet(Sending(q) \ {t})
        /\ Cardinality(Sending(q) \ {t}) =
              IF t \in Sending(q) THEN Cardinality(Sending(q)) - 1 ELSE Cardinality(Sending(q))
    BY <2>1, FS_RemoveElement
  <2>5. Cardinality(Sending(q)) \in Nat /\ Cardinality(Sending(q) \ {t}) \in Nat
    BY <2>1, <2>4, FS_CardinalityType
  <2>6. sent'[q] = IF q = r THEN sent[q] + 1 ELSE sent[q]
    BY <1>11
  <2> QED
    BY <2>1, <2>2, <2>3, <2>4, <2>5, <2>6, BoundAssumption
<1>21. TypeOK'
  <2>1. \A s \in Threads : call'[s].pc \in Places
    BY <1>14 DEF CallsOK, Calls
  <2>2. sent' \in [Recs -> 0 .. MaxSent]
    <3>1. \A q \in Recs : sent'[q] \in 0 .. MaxSent
      BY <1>20, BoundAssumption
    <3>2. sent' = [q \in Recs |-> sent'[q]]
      BY <1>3 DEF IInv, TypeOK
    <3> QED
      BY <3>1, <3>2
  <2> QED
    BY <1>3, <1>4, <2>1, <2>2 DEF IInv, TypeOK, Places, Bundles
<1> QED
  BY <1>14, <1>16, <1>17, <1>18, <1>19, <1>20, <1>21 DEF IInv

\* ClearPendingWantRecord and SwitchUser keep the inductive invariant.
LEMMA NoRecordKeeps ==
    ASSUME IInv,
           \/ \E b \in Bundles : ClearPendingWantRecord(b)
           \/ \E u \in Users : SwitchUser(u)
    PROVE  IInv'
<1>1. /\ UNCHANGED <<env, mutex, records, key, home, oneTime, canceled, want, wants, listeners,
                     lock, call, sent, told>>
      /\ Made' = Made
  BY DEF ClearPendingWantRecord, SwitchUser, agents, history, Made
<1>2. current' \in Users /\ clearing' \subseteq Users \X Bundles
  <2>1. current \in Users /\ clearing \subseteq Users \X Bundles
    BY DEF IInv, TypeOK
  <2>2. ASSUME NEW b \in Bundles, ClearPendingWantRecord(b)
        PROVE  current' \in Users /\ clearing' \subseteq Users \X Bundles
    BY <2>1, <2>2 DEF ClearPendingWantRecord
  <2>3. ASSUME NEW u \in Users, SwitchUser(u)
        PROVE  current' \in Users /\ clearing' \subseteq Users \X Bundles
    BY <2>1, <2>3 DEF SwitchUser
  <2> QED
    BY <2>2, <2>3
<1>3. TypeOK'
  BY <1>1, <1>2 DEF IInv, TypeOK, Bundles
<1>4. CallsOK'
  BY <1>1 DEF IInv, CallsOK, CallOK, Telling, Before
<1>5. LocksOK' /\ MarkedOK'
  BY <1>1 DEF IInv, LocksOK, MarkedOK, Inside, Holding, Before, Telling
<1>6. PlacesOK' /\ OnceOK' /\ OneRecordPerKey'
  BY <1>1 DEF IInv, PlacesOK, OnceOK, OneRecordPerKey
<1>7. WithinBound'
  BY <1>1 DEF IInv, WithinBound, Sending, ToSend, Before, Telling
<1> QED
  BY <1>3, <1>4, <1>5, <1>6, <1>7 DEF IInv

\* ClearPendingWantRecordTask keeps the inductive invariant.
LEMMA ClearPendingWantRecordTaskKeeps ==
    ASSUME IInv, NEW u \in Users, NEW b \in Bundles, ClearPendingWantRecordTask(u, b)
    PROVE  IInv'
<1>1. /\ mutex[u] = NoThread /\ clearing' \subseteq clearing
      /\ records' = [records EXCEPT ![u] = {r \in @ : BundleOf[key[r]] # b}]
      /\ UNCHANGED <<env, current, mutex, key, home, oneTime, canceled, want, wants, listeners,
                     lock, call, sent, told>>
  BY DEF ClearPendingWantRecordTask, agents, history
<1>2. PICK keep : keep = {r \in records[u] : BundleOf[key[r]] # b}
  OBVIOUS
<1>3. keep \in SUBSET records[u] /\ records' = [records EXCEPT ![u] = keep]
  BY <1>1, <1>2 DEF IInv, TypeOK
<1>4. canceled' \subseteq Made
  BY <1>1 DEF IInv, TypeOK
<1>5. /\ RecordsOK /\ Orderly(NoThread) /\ records'[u] \cap Made \subseteq keep
      /\ \A v \in Users \ {u} : records'[v] = records[v]
  BY <1>1, <1>3, <1>4, ErasedOK
<1>6. TypeOK'
  BY <1>1, <1>5 DEF IInv, TypeOK, Bundles, RecordsOK
<1>7. CallsOK'
  <2> SUFFICES ASSUME NEW s \in Threads
               PROVE  CallOK(call[s])'
    BY <1>1 DEF IInv, CallsOK, Calls
  <2>1. PICK d : d = call[s]
    OBVIOUS
  <2>2. s # NoThread
    BY KeyAssumption
  <2>3. CallOK(d)' /\ call'[s] = d
    BY <1>1, <1>5, <2>1, <2>2, OthersOK
  <2> QED
    BY <2>3 DEF CallOK
<1>8. LocksOK'
  BY <1>1 DEF IInv, LocksOK, Inside, Holding, Before, Telling
<1>9. MarkedOK'
  <2>1. \A v \in Users : \A r \in records'[v] \cap canceled' : r \in records[v] \cap canceled
    BY <1>1, <1>4, <1>3, <1>5
  <2> QED
    BY <1>1, <2>1 DEF IInv, MarkedOK, Telling
<1>10. WithinBound'
  BY <1>1 DEF IInv, WithinBound, Sending, ToSend, Before, Telling
<1> QED
  BY <1>5, <1>6, <1>7, <1>8, <1>9, <1>10 DEF IInv, RecordsOK
-------------------------------------------------------------------------------
(* The steps that cancel.                                                  *)

\* What a call may cancel: record r in manager u, and what it does after it.
MayCancel(t, u, r, after) ==
    /\ u \in Users /\ r \in Made /\ ~call[t].late
    /\ after \in {"return", "build", "make", "makeOnce"}
    /\ UserOf[key[r]] # NoUser => u = home[r]
    /\ after \in {"make", "makeOnce"} => r \in records[u]
    /\ after = "build" => /\ Before(call[t]) /\ call[t].rec = r
                          /\ r \in oneTime /\ sent[r] = 0 /\ u = home[r]
    /\ after # "build" => ~Inside(call[t]) /\ ~ToSend(call[t])

\* Erase keeps the inductive invariant.
LEMMA EraseKeeps ==
    ASSUME IInv, NEW t \in Threads, NEW u, NEW r, NEW after,
           MayCancel(t, u, r, after), Erase(t, u, r, after),
           \/ mutex[u] = NoThread /\ ~Holding(call[t])
           \/ Telling(call[t]) /\ call[t].user = u /\ call[t].rec = r,
           canceled' = canceled \cup {r},
           UNCHANGED <<env, current, listeners, clearing, lock, sent, told>>
    PROVE  IInv'
<1>1. PICK c : c = Rest(t, after)
  OBVIOUS
<1>2. /\ mutex' = [mutex EXCEPT ![u] = NoThread] /\ call' = [call EXCEPT ![t] = c]
      /\ u \in Users /\ r \in Made /\ r \in Recs /\ call[t] \in Calls
      /\ canceled \subseteq canceled' /\ canceled' \subseteq Made
  BY <1>1 DEF Erase, MayCancel, Made, IInv, CallsOK, TypeOK
<1>3. PICK keep : keep = records[u] \ {r}
  OBVIOUS
<1>4. keep \in SUBSET records[u]
  BY <1>3
<1>5. mutex[u] \in {t, NoThread} /\ (mutex[u] = t => call[t].rec = r)
      /\ \A v \in Users \ {u} : mutex[v] # t
  <2>1. Telling(call[t]) => Holding(call[t])
    BY DEF Holding
  <2> QED
    BY <1>2, <2>1, HoldersDiffer
<1>6. Changed(u, keep)
  <2>1. CASE after \in {"make", "makeOnce"} /\ Make(u, key[r], after = "makeOnce", keep)
    <3>1. r \in records[u] /\ key[r] \in Keys
      BY <1>2, <2>1 DEF MayCancel, Made, IInv, TypeOK
    <3>2. \A q \in keep : key[q] # key[r]
      BY <1>2, <1>3, <3>1 DEF IInv, OneRecordPerKey
    <3>3. UserOf[key[r]] # NoUser => u = UserOf[key[r]]
      BY <1>2 DEF MayCancel, IInv, PlacesOK
    <3>4. PICK once \in BOOLEAN : once = (after = "makeOnce")
      OBVIOUS
    <3>5. Make(u, key[r], once, keep)
      BY <2>1, <3>4
    <3> QED
      BY <3>1, <3>2, <3>3, <3>5 DEF Changed
  <2>2. CASE records' = [records EXCEPT ![u] = keep] /\ UNCHANGED <<key, home, oneTime, want, wants>>
    BY <2>2 DEF Changed
  <2> QED
    BY <1>2, <1>3, <2>1, <2>2 DEF Erase, IInv, TypeOK
<1>7. /\ RecordsOK /\ Orderly(t) /\ records'[u] \cap Made \subseteq keep
      /\ \A v \in Users \ {u} : records'[v] = records[v]
  BY <1>2, <1>4, <1>5, <1>6, ChangedOK
<1>8. /\ c \in Calls /\ CallOK(c)' /\ ~Holding(c) /\ ~Telling(c)
      /\ Inside(c) <=> Inside(call[t])
      /\ Inside(c) => c.rec = r /\ call[t].rec = r
      /\ ToSend(c) => ToSend(call[t]) /\ c.rec = call[t].rec
  <2>1. CASE after = "build"
    <3>1. c = [call[t] EXCEPT !.pc = "build", !.user = NoUser, !.to = NoRec, !.left = {},
                              !.after = "none"]
      BY <1>1, <2>1 DEF Rest
    <3>2. c \in Calls /\ c.pc = "build" /\ c.rec = call[t].rec /\ c.late = call[t].late
      BY <1>2, <3>1 DEF Calls, Places, Afters
    <3>3. /\ Before(call[t]) /\ call[t].rec = r /\ r \in oneTime /\ sent[r] = 0
          /\ ~call[t].late
      BY <2>1 DEF MayCancel
    <3>4. CallOK(c)'
      BY <1>2, <1>7, <3>2, <3>3 DEF CallOK, Telling, Before, Orderly
    <3> QED
      BY <3>2, <3>3, <3>4 DEF Holding, Telling, Inside, Before, ToSend
  <2>2. CASE after # "build"
    <3>1. c = Idle /\ ~Inside(call[t])
      BY <1>1, <2>2 DEF Rest, MayCancel
    <3>2. CallOK(c)'
      BY <3>1 DEF Idle, CallOK, Telling, Before
    <3> QED
      BY <3>1, <3>2, IdleCall, IdleHasNothing DEF Holding
  <2> QED
    BY <2>1, <2>2
<1>9. CallsOK' /\ call'[t] = c /\ \A s \in Threads \ {t} : call'[s] = call[s]
  BY <1>2, <1>7, <1>8, CallsKept
<1>10. mutex'[u] = NoThread /\ \A v \in Users \ {u} : mutex'[v] = mutex[v]
  BY <1>2 DEF IInv, TypeOK
<1>11. LocksOK'
  <2>1. \A v \in Users : \/ mutex'[v] = mutex[v]
                         \/ mutex[v] \in {t, NoThread} /\ mutex'[v] \in {t, NoThread}
    BY <1>5, <1>10
  <2>2. \A v \in Users : mutex'[v] # t
    BY <1>5, <1>10, KeyAssumption
  <2>3. Inside(c) => c.rec \in Recs /\ lock'[c.rec] = t
    BY <1>2, <1>8 DEF IInv, LocksOK
  <2>4. \A q \in Recs : lock'[q] = t => Inside(c) /\ c.rec = q
    BY <1>8, HoldersDiffer
  <2> QED
    BY <1>8, <1>9, <2>1, <2>2, <2>3, <2>4, LocksKept
<1>12. MarkedOK'
  <2> SUFFICES ASSUME NEW v \in Users, NEW q \in records'[v] \cap canceled',
                      UserOf[key'[q]] # NoUser
               PROVE  /\ q \in records[v] \cap canceled /\ key'[q] = key[q]
                      /\ mutex[v] # t /\ (mutex[v] # NoThread => mutex'[v] = mutex[v])
    BY <1>9, MarkedKept
  <2>1. q \in Made /\ key'[q] = key[q]
    BY <1>2, <1>7 DEF Orderly
  <2>2. CASE v = u
    <3>1. q \in records[u] /\ q # r /\ q \in canceled
      BY <1>3, <1>7, <2>1, <2>2
    <3>2. mutex[u] # NoThread /\ call[mutex[u]].rec = q
      BY <1>2, <2>1, <3>1 DEF IInv, MarkedOK
    <3> QED
      BY <1>5, <3>1, <3>2
  <2>3. CASE v # u
    <3>1. q \in records[v] /\ home[q] = v
      BY <1>7, <2>3 DEF IInv, PlacesOK
    <3>2. q # r
      BY <2>1, <2>3, <3>1 DEF MayCancel
    <3> QED
      BY <1>5, <1>10, <2>1, <2>3, <3>1, <3>2
  <2> QED
    BY <2>2, <2>3
<1>13. mutex' \in [Users -> Threads \cup {NoThread}]
  BY <1>2 DEF IInv, TypeOK
<1> QED
  BY <1>2, <1>7, <1>8, <1>11, <1>12, <1>13, RecordsStep

\* A cancel that has listeners to tell keeps the inductive invariant.
LEMMA MarkKeeps ==
    ASSUME IInv, NEW t \in Threads, NEW u, NEW r, NEW after, NEW l \in listeners[r],
           MayCancel(t, u, r, after), mutex[u] = NoThread, ~Holding(call[t]),
           mutex' = [mutex EXCEPT ![u] = t],
           call' = [call EXCEPT ![t] =
                      [call[t] EXCEPT !.pc = "tell", !.rec = r, !.user = u, !.to = l,
                                      !.left = listeners[r] \ {l}, !.after = after]],
           canceled' = canceled \cup {r},
           UNCHANGED <<records, key, home, oneTime, want, wants>>,
           UNCHANGED <<env, current, listeners, clearing, lock, sent, told>>
    PROVE  IInv'
<1>1. PICK rest : rest = listeners[r] \ {l}
  OBVIOUS
<1>2. PICK c : c = [call[t] EXCEPT !.pc = "tell", !.rec = r, !.user = u, !.to = l,
                                   !.left = rest, !.after = after]
  OBVIOUS
<1>3. /\ u \in Users /\ r \in Made /\ r \in Recs /\ call[t] \in Calls /\ Made' = Made
      /\ l \in Listeners /\ rest \subseteq Listeners /\ ~call[t].late
      /\ after \in {"return", "build", "make", "makeOnce"}
  BY <1>1 DEF MayCancel, Made, IInv, CallsOK, TypeOK
<1>4. /\ c \in Calls /\ c.pc = "tell" /\ c.rec = r /\ c.user = u /\ c.to = l /\ c.after = after
      /\ c.late = call[t].late
  BY <1>2, <1>3 DEF Calls, Places, Afters
<1>5. call' = [call EXCEPT ![t] = c]
  BY <1>1, <1>2
<1>6. /\ Telling(c) /\ Holding(c) /\ (Before(c) <=> after = "build")
      /\ (Inside(c) <=> after = "build") /\ (ToSend(c) <=> after = "build")
  BY <1>4 DEF Telling, Holding, Before, Inside, ToSend
<1>7. CallOK(c)'
  BY <1>3, <1>4, <1>6 DEF CallOK, MayCancel, Telling, Before
<1>8. RecordsOK /\ Orderly(t)
  <2>1. RecordsOK
    BY <1>3 DEF RecordsOK, IInv, TypeOK, PlacesOK, OnceOK, OneRecordPerKey
  <2> QED
    BY <1>3, <2>1 DEF Orderly
<1>9. CallsOK' /\ call'[t] = c /\ \A s \in Threads \ {t} : call'[s] = call[s]
  BY <1>4, <1>5, <1>7, <1>8, CallsKept
<1>10. /\ mutex'[u] = t /\ \A v \in Users \ {u} : mutex'[v] = mutex[v]
       /\ \A v \in Users : mutex[v] # t
  BY <1>3, HoldersDiffer DEF IInv, TypeOK
<1>11. LocksOK'
  <2>1. \A v \in Users : \/ mutex'[v] = mutex[v]
                         \/ mutex[v] \in {t, NoThread} /\ mutex'[v] \in {t, NoThread}
    BY <1>10
  <2>2. \A v \in Users : mutex'[v] = t => v = u
    BY <1>10
  <2>3. Inside(call[t]) <=> after = "build"
    BY DEF MayCancel, Inside
  <2>4. Inside(c) => c.rec \in Recs /\ lock'[c.rec] = t
    BY <1>3, <1>4, <1>6, <2>3 DEF IInv, LocksOK, MayCancel
  <2>5. \A q \in Recs : lock'[q] = t => Inside(c) /\ c.rec = q
    BY <1>4, <1>6, <2>3, HoldersDiffer DEF MayCancel
  <2>6. /\ Holding(c) => c.user \in Users /\ mutex'[c.user] = t
        /\ \A v \in Users : mutex'[v] = t => Holding(c) /\ c.user = v
        /\ \A q \in Recs : lock'[q] = lock[q]
    BY <1>3, <1>4, <1>6, <1>10, <2>2
  <2> QED
    BY <1>4, <1>9, <2>1, <2>4, <2>5, <2>6, LocksKept
<1>12. MarkedOK'
  <2>1. ASSUME NEW v \in Users, NEW q \in records'[v] \cap canceled'
        PROVE  \/ UserOf[key'[q]] = NoUser
               \/ mutex'[v] = t /\ Telling(call'[t]) /\ call'[t].rec = q
               \/ /\ q \in records[v] \cap canceled /\ key'[q] = key[q]
                  /\ mutex[v] # t /\ (mutex[v] # NoThread => mutex'[v] = mutex[v])
    <3>1. CASE q = r /\ UserOf[key'[q]] # NoUser
      <4>1. home[r] = v /\ u = home[r]
        BY <3>1 DEF MayCancel, IInv, PlacesOK
      <4> QED
        BY <1>4, <1>6, <1>9, <1>10, <3>1, <4>1
    <3>2. CASE q # r
      BY <1>10, <3>2
    <3> QED
      BY <3>1, <3>2
  <2> QED
    BY <1>9, <2>1, MarkedKept
<1>13. mutex' \in [Users -> Threads \cup {NoThread}]
  BY <1>3 DEF IInv, TypeOK
<1>14. ToSend(c) => ToSend(call[t]) /\ c.rec = call[t].rec
  BY <1>4, <1>6 DEF MayCancel, ToSend
<1> QED
  BY <1>4, <1>5, <1>7, <1>8, <1>11, <1>12, <1>13, <1>14, RecordsStep

\* Cancel keeps the inductive invariant.
LEMMA CancelKeeps ==
    ASSUME IInv, NEW t \in Threads, NEW u, NEW r, NEW after,
           MayCancel(t, u, r, after), mutex[u] = NoThread, ~Holding(call[t]),
           Cancel(t, u, r, after)
    PROVE  IInv'
<1>1. /\ canceled' = canceled \cup {r}
      /\ UNCHANGED <<env, current, listeners, clearing, lock, sent, told>>
  BY DEF Cancel, history
<1>2. CASE Erase(t, u, r, after)
  BY <1>1, <1>2, EraseKeeps
<1>3. ASSUME NEW l \in listeners[r], mutex' = [mutex EXCEPT ![u] = t],
             call' = [call EXCEPT ![t] =
                        [call[t] EXCEPT !.pc = "tell", !.rec = r, !.user = u, !.to = l,
                                        !.left = listeners[r] \ {l}, !.after = after]],
             UNCHANGED <<records, key, home, oneTime, want, wants>>
      PROVE  IInv'
  BY <1>1, <1>3, MarkKeeps
<1> QED
  BY <1>2, <1>3 DEF Cancel

\* GetReplace and GetCancelled keep the inductive invariant.
LEMMA GetCancelKeeps ==
    ASSUME IInv, NEW t \in Threads, NEW k \in env.keys,
           GetCancelled(t, k) \/ \E once \in BOOLEAN : GetReplace(t, k, once)
    PROVE  IInv'
<1>1. PICK u : u = Chosen(t, k)
  OBVIOUS
<1>2. PICK r \in Match(u, k), after \in {"return", "make", "makeOnce"} :
         Getting(t, k) /\ mutex[u] = NoThread /\ Cancel(t, u, r, after)
  BY <1>1 DEF GetCancelled, GetReplace
<1>3. /\ u \in Users /\ (UserOf[k] # NoUser => u = UserOf[k]) /\ ~call[t].late
      /\ ~Inside(call[t]) /\ ~Holding(call[t]) /\ ~Telling(call[t]) /\ ~ToSend(call[t])
  BY <1>1, <1>2, GettingOK
<1>4. r \in Made /\ r \in records[u] /\ key[r] = k /\ u = home[r]
  BY <1>2, <1>3 DEF Match, IInv, TypeOK, PlacesOK
<1>5. MayCancel(t, u, r, after)
  BY <1>2, <1>3, <1>4 DEF MayCancel
<1> QED
  BY <1>2, <1>3, <1>5, CancelKeeps

\* SendOnce keeps the inductive invariant.
LEMMA SendOnceKeeps ==
    ASSUME IInv, NEW t \in Threads, SendOnce(t)
    PROVE  IInv'
<1>1. PICK r, u : r = call[t].rec /\ u = home[r]
  OBVIOUS
<1>2. /\ call[t].pc = "once" /\ mutex[u] = NoThread /\ Cancel(t, u, r, "build")
      /\ CallOK(call[t])
  BY <1>1 DEF SendOnce, IInv, CallsOK
<1>3. Before(call[t]) /\ ~Holding(call[t]) /\ r \in Made /\ r \in oneTime
  BY <1>1, <1>2 DEF Before, Holding, Telling, CallOK
<1>4. u \in Users /\ sent[r] = 0 /\ ~call[t].late
  BY <1>1, <1>2, <1>3 DEF CallOK, IInv, PlacesOK
<1>5. MayCancel(t, u, r, "build")
  BY <1>1, <1>3, <1>4 DEF MayCancel
<1> QED
  BY <1>2, <1>3, <1>5, CancelKeeps

\* CancelWantSender keeps the inductive invariant.
LEMMA CancelWantSenderKeeps ==
    ASSUME IInv, NEW t \in Threads, NEW r \in Recs, CancelWantSender(t, r)
    PROVE  IInv'
<1>1. PICK u : u = IF call[t].pc = "idle" THEN ManagerOf(key[r]) ELSE call[t].user
  OBVIOUS
<1>2. /\ r \in Made /\ mutex[u] = NoThread /\ Cancel(t, u, r, "return")
      /\ call[t].pc = "idle" \/ (call[t].pc = "cancel" /\ call[t].rec = r)
      /\ CallOK(call[t])
  BY <1>1 DEF CancelWantSender, Unused, IInv, CallsOK
<1>3. ~Inside(call[t]) /\ ~Holding(call[t]) /\ ~ToSend(call[t]) /\ ~call[t].late
  BY <1>2 DEF Inside, Before, Telling, Holding, ToSend, CallOK
<1>4. u \in Users /\ (UserOf[key[r]] # NoUser => u = home[r])
  <2>1. CASE call[t].pc = "idle"
    <3>1. key[r] \in Keys
      BY <1>2 DEF Made, IInv, TypeOK
    <3> QED
      BY <1>1, <1>2, <2>1, <3>1, ManagerIsUser DEF IInv, PlacesOK
  <2>2. CASE call[t].pc = "cancel" /\ call[t].rec = r
    BY <1>1, <1>2, <2>2 DEF CallOK
  <2> QED
    BY <1>2, <2>1, <2>2
<1>5. MayCancel(t, u, r, "return")
  BY <1>2, <1>3, <1>4 DEF MayCancel
<1> QED
  BY <1>2, <1>3, <1>5, CancelKeeps

\* TellNext keeps the inductive invariant.
LEMMA TellNextKeeps ==
    ASSUME IInv, NEW t \in Threads, TellNext(t)
    PROVE  IInv'
<1>1. /\ call[t].pc = "told" /\ CallOK(call[t]) /\ call[t] \in Calls /\ Telling(call[t])
      /\ UNCHANGED <<env, current, canceled, listeners, lock, clearing, sent, told>>
  BY DEF TellNext, IInv, CallsOK, Telling, history
<1>2. CASE Erase(t, call[t].user, call[t].rec, call[t].after)
  <2>1. PICK u, r, after : u = call[t].user /\ r = call[t].rec /\ after = call[t].after
    OBVIOUS
  <2>2. Before(call[t]) <=> after = "build"
    BY <1>1, <2>1 DEF Before, Telling
  <2>3. (Inside(call[t]) <=> after = "build") /\ (ToSend(call[t]) <=> after = "build")
    BY <1>1, <2>2 DEF Inside, ToSend
  <2>4. MayCancel(t, u, r, after)
    BY <1>1, <2>1, <2>2, <2>3 DEF MayCancel, CallOK
  <2>5. canceled' = canceled \cup {r}
    BY <1>1, <2>1 DEF CallOK
  <2>6. Erase(t, u, r, after)
    BY <1>2, <2>1
  <2> QED
    BY <1>1, <2>1, <2>4, <2>5, <2>6, EraseKeeps
<1>3. ASSUME NEW l \in call[t].left,
             call' = [call EXCEPT ![t] = [call[t] EXCEPT !.pc = "tell", !.to = l,
                                                        !.left = call[t].left \ {l}]],
             UNCHANGED <<mutex, records, key, home, oneTime, want, wants>>
      PROVE  IInv'
  <2>1. PICK rest : rest = call[t].left \ {l}
    OBVIOUS
  <2>2. PICK c : c = [call[t] EXCEPT !.pc = "tell", !.to = l, !.left = rest]
    OBVIOUS
  <2>3. l \in Listeners /\ rest \subseteq Listeners
    BY <1>1, <1>3, <2>1 DEF Calls
  <2>4. c \in Calls /\ c.pc = "tell" /\ c.rec = call[t].rec /\ c.late = call[t].late
        /\ c.user = call[t].user /\ c.to = l /\ c.after = call[t].after
    BY <1>1, <2>2, <2>3 DEF Calls, Places
  <2>5. CallOK(c)
    BY <1>1, <2>3, <2>4 DEF CallOK, Telling, Before
  <2>6. /\ Inside(c) <=> Inside(call[t])
        /\ Holding(c) /\ Holding(call[t]) /\ Telling(c)
        /\ ToSend(c) => ToSend(call[t])
    BY <1>1, <2>4 DEF Inside, Holding, Telling, ToSend, Before
  <2>7. call' = [call EXCEPT ![t] = c]
    BY <1>3, <2>1, <2>2
  <2>8. UNCHANGED <<env, current, mutex, records, agents, lock, clearing, sent>>
    BY <1>1, <1>3 DEF agents
  <2>9. told' \subseteq Listeners \X Recs
    BY <1>1 DEF IInv, TypeOK
  <2> QED
    BY <1>1, <2>4, <2>5, <2>6, <2>7, <2>8, <2>9, CallStep
<1> QED
  BY <1>2, <1>3 DEF TellNext
-------------------------------------------------------------------------------
\* Every step keeps the inductive invariant.
LEMMA StepKeeps ==
    ASSUME IInv, [Next]_vars
    PROVE  IInv'
<1>1. CASE UNCHANGED vars
  <2>1. Made' = Made
    BY <1>1 DEF vars, agents, Made
  <2> QED
    BY <1>1, <2>1
    DEF IInv, vars, agents, history, TypeOK, CallsOK, CallOK, LocksOK, PlacesOK, OnceOK, MarkedOK,
        WithinBound, Sending, OneRecordPerKey, Bundles, Telling, Holding, Before, Inside, ToSend
<1>2. ASSUME NEW t \in Threads, NEW k \in env.keys, GetFound(t, k) PROVE IInv'
  BY <1>2, GetFoundKeeps
<1>3. ASSUME NEW t \in Threads, NEW k \in env.keys, GetUpdate(t, k) PROVE IInv'
  BY <1>3, GetUpdateKeeps
<1>4. ASSUME NEW t \in Threads, UpdateAllWants(t) PROVE IInv'
  BY <1>4, UpdateAllWantsKeeps
<1>5. ASSUME NEW t \in Threads, NEW k \in env.keys, NEW once \in BOOLEAN, GetCreate(t, k, once)
      PROVE  IInv'
  BY <1>5, GetCreateKeeps
<1>6. ASSUME NEW t \in Threads, NEW k \in env.keys, NEW once \in BOOLEAN, GetReplace(t, k, once)
      PROVE  IInv'
  BY <1>6, GetCancelKeeps
<1>7. ASSUME NEW t \in Threads, NEW k \in env.keys, GetCancelled(t, k) PROVE IInv'
  BY <1>7, GetCancelKeeps
<1>8. ASSUME NEW t \in Threads, Tell(t) PROVE IInv'
  BY <1>8, TellKeeps
<1>9. ASSUME NEW t \in Threads, TellNext(t) PROVE IInv'
  BY <1>9, TellNextKeeps
<1>10. ASSUME NEW t \in Threads, NEW r \in Recs, SendStart(t, r) PROVE IInv'
  BY <1>10, SendStartKeeps
<1>11. ASSUME NEW t \in Threads, SendCheck(t) PROVE IInv'
  BY <1>11, SendCheckKeeps
<1>12. ASSUME NEW t \in Threads, SendOnce(t) PROVE IInv'
  BY <1>12, SendOnceKeeps
<1>13. ASSUME NEW t \in Threads, BuildSendWant(t) PROVE IInv'
  BY <1>13, BuildSendWantKeeps
<1>14. ASSUME NEW t \in Threads, ExecuteOperation(t) PROVE IInv'
  BY <1>14, ExecuteOperationKeeps
<1>15. ASSUME NEW t \in Threads, SendReturn(t) PROVE IInv'
  BY <1>15, SendReturnKeeps
<1>16. ASSUME NEW t \in Threads, NEW s \in Threads, CallBack(t, s) PROVE IInv'
  BY <1>16, CallBackKeeps
<1>17. ASSUME NEW t \in Threads, NEW r \in Recs, CancelWantSender(t, r) PROVE IInv'
  BY <1>17, CancelWantSenderKeeps
<1>18. ASSUME NEW t \in Threads, NEW r \in Recs, NEW l \in Listeners, ListenStart(t, r, l)
       PROVE  IInv'
  BY <1>18, ListenStartKeeps
<1>19. ASSUME NEW t \in Threads, FindRecord(t) PROVE IInv'
  BY <1>19, FindRecordKeeps
<1>20. ASSUME NEW t \in Threads, RegisterCancelListener(t) PROVE IInv'
  BY <1>20, ListenerKeeps
<1>21. ASSUME NEW t \in Threads, UnregisterCancelListener(t) PROVE IInv'
  BY <1>21, ListenerKeeps
<1>22. ASSUME NEW b \in Bundles, ClearPendingWantRecord(b) PROVE IInv'
  BY <1>22, NoRecordKeeps
<1>23. ASSUME NEW u \in Users, NEW b \in Bundles, ClearPendingWantRecordTask(u, b) PROVE IInv'
  BY <1>23, ClearPendingWantRecordTaskKeeps
<1>24. ASSUME NEW u \in Users, SwitchUser(u) PROVE IInv'
  BY <1>24, NoRecordKeeps
<1> QED
  BY <1>1, <1>2, <1>3, <1>4, <1>5, <1>6, <1>7, <1>8, <1>9, <1>10, <1>11, <1>12, <1>13, <1>14,
     <1>15, <1>16, <1>17, <1>18, <1>19, <1>20, <1>21, <1>22, <1>23, <1>24 DEF Next

\* The inductive invariant holds of the initial states.
LEMMA InitHolds ==
    ASSUME Init
    PROVE  IInv
<1>1. Made = {}
  BY DEF Init, Made
<1>2. TypeOK
  BY <1>1, BoundAssumption DEF Init, TypeOK, Idle
<1>3. CallsOK
  <2>1. call \in [Threads -> Calls] /\ \A t \in Threads : call[t] = Idle
    BY IdleCall DEF Init
  <2>2. CallOK(Idle)
    BY IdleHasNothing
  <2> QED
    BY <2>1, <2>2 DEF CallsOK
<1>4. LocksOK
  BY IdleHasNothing DEF Init, LocksOK
<1>5. PlacesOK /\ OnceOK /\ MarkedOK /\ OneRecordPerKey
  BY <1>1 DEF Init, PlacesOK, OnceOK, MarkedOK, OneRecordPerKey
<1>6. WithinBound
  <2> SUFFICES ASSUME NEW r \in Recs PROVE sent[r] + Cardinality(Sending(r)) <= MaxSent
    BY DEF WithinBound
  <2>1. Sending(r) = {}
    BY IdleHasNothing DEF Init, Sending
  <2>2. Cardinality(Sending(r)) = 0
    BY <2>1, FS_EmptySet
  <2> QED
    BY <2>2, BoundAssumption DEF Init
<1> QED
  BY <1>2, <1>3, <1>4, <1>5, <1>6 DEF IInv

\* The inductive invariant.
THEOREM Invariant == Spec => []IInv
<1>1. Init => IInv
  BY InitHolds
<1>2. IInv /\ [Next]_vars => IInv'
  BY StepKeeps
<1> QED
  BY <1>1, <1>2, PTL DEF Spec

\* GetWantSender finds one record for a key and, with mutex_, one that can be
\* triggered.
THEOREM FoundUsable == Spec => []Consistent
<1>1. IInv => Consistent
  BY DEF IInv, Consistent, PresentUsable, MarkedOK
<1> QED
  BY <1>1, Invariant, PTL

\* A want agent of ONE_TIME_FLAG executes at most once, however its triggers,
\* cancels and updates interleave.
THEOREM TriggeredOnce == Spec => []OneTimeOnce
<1>1. IInv => OneTimeOnce
  <2> SUFFICES ASSUME IInv, NEW r \in oneTime PROVE sent[r] <= 1
    BY DEF OneTimeOnce
  <2>1. sent[r] \in Nat
    BY DEF IInv, TypeOK, Made
  <2> QED
    BY <2>1 DEF IInv, OnceOK
<1> QED
  BY <1>1, Invariant, PTL

\* A trigger that is called after a cancel is refused.
THEOREM CancelIsFinal == Spec => []LateSendRefused
<1>1. IInv => LateSendRefused
  BY DEF IInv, CallsOK, CallOK, LateSendRefused
<1> QED
  BY <1>1, Invariant, PTL

\* Threads that wait for one another are entangled by a receiver: a thread that
\* has mutex_ waits for nothing but a receiver, and one that has lock_ and waits
\* for no receiver's trigger waits for mutex_ at most.
THEOREM LockOrder == Spec => []NoCircularWait
<1>1. ASSUME IInv, NEW S \in (SUBSET Threads) \ {{}}, \A t \in S : Blockers(t) \cap S # {},
             \A t \in S : ~Entangled(t)
      PROVE  FALSE
  <2>0. \A t \in S : t \in Threads /\ CallOK(call[t]) /\ call[t] \in Calls
    BY <1>1 DEF IInv, CallsOK
  <2>1. \A t \in S : call[t].pc # "tell"
    BY <1>1, <2>0 DEF Blockers, Entangled
  <2>2. \A t \in S : call[t].pc # "told"
    <3> SUFFICES ASSUME NEW t \in S, call[t].pc = "told" PROVE FALSE
      OBVIOUS
    <3>1. PICK s \in S : s \in Serving(t)
      BY <1>1 DEF Blockers
    <3>2. call[s].from = t /\ t \in Threads
      BY <2>0, <3>1 DEF Serving
    <3> QED
      BY <1>1, <3>2 DEF Entangled
  <2>3. \A t \in S : call[t].pc # "update"
    BY <1>1 DEF Blockers
  <2>4. \A t \in S : ~Holding(call[t])
    BY <2>1, <2>2, <2>3 DEF Holding, Telling
  <2>5. \A u \in Users : mutex[u] \notin S
    BY <2>0, <2>4, HoldersDiffer, <1>1
  <2>6. \A t \in S : call[t].pc \notin {"once", "get", "cancel", "find", "register", "unregister"}
    <3> SUFFICES ASSUME NEW t \in S,
                        call[t].pc \in {"once", "get", "cancel", "find", "register", "unregister"}
                 PROVE  FALSE
      OBVIOUS
    <3>1. CASE call[t].pc = "once"
      <4>1. home[call[t].rec] \in Users
        BY <2>0, <3>1, <1>1 DEF CallOK, IInv, PlacesOK
      <4>2. Blockers(t) = {mutex[home[call[t].rec]]}
        BY <3>1 DEF Blockers
      <4> QED
        BY <1>1, <2>5, <4>1, <4>2
    <3>2. CASE call[t].pc \in {"get", "cancel", "find", "register", "unregister"}
      <4>1. call[t].user \in Users
        BY <2>0, <3>2 DEF CallOK
      <4>2. Blockers(t) = {mutex[call[t].user]}
        BY <3>2 DEF Blockers
      <4> QED
        BY <1>1, <2>5, <4>1, <4>2
    <3> QED
      BY <3>1, <3>2
  <2>7. \A t \in S : call[t].pc \in {"send", "receive", "refused"}
    <3>1. \A t \in S : call[t].pc \notin {"idle", "build", "execute"}
      BY <1>1 DEF Blockers
    <3>2. \A t \in S : call[t].pc \in Places
      BY <2>0 DEF Calls
    <3> QED
      BY <2>1, <2>2, <2>3, <2>6, <3>1, <3>2 DEF Places
  <2>8. \A t \in S : call[t].pc = "send"
    <3> SUFFICES ASSUME NEW t \in S, call[t].pc \in {"receive", "refused"} PROVE FALSE
      BY <2>7
    <3>1. PICK s \in S : s \in Serving(t)
      BY <1>1 DEF Blockers
    <3>2. call[s].from = t /\ t # NoThread
      BY <2>0, <3>1, KeyAssumption DEF Serving
    <3> QED
      BY <1>1, <2>7, <3>2 DEF Entangled
  <2>9. PICK t \in S : TRUE
    BY <1>1
  <2>10. PICK s \in S : s = lock[call[t].rec]
    BY <1>1, <2>8 DEF Blockers
  <2>11. call[t].rec \in Recs
    BY <2>0, <2>8 DEF CallOK, Made
  <2>12. Inside(call[s])
    BY <1>1, <2>0, <2>10, <2>11, KeyAssumption DEF IInv, LocksOK
  <2> QED
    BY <2>8, <2>12 DEF Inside, Before, Telling
<1>2. IInv => NoCircularWait
  BY <1>1 DEF NoCircularWait
<1> QED
  BY <1>2, Invariant, PTL
===============================================================================
