------------------------------ MODULE PendingWant -----------------------------
(***************************************************************************)
(* PendingWantManager and PendingWantRecord (services/abilitymgr/src), and *)
(* how AbilityManagerService picks the manager: want agents ("pending      *)
(* wants") that one application obtains and others trigger or cancel.      *)
(*                                                                         *)
(* Every user has a manager with a mutex_ of its own; every record has a   *)
(* lock_ that serialises its triggers.  A trigger reads the record's flag  *)
(* and wants without mutex_, so cancels and updates run beside it.         *)
(*                                                                         *)
(* The receivers of other processes are called synchronously and with the  *)
(* lock held: the receiver that waits for the end of a trigger under       *)
(* lock_, the cancel listeners under mutex_.  A receiver may call the      *)
(* ability manager before it returns.                                      *)
(*                                                                         *)
(* Not modelled: permissions, what the triggered operation does, and the   *)
(* per-bundle count kept for statistics.                                   *)
(***************************************************************************)
EXTENDS Naturals, FiniteSets

CONSTANTS Threads,    \* IPC and task threads of the ability manager
          Users,      \* users that have a PendingWantManager
          Keys,       \* what CheckPendingWantRecordByKey compares
          UserOf,     \* userId of a key: a user, or NoUser when unspecified (-1)
          BundleOf,   \* bundle of a key's wants
          Recs,       \* PendingWantRecords (bounds how many are made)
          Listeners,  \* IWantReceivers of cancel listeners
          Environments, \* keys, listeners, threads used and what else happens
          MaxSent,    \* bound on the operations executed by one record
          MaxVersion, \* bound on the updates of one record
          NoUser, NoRec, NoThread

ASSUME KeyAssumption == /\ UserOf \in [Keys -> Users \cup {NoUser}]
                        /\ NoUser \notin Users
                        /\ NoRec \notin Recs \cup Keys
                        /\ NoThread \notin Threads
                        /\ Environments \subseteq
                             [keys : SUBSET Keys, listeners : SUBSET Listeners, pool : Nat,
                              inputs : SUBSET {"send", "switch", "update", "inline"}]
ASSUME BoundAssumption == MaxSent \in Nat /\ MaxVersion \in Nat \ {0} /\ IsFiniteSet(Threads)

VARIABLES env,       \* the environment of this behaviour, which never changes
          current,   \* the user in front: GetCurrentPendingWantManager
          mutex,     \* mutex_ of each manager
          records,   \* wantRecords_ of each manager
          key,       \* key_ of a record, NoRec before it is made
          home,      \* the manager that made the record: pendingWantManager_
          oneTime,   \* records made with ONE_TIME_FLAG
          canceled,  \* records whose canceled_ is set
          want,      \* version of requestWant_
          wants,     \* version of allWantsInfos_
          listeners, \* mCancelCallbacks_
          lock,      \* lock_ of a record
          call,      \* what each thread is doing
          clearing,  \* bundles whose ClearPendingWantRecordTask is to run, per manager
          sent,      \* operations executed by each record (history)
          told       \* listeners told of the cancel of a record (history)

agents  == <<key, home, oneTime, canceled, want, wants, listeners>>
history == <<sent, told>>
vars    == <<env, current, mutex, records, agents, lock, call, clearing, history>>

\* A thread that serves nobody.  from is the thread whose receiver made the call.
Idle == [pc |-> "idle", rec |-> NoRec, late |-> FALSE, user |-> NoUser, want |-> 0, wants |-> 0,
         key |-> NoRec, to |-> NoRec, left |-> {}, after |-> "none", from |-> NoThread]

Init == /\ env \in Environments
        /\ current \in Users
        /\ mutex = [u \in Users |-> NoThread]
        /\ records = [u \in Users |-> {}]
        /\ key = [r \in Recs |-> NoRec]
        /\ home = [r \in Recs |-> NoUser]
        /\ oneTime = {}
        /\ canceled = {}
        /\ want = [r \in Recs |-> 0]
        /\ wants = [r \in Recs |-> 0]
        /\ listeners = [r \in Recs |-> {}]
        /\ lock = [r \in Recs |-> NoThread]
        /\ call = [t \in Threads |-> Idle]
        /\ clearing = {}
        /\ sent = [r \in Recs |-> 0]
        /\ told = {}

Made == {r \in Recs : key[r] # NoRec}

\* Which record object comes next makes no difference.
NewRecs == IF Made = Recs THEN {} ELSE {CHOOSE r \in Recs \ Made : TRUE}

\* The manager AbilityManagerService chooses for a key.
ManagerOf(k) == IF UserOf[k] = NoUser THEN current ELSE UserOf[k]

\* GetPendingWantRecordByKey.  The flags are not part of the comparison.
Match(u, k) == {r \in records[u] : key[r] = k}

\* A thread that is not serving a call, of those the environment uses.
Unused(t) == /\ call[t].pc = "idle"
             /\ Cardinality({s \in Threads : call[s].pc # "idle"}) < env.pool

\* The calls a receiver that t called has made and waits for.
Serving(t) == {s \in Threads : call[s].from = t}

\* The client of listener l has lock_object while it registers or unregisters.
InClient(l) == {s \in Threads : /\ call[s].pc \in {"find", "register", "unregister"}
                                /\ call[s].to = l}
-------------------------------------------------------------------------------
(* Cancelling.  mutex_ of manager u is held by thread t from the mark to   *)
(* the erase, and after it comes the rest of the call: nothing, the        *)
(* trigger it is part of, or a new record.                                 *)

\* A new record, or none if there is no memory for it.
Make(u, k, once, others) ==
    \E r \in NewRecs :
        /\ key' = [key EXCEPT ![r] = k]
        /\ home' = [home EXCEPT ![r] = u]
        /\ oneTime' = IF once THEN oneTime \cup {r} ELSE oneTime
        /\ want' = [want EXCEPT ![r] = 1]
        /\ wants' = [wants EXCEPT ![r] = 1]
        /\ records' = [records EXCEPT ![u] = others \cup {r}]

\* The call after the cancel: it returns, but for a trigger.
Rest(t, after) ==
    IF after = "build"
       THEN [call[t] EXCEPT !.pc = "build", !.user = NoUser, !.to = NoRec, !.left = {},
                            !.after = "none"]
       ELSE Idle

\* Mutant: the record is not erased (cleanAbility false).
Erase_Kept(t, u, r, after) ==
    /\ mutex' = [mutex EXCEPT ![u] = NoThread]
    /\ call' = [call EXCEPT ![t] = Rest(t, after)]
    /\ UNCHANGED <<records, key, home, oneTime, want, wants>>

\* Mutant: a trigger keeps mutex_ to its end.
Erase_Locked(t, u, r, after) ==
    /\ mutex' = [mutex EXCEPT ![u] = IF after = "build" THEN t ELSE NoThread]
    /\ call' = [call EXCEPT ![t] = Rest(t, after)]
    /\ records' = [records EXCEPT ![u] = @ \ {r}]
    /\ UNCHANGED <<key, home, oneTime, want, wants>>

\* The record is erased, and mutex_ released when nothing else needs it.
Erase(t, u, r, after) ==
    /\ mutex' = [mutex EXCEPT ![u] = NoThread]
    /\ call' = [call EXCEPT ![t] = Rest(t, after)]
    /\ \/ /\ after \in {"make", "makeOnce"} /\ NewRecs # {}
          /\ Make(u, key[r], after = "makeOnce", records[u] \ {r})
       \/ /\ after \notin {"make", "makeOnce"} \/ NewRecs = {}
          /\ records' = [records EXCEPT ![u] = @ \ {r}]
          /\ UNCHANGED <<key, home, oneTime, want, wants>>

\* The listeners are called one by one, or there is none.
Cancel(t, u, r, after) ==
    /\ canceled' = canceled \cup {r}
    /\ \/ listeners[r] = {} /\ Erase(t, u, r, after)
       \/ /\ mutex' = [mutex EXCEPT ![u] = t]
          /\ \E l \in listeners[r] :
                call' = [call EXCEPT ![t] =
                           [call[t] EXCEPT !.pc = "tell", !.rec = r, !.user = u, !.to = l,
                                           !.left = listeners[r] \ {l}, !.after = after]]
          /\ UNCHANGED <<records, key, home, oneTime, want, wants>>
    /\ UNCHANGED <<env, current, listeners, lock, clearing, history>>

\* callback->Send: NotifyCancelListeners in the client copies the listeners under
\* lock_object, and calls OnCancelled without it.
Tell(t) ==
    /\ call[t].pc = "tell"
    /\ InClient(call[t].to) = {}
    /\ told' = told \cup {<<call[t].to, call[t].rec>>}
    /\ call' = [call EXCEPT ![t].pc = "told"]
    /\ UNCHANGED <<env, current, mutex, records, agents, lock, clearing, sent>>

\* OnCancelled returns.
TellNext(t) ==
    /\ call[t].pc = "told"
    /\ Serving(t) = {}
    /\ \/ call[t].left = {} /\ Erase(t, call[t].user, call[t].rec, call[t].after)
       \/ /\ \E l \in call[t].left :
                call' = [call EXCEPT ![t] = [call[t] EXCEPT !.pc = "tell", !.to = l,
                                                           !.left = call[t].left \ {l}]]
          /\ UNCHANGED <<mutex, records, key, home, oneTime, want, wants>>
    /\ UNCHANGED <<env, current, canceled, listeners, lock, clearing, history>>
-------------------------------------------------------------------------------
(* GetWantSender: one call under mutex_, by what it finds and by its flags. *)

\* Thread t serves a new call, or the one of a receiver that waits for it; and the
\* manager that was chosen for it.
Getting(t, k) == Unused(t) \/ (call[t].pc = "get" /\ call[t].key = k)
Chosen(t, k)  == IF call[t].pc = "idle" THEN ManagerOf(k) ELSE call[t].user

\* Found, without CANCEL_PRESENT_FLAG or UPDATE_PRESENT_FLAG.
GetFound(t, k) ==
    LET u == Chosen(t, k)
    IN  /\ Getting(t, k) /\ mutex[u] = NoThread
        /\ Match(u, k) # {}
        /\ call' = [call EXCEPT ![t] = Idle]
        /\ UNCHANGED <<env, current, mutex, records, agents, lock, clearing, history>>

\* UPDATE_PRESENT_FLAG: requestWant_ is replaced first ...
GetUpdate(t, k) ==
    LET u == Chosen(t, k)
    IN  /\ "update" \in env.inputs
        /\ Getting(t, k) /\ mutex[u] = NoThread
        /\ \E r \in Match(u, k) :
              /\ want[r] < MaxVersion
              /\ want' = [want EXCEPT ![r] = @ + 1]
              /\ call' = [call EXCEPT ![t] =
                             [call[t] EXCEPT !.pc = "update", !.rec = r, !.user = u]]
        /\ mutex' = [mutex EXCEPT ![u] = t]
        /\ UNCHANGED <<env, current, records, key, home, oneTime, canceled, wants, listeners, lock,
                       clearing, history>>

\* ... and allWantsInfos_ after it, both under mutex_ only.
UpdateAllWants(t) ==
    /\ call[t].pc = "update"
    /\ wants' = [wants EXCEPT ![call[t].rec] = want[call[t].rec]]
    /\ mutex' = [mutex EXCEPT ![call[t].user] = NoThread]
    /\ call' = [call EXCEPT ![t] = Idle]
    /\ UNCHANGED <<env, current, records, key, home, oneTime, canceled, want, listeners, lock,
                   clearing, history>>

GetCreate(t, k, once) ==
    LET u == Chosen(t, k)
    IN  /\ Getting(t, k) /\ mutex[u] = NoThread
        /\ Match(u, k) = {}
        /\ Make(u, k, once, records[u])
        /\ call' = [call EXCEPT ![t] = Idle]
        /\ UNCHANGED <<env, current, mutex, canceled, listeners, lock, clearing, history>>

\* CANCEL_PRESENT_FLAG, without NO_BUILD_FLAG.
GetReplace(t, k, once) ==
    LET u == Chosen(t, k)
    IN  /\ Getting(t, k) /\ mutex[u] = NoThread
        /\ \E r \in Match(u, k) : Cancel(t, u, r, IF once THEN "makeOnce" ELSE "make")

\* CANCEL_PRESENT_FLAG with NO_BUILD_FLAG: cancelled and returned.
GetCancelled(t, k) ==
    LET u == Chosen(t, k)
    IN  /\ Getting(t, k) /\ mutex[u] = NoThread
        /\ \E r \in Match(u, k) : Cancel(t, u, r, "return")
-------------------------------------------------------------------------------
(* SendWantSender and SenderInner, on thread t for record r.               *)

\* A trigger is called, by a client or by the receiver that thread "by" has called.
Trigger(r, by) == [Idle EXCEPT !.pc = "send", !.rec = r, !.late = r \in canceled, !.from = by]

MaySend(r) == /\ r \in Made
              /\ sent[r] + Cardinality({s \in Threads : call[s].rec = r}) < MaxSent

SendStart(t, r) ==
    /\ "send" \in env.inputs
    /\ Unused(t)
    /\ MaySend(r)
    /\ call' = [call EXCEPT ![t] = Trigger(r, NoThread)]
    /\ UNCHANGED <<env, current, mutex, records, agents, lock, clearing, history>>

\* Mutant: canceled_ is not looked at.
SendCheck_Blind(t) ==
    LET r == call[t].rec
    IN  /\ call[t].pc = "send"
        /\ lock[r] = NoThread
        /\ lock' = [lock EXCEPT ![r] = t]
        /\ call' = [call EXCEPT ![t].pc = IF r \in oneTime THEN "once" ELSE "build"]
        /\ UNCHANGED <<env, current, mutex, records, agents, clearing, history>>

\* lock_ is taken.  For a cancelled record the receiver is told "canceled" under it,
\* and ERR_WANTAGENT_CANCELED returned.
SendCheck(t) ==
    LET r == call[t].rec
    IN  /\ call[t].pc = "send"
        /\ lock[r] = NoThread
        /\ lock' = [lock EXCEPT ![r] = t]
        /\ call' = [call EXCEPT ![t].pc = CASE r \in canceled            -> "refused"
                                            [] r \in oneTime \ canceled -> "once"
                                            [] OTHER                     -> "build"]
        /\ UNCHANGED <<env, current, mutex, records, agents, clearing, history>>

\* Mutant: the record goes on being usable after its one trigger.
SendOnce_Uncancelled(t) ==
    LET r == call[t].rec
    IN  /\ call[t].pc = "once"
        /\ mutex[home[r]] = NoThread
        /\ records' = [records EXCEPT ![home[r]] = @ \ {r}]
        /\ call' = [call EXCEPT ![t].pc = "build"]
        /\ UNCHANGED <<env, current, mutex, agents, lock, clearing, history>>

\* ONE_TIME_FLAG: CancelWantSenderLocked of the record's own manager, which is
\* the one that made it.
SendOnce(t) ==
    LET r == call[t].rec
    IN  /\ call[t].pc = "once"
        /\ mutex[home[r]] = NoThread
        /\ Cancel(t, home[r], r, "build")

\* BuildSendWant copies requestWant_ ...
BuildSendWant(t) ==
    /\ call[t].pc = "build"
    /\ call' = [call EXCEPT ![t].pc = "execute", ![t].want = want[call[t].rec]]
    /\ UNCHANGED <<env, current, mutex, records, agents, lock, clearing, history>>

\* ... and ExecuteOperation (START_ABILITIES) the other wants.  PerformReceive of
\* the finished receiver follows, with lock_ held.
ExecuteOperation(t) ==
    LET r == call[t].rec
    IN  /\ call[t].pc = "execute"
        /\ sent' = [sent EXCEPT ![r] = @ + 1]
        /\ call' = [call EXCEPT ![t].pc = "receive", ![t].wants = wants[r]]
        /\ UNCHANGED <<env, current, mutex, records, agents, lock, clearing, told>>

\* The finished receiver, if there is one, returns; lock_ is released.
SendReturn(t) ==
    /\ call[t].pc \in {"receive", "refused"}
    /\ Serving(t) = {}
    /\ lock' = [lock EXCEPT ![call[t].rec] = NoThread]
    /\ call' = [call EXCEPT ![t] = Idle]
    /\ UNCHANGED <<env, current, mutex, records, agents, clearing, history>>

\* A receiver that t called makes a call of its own before it returns; thread s
\* serves it.
CallBack(t, s) ==
    /\ "inline" \in env.inputs
    /\ call[t].pc \in {"told", "receive", "refused"}
    /\ Serving(t) = {}
    /\ Unused(s)
    /\ \/ \E k \in env.keys :
             call' = [call EXCEPT ![s] = [Idle EXCEPT !.pc = "get", !.key = k,
                                                      !.user = ManagerOf(k), !.from = t]]
       \/ \E r \in Made :
             call' = [call EXCEPT ![s] = [Idle EXCEPT !.pc = "cancel", !.rec = r,
                                                      !.user = ManagerOf(key[r]), !.from = t]]
       \/ \E r \in Recs : MaySend(r) /\ call' = [call EXCEPT ![s] = Trigger(r, t)]
    /\ UNCHANGED <<env, current, mutex, records, agents, lock, clearing, history>>
-------------------------------------------------------------------------------
(* The other operations.                                                   *)

\* CancelWantSender of a system application or service.
CancelWantSender(t, r) ==
    LET u == IF call[t].pc = "idle" THEN ManagerOf(key[r]) ELSE call[t].user
    IN  /\ r \in Made
        /\ Unused(t) \/ (call[t].pc = "cancel" /\ call[t].rec = r)
        /\ mutex[u] = NoThread
        /\ Cancel(t, u, r, "return")

\* PendingWant, in the client: lock_object is held for the whole of the call.
ListenStart(t, r, l) ==
    /\ l \in env.listeners
    /\ Unused(t)
    /\ r \in Made
    /\ InClient(l) = {}
    /\ \E op \in {"register", "unregister"} :
          /\ op = "unregister" <=> l \in listeners[r]
          /\ call' = [call EXCEPT ![t] = [Idle EXCEPT !.pc = "find", !.rec = r, !.user = current,
                                                      !.to = l, !.after = op]]
    /\ UNCHANGED <<env, current, mutex, records, agents, lock, clearing, history>>

\* RegisterCancelListener and UnregisterCancelListener of the current manager: the
\* record is looked up under mutex_ and, with mutex_ released, to register it must
\* not be cancelled ...
FindRecord(t) ==
    /\ call[t].pc = "find"
    /\ mutex[call[t].user] = NoThread
    /\ \/ /\ call[t].rec \in records[call[t].user]
          /\ call[t].after = "register" => call[t].rec \notin canceled
          /\ call' = [call EXCEPT ![t] = [call[t] EXCEPT !.pc = call[t].after, !.after = "none"]]
       \/ /\ \/ call[t].rec \notin records[call[t].user]
             \/ call[t].after = "register" /\ call[t].rec \in canceled
          /\ call' = [call EXCEPT ![t] = Idle]
    /\ UNCHANGED <<env, current, mutex, records, agents, lock, clearing, history>>

\* ... and the listener is added or removed under mutex_.
RegisterCancelListener(t) ==
    /\ call[t].pc = "register"
    /\ mutex[call[t].user] = NoThread
    /\ listeners' = [listeners EXCEPT ![call[t].rec] = @ \cup {call[t].to}]
    /\ call' = [call EXCEPT ![t] = Idle]
    /\ UNCHANGED <<env, current, mutex, records, key, home, oneTime, canceled, want, wants,
                   lock, clearing, history>>

UnregisterCancelListener(t) ==
    /\ call[t].pc = "unregister"
    /\ mutex[call[t].user] = NoThread
    /\ listeners' = [listeners EXCEPT ![call[t].rec] = @ \ {call[t].to}]
    /\ call' = [call EXCEPT ![t] = Idle]
    /\ UNCHANGED <<env, current, mutex, records, key, home, oneTime, canceled, want, wants,
                   lock, clearing, history>>

\* UninstallApp asks the current manager, which submits a task.
ClearPendingWantRecord(b) ==
    /\ <<current, b>> \notin clearing
    /\ \E u \in Users, r \in Recs : r \in records[u] /\ BundleOf[key[r]] = b
    /\ clearing' = clearing \cup {<<current, b>>}
    /\ UNCHANGED <<env, current, mutex, records, agents, lock, call, history>>

\* The bundle's records are erased; they are not marked cancelled.
ClearPendingWantRecordTask(u, b) ==
    /\ <<u, b>> \in clearing
    /\ mutex[u] = NoThread
    /\ clearing' = clearing \ {<<u, b>>}
    /\ records' = [records EXCEPT ![u] = {r \in @ : BundleOf[key[r]] # b}]
    /\ UNCHANGED <<env, current, mutex, agents, lock, call, history>>

SwitchUser(u) ==
    /\ "switch" \in env.inputs
    /\ u # current
    /\ current' = u
    /\ UNCHANGED <<env, mutex, records, agents, lock, call, clearing, history>>
-------------------------------------------------------------------------------
Bundles == {BundleOf[k] : k \in Keys}

Next == \/ \E t \in Threads, k \in env.keys : GetFound(t, k)
        \/ \E t \in Threads, k \in env.keys : GetUpdate(t, k)
        \/ \E t \in Threads : UpdateAllWants(t)
        \/ \E t \in Threads, k \in env.keys, once \in BOOLEAN : GetCreate(t, k, once)
        \/ \E t \in Threads, k \in env.keys, once \in BOOLEAN : GetReplace(t, k, once)
        \/ \E t \in Threads, k \in env.keys : GetCancelled(t, k)
        \/ \E t \in Threads : Tell(t)
        \/ \E t \in Threads : TellNext(t)
        \/ \E t \in Threads, r \in Recs : SendStart(t, r)
        \/ \E t \in Threads : SendCheck(t)
        \/ \E t \in Threads : SendOnce(t)
        \/ \E t \in Threads : BuildSendWant(t)
        \/ \E t \in Threads : ExecuteOperation(t)
        \/ \E t \in Threads : SendReturn(t)
        \/ \E t, s \in Threads : CallBack(t, s)
        \/ \E t \in Threads, r \in Recs : CancelWantSender(t, r)
        \/ \E t \in Threads, r \in Recs, l \in Listeners : ListenStart(t, r, l)
        \/ \E t \in Threads : FindRecord(t)
        \/ \E t \in Threads : RegisterCancelListener(t)
        \/ \E t \in Threads : UnregisterCancelListener(t)
        \/ \E b \in Bundles : ClearPendingWantRecord(b)
        \/ \E u \in Users, b \in Bundles : ClearPendingWantRecordTask(u, b)
        \/ \E u \in Users : SwitchUser(u)

Spec == Init /\ [][Next]_vars
-------------------------------------------------------------------------------
TypeOK ==
    /\ env \in Environments
    /\ current \in Users
    /\ mutex \in [Users -> Threads \cup {NoThread}]
    /\ records \in [Users -> SUBSET Made]
    /\ key \in [Recs -> Keys \cup {NoRec}]
    /\ home \in [Recs -> Users \cup {NoUser}]
    /\ oneTime \subseteq Made /\ canceled \subseteq Made
    /\ want \in [Recs -> 0 .. MaxVersion] /\ wants \in [Recs -> 0 .. MaxVersion]
    /\ listeners \in [Recs -> SUBSET Listeners]
    /\ lock \in [Recs -> Threads \cup {NoThread}]
    /\ \A t \in Threads : call[t].pc \in {"idle", "get", "cancel", "update", "find", "register",
                                          "unregister", "tell", "told", "send", "once", "build",
                                          "execute", "receive", "refused"}
    /\ clearing \subseteq Users \X Bundles
    /\ sent \in [Recs -> 0 .. MaxSent]
    /\ told \subseteq Listeners \X Recs

\* A manager never has two records for what it compares: the next GetWantSender
\* with that key, whatever its flags, finds the record the earlier ones returned.
OneRecordPerKey ==
    \A u \in Users : \A r, q \in records[u] : key[r] = key[q] => r = q

\* A record made with ONE_TIME_FLAG executes its operation at most once, however
\* many threads trigger it while others cancel, replace or update it.
OneTimeOnce == \A r \in oneTime : sent[r] <= 1

\* A trigger that is called after a cancel executes nothing: SenderInner looks
\* at canceled_ under lock_, and no path clears it.
LateSendRefused ==
    \A t \in Threads : call[t].late => call[t].pc \in {"send", "refused"}

\* What a manager finds, with mutex_, for a key that names its user can be
\* triggered: every path that marks a record also erases it from the map it is in
\* before it releases mutex_.  A key that leaves the user open is the exception,
\* see the README.
PresentUsable ==
    \A u \in Users : mutex[u] = NoThread =>
        \A r \in records[u] \cap canceled : UserOf[key[r]] = NoUser

\* GetWantSender finds one record for a key, and one that can be triggered.
Consistent == TypeOK /\ OneRecordPerKey /\ PresentUsable

\* The threads that hold what thread t waits for: a lock, or the return of a receiver.
Blockers(t) ==
    CASE call[t].pc = "send"                                -> {lock[call[t].rec]}
      [] call[t].pc = "once"                                -> {mutex[home[call[t].rec]]}
      [] call[t].pc \in {"get", "cancel", "find", "register", "unregister"}
                                                            -> {mutex[call[t].user]}
      [] call[t].pc = "tell"                                -> InClient(call[t].to)
      [] call[t].pc \in {"told", "receive", "refused"}      -> Serving(t)
      [] OTHER                                              -> {}

\* The calls a receiver should not make, and the client that cannot be told:
\* a call of a cancel listener, a trigger by any receiver, and a cancel listener
\* that is being registered or unregistered.
Entangled(t) ==
    \/ \E s \in Threads : call[t].from = s /\ call[s].pc = "told"
    \/ call[t].from # NoThread /\ call[t].pc \in {"send", "refused", "once", "receive"}
    \/ call[t].pc = "tell" /\ InClient(call[t].to) # {}

\* Threads that wait for one another for ever are entangled by a receiver: the
\* manager itself takes lock_ before mutex_ and never the other way, so that the
\* receiver a trigger is finished with may get and cancel want agents before it
\* returns.
NoCircularWait ==
    \A S \in (SUBSET Threads) \ {{}} :
        (\A t \in S : Blockers(t) \cap S # {}) => \E t \in S : Entangled(t)
-------------------------------------------------------------------------------
(* What the documentation says of want agents and the code does not keep,  *)
(* see the README.                                                         *)

\* cancel_listener.h: OnCancelled is "Called when a Cancel operation as
\* completed.", here of a listener whose registration has returned.
ListenerTold == \A r \in canceled : \A l \in listeners[r] : <<l, r>> \in told

\* want_agent_constant.h: with UPDATE_PRESENT_FLAG "the system only replaces the
\* extra data of the existing WantAgent with that of the new object": a trigger
\* sends the wants of the one or of the other.
OneVersionSent == \A t \in Threads : call[t].pc = "receive" => call[t].want = call[t].wants
===============================================================================
