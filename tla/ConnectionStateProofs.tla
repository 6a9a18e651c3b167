------------------------ MODULE ConnectionStateProofs -------------------------
(***************************************************************************)
(* The tables of ConnectionStateManager hold nothing that is over, and an  *)
(* observer that keeps what it was told last knows what is so, for any     *)
(* processes, connections, extensions and data abilities.                  *)
(*                                                                         *)
(* The observers are called outside stateLock_, so a call may be stale     *)
(* when it is made.  What saves it is that all changes of one pair of a    *)
(* living process and an extension are made by one thread (RightThread),   *)
(* which makes its calls before it goes on, and that the threads of the    *)
(* data ability manager have mutex_ meanwhile, or the pair is adrift: the  *)
(* calls on the way about a pair say what is so, and with none on the way  *)
(* the observer knows (Informed).                                          *)
(***************************************************************************)
EXTENDS ConnectionState, TLAPS, FiniteSetTheorems, SequenceTheorems

Events == {"Connected", "Disconnected", "Suspended", "Resumed"}
Calls == [event : Events, pid : Pids, target : Targets]

\* What an observer that is told of an event takes to be so.
Means(event) == CASE event = "Disconnected" -> "absent"
                  [] event = "Suspended"    -> "suspended"
                  [] OTHER                  -> "connected"

IsAbout(m, p, s) == m.pid = p /\ m.target = s

TablesTyped ==
    /\ items \subseteq Pids
    /\ conns \in [Conns -> {"out", "in", "suspended"}]
    /\ callers \subseteq Callers \X Datas
    /\ live \in [Conns -> {"none", "requested", "connected", "suspended"}]
    /\ held \in [Callers -> [Datas -> 0 .. MaxAcquire]]
    /\ dead \subseteq Pids \cup Datas /\ reports \subseteq Mortal

\* Something of process p is in the tables.
Busy(f, g, p) == \/ \E c \in Conns : PidOf[c] = p /\ f[c] # "out"
                 \/ \E k \in Callers, d \in Datas : PidOf[k] = p /\ <<k, d>> \in g

NoIdleItem == \A p \in Pids : p \in items <=> Busy(conns, callers, p)

\* Connections are suspended and data abilities acquired again only where this
\* may happen; a death is reported after it.
Limits == /\ \A c \in Conns : live[c] = "suspended" => c \in Suspendable
          /\ \A k \in Callers \ Repeated, d \in Datas : held[k][d] <= 1
          /\ reports \subseteq dead
          /\ \A k \in Callers, d \in Datas : <<k, d>> \in obits => PidOf[k] \in dead

\* The tables miss nothing of a living process, but for the exempt pairs.
NothingMissing ==
    /\ \A c \in Conns : PidOf[c] \notin dead /\ ~Exempt(PidOf[c], TargetOf[c]) =>
          /\ live[c] = "connected" => conns[c] = "in"
          /\ live[c] = "suspended" => conns[c] = "suspended"
    /\ \A k \in Callers, d \in Datas : PidOf[k] \notin dead /\ ~Exempt(PidOf[k], d) =>
          (held[k][d] > 0 => <<k, d>> \in callers)

TInv == TablesTyped /\ NoIdleItem /\ NothingStale /\ Limits /\ NothingMissing

LocksTyped ==
    /\ env \in Environments
    /\ mutex \in Inside \cup {"free"}
    /\ call \in [Inside -> [pc : {"idle", "wait", "found", "granted", "return"},
                             data : Datas \cup {"none"}]]
    /\ active \subseteq Datas
    /\ watched \subseteq Callers \X Datas /\ obits \subseteq Callers \X Datas
    /\ adrift \subseteq Pids \X Datas

\* What a client's thread inside Acquire can rely on.
AcquireOK ==
    \A k \in Callers :
        /\ call[k].pc \in {"wait", "found", "granted"} =>
              call[k].data \in Datas /\ held[k][call[k].data] < Most(k)
        /\ call[k].pc = "granted" /\ PidOf[k] \notin dead => <<k, call[k].data>> \in watched

\* The death of a client that is listed will be heard of.
ListedWatched ==
    \A k \in Callers, d \in Datas :
        <<k, d>> \in callers /\ <<PidOf[k], d>> \notin adrift /\ PidOf[k] \notin dead
            => <<k, d>> \in watched

LInv == LocksTyped /\ AcquireOK /\ ListedWatched

CallsTyped == /\ pending \in [Threads -> Seq(Calls)]
              /\ view \in [Pids -> [Targets -> {"absent", "connected", "suspended"}]]

RightThread == \A t \in Threads : \A i \in 1 .. Len(pending[t]) :
                  pending[t][i].pid \notin dead /\ pending[t][i].target \in Services => t = "serial"

\* Thread t has still to call the observers about p and s, and what it will tell is so.
Telling(t, p, s)    == \E i \in 1 .. Len(pending[t]) : IsAbout(pending[t][i], p, s)
TellsRight(t, p, s) == \A i \in 1 .. Len(pending[t]) :
                          IsAbout(pending[t][i], p, s) => Means(pending[t][i].event) = State(p, s)

Informed ==
    \A p \in Pids \ dead, s \in Targets : ~Exempt(p, s) /\ <<p, s>> \notin adrift =>
        /\ \A t \in Threads : TellsRight(t, p, s)
        /\ (\E t \in Threads : Telling(t, p, s)) \/ view[p][s] = State(p, s)

OInv == CallsTyped /\ RightThread /\ Informed

\* The inductive invariant: of the tables, of the threads inside the data ability
\* manager, and of the calls to the observers.
IInv == TInv /\ LInv /\ OInv
-------------------------------------------------------------------------------
(* Sequences and sets.                                                     *)

\* SetToSeq lists the elements of a finite set.
LEMMA SetListed ==
    ASSUME NEW S, IsFiniteSet(S)
    PROVE  /\ SetToSeq(S) \in Seq(S)
           /\ \A x \in S : \E i \in 1 .. Len(SetToSeq(S)) : SetToSeq(S)[i] = x
<1> DEFINE n == Cardinality(S)
<1>1. n \in Nat /\ \E f \in [1 .. n -> S] : IsInjective(f)
  BY FS_CardinalityType DEF ExistsBijection, Bijection, Injection
<1>2. SetToSeq(S) \in [1 .. n -> S] /\ IsInjective(SetToSeq(S))
  BY <1>1 DEF SetToSeq
<1>3. SetToSeq(S) \in Injection(1 .. n, S)
  BY <1>2 DEF Injection
<1>4. Cardinality(1 .. n) = n
  BY <1>1, FS_Interval
<1>5. SetToSeq(S) \in Surjection(1 .. n, S)
  BY <1>3, <1>4, FS_Injection
<1> HIDE DEF n
<1>6. SetToSeq(S) \in Seq(S) /\ Len(SetToSeq(S)) = n
  BY <1>1, <1>2
<1> QED
  BY <1>5, <1>6 DEF Surjection

\* A process has nothing in the tables exactly when its item is empty.
LEMMA EmptyIsIdle ==
    ASSUME NEW f, NEW g, NEW p
    PROVE  IsEmpty(f, g, p) <=> ~Busy(f, g, p)
<1>1. (\A s \in Services : Known(f, p, s) = {}) <=> \A c \in Conns : PidOf[c] = p => f[c] = "out"
  BY StateAssumption DEF Known, Of
<1>2. (\A d \in Datas : Clients(g, p, d) = {})
      <=> \A k \in Callers, d \in Datas : PidOf[k] = p => <<k, d>> \notin g
  BY DEF Clients
<1> QED
  BY <1>1, <1>2 DEF IsEmpty, Busy

\* Two connections of a process to a service, one of which may be suspended.
LEMMA TwoExempt ==
    ASSUME NEW c \in Conns, NEW e \in Conns, c # e,
           PidOf[c] = PidOf[e], TargetOf[c] = TargetOf[e], {c, e} \cap Suspendable # {}
    PROVE  Exempt(PidOf[c], TargetOf[c])
<1> DEFINE O == Of(PidOf[c], TargetOf[c])
<1>1. IsFiniteSet(O) /\ c \in O /\ e \in O
  <2>1. O \in SUBSET Conns /\ c \in O /\ e \in O
    BY DEF Of
  <2> QED
    BY <2>1, BoundAssumption, FS_Subset
<1>2. Cardinality(O) \in Nat /\ Cardinality(O) # 0 /\ Cardinality(O) # 1
  <2>1. \A x : O # {x}
    BY <1>1
  <2> QED
    BY <1>1, <2>1, FS_CardinalityType, FS_EmptySet, FS_Singleton
<1>3. O \cap Suspendable # {}
  BY <1>1
<1> QED
  BY <1>2, <1>3 DEF Exempt

\* The clients of a process that acquires a data ability repeatedly.
LEMMA RepeatedExempt ==
    ASSUME NEW k \in Repeated, NEW d \in Datas
    PROVE  Exempt(PidOf[k], d)
  BY DEF Exempt
-------------------------------------------------------------------------------
(* What is so between a process and a target.                              *)

\* State, of given connections and holders.
StateOf(l, h, p, s) ==
    LET on == {c \in Of(p, s) : l[c] \in {"connected", "suspended"}}
    IN  CASE \/ \E c \in on : l[c] = "connected"
             \/ \E k \in Callers : PidOf[k] = p /\ s \in Datas /\ h[k][s] > 0 -> "connected"
          [] on # {} /\ \A c \in on : l[c] = "suspended"                     -> "suspended"
          [] OTHER                                                           -> "absent"

\* State looks at the connections and the holders only.
LEMMA StateIs ==
    ASSUME NEW p, NEW s
    PROVE  /\ State(p, s) = StateOf(live, held, p, s)
           /\ State(p, s)' = StateOf(live', held', p, s)
  BY DEF State, StateOf

\* Of an extension only the connections matter.
LEMMA OfService ==
    ASSUME NEW l, NEW h, NEW p, NEW s \in Services
    PROVE  /\ (\E c \in Of(p, s) : l[c] = "connected") => StateOf(l, h, p, s) = "connected"
           /\ (\E c \in Of(p, s) : l[c] = "suspended") /\ ~(\E c \in Of(p, s) : l[c] = "connected")
              => StateOf(l, h, p, s) = "suspended"
           /\ (\A c \in Of(p, s) : l[c] \notin {"connected", "suspended"})
              => StateOf(l, h, p, s) = "absent"
<1> DEFINE on == {c \in Of(p, s) : l[c] \in {"connected", "suspended"}}
<1>1. s \notin Datas
  BY StateAssumption
<1>2. StateOf(l, h, p, s) =
         CASE \E c \in on : l[c] = "connected"               -> "connected"
           [] on # {} /\ \A c \in on : l[c] = "suspended" -> "suspended"
           [] OTHER                                          -> "absent"
  BY <1>1, Zenon DEF StateOf
<1>3. (\E c \in on : l[c] = "connected") <=> \E c \in Of(p, s) : l[c] = "connected"
  OBVIOUS
<1>4. (on # {}) <=> \E c \in Of(p, s) : l[c] \in {"connected", "suspended"}
  OBVIOUS
<1>5. (\A c \in on : l[c] = "suspended") <=> ~ \E c \in Of(p, s) : l[c] = "connected"
  OBVIOUS
<1> QED
  BY <1>2, <1>3, <1>4, <1>5

\* Of a data ability only the holders matter.
LEMMA OfData ==
    ASSUME NEW l, NEW h, NEW p, NEW d \in Datas
    PROVE  /\ (\E k \in Callers : PidOf[k] = p /\ h[k][d] > 0) => StateOf(l, h, p, d) = "connected"
           /\ ~(\E k \in Callers : PidOf[k] = p /\ h[k][d] > 0) => StateOf(l, h, p, d) = "absent"
<1>1. Of(p, d) = {}
  BY StateAssumption DEF Of
<1> QED
  BY <1>1 DEF StateOf

\* What is so does not change with the connections and clients of others.
LEMMA StateSame ==
    ASSUME NEW l, NEW h, NEW m, NEW g, NEW p, NEW s \in Targets,
           \A c \in Of(p, s) : l[c] = m[c],
           s \in Datas => \A k \in Callers : PidOf[k] = p => h[k][s] = g[k][s]
    PROVE  StateOf(l, h, p, s) = StateOf(m, g, p, s)
<1> DEFINE on(n) == {c \in Of(p, s) : n[c] \in {"connected", "suspended"}}
<1>1. on(l) = on(m)
  OBVIOUS
<1>2. (\E c \in on(l) : l[c] = "connected") <=> (\E c \in on(m) : m[c] = "connected")
  OBVIOUS
<1>3. (\A c \in on(l) : l[c] = "suspended") <=> (\A c \in on(m) : m[c] = "suspended")
  OBVIOUS
<1>4. (\E k \in Callers : PidOf[k] = p /\ s \in Datas /\ h[k][s] > 0)
      <=> (\E k \in Callers : PidOf[k] = p /\ s \in Datas /\ g[k][s] > 0)
  OBVIOUS
<1> HIDE DEF on
<1>5. \A n, w : StateOf(n, w, p, s) =
         CASE \/ \E c \in on(n) : n[c] = "connected"
              \/ \E k \in Callers : PidOf[k] = p /\ s \in Datas /\ w[k][s] > 0 -> "connected"
           [] on(n) # {} /\ \A c \in on(n) : n[c] = "suspended"               -> "suspended"
           [] OTHER                                                           -> "absent"
  BY Zenon DEF StateOf, on
<1> QED
  BY <1>1, <1>2, <1>3, <1>4, <1>5
-------------------------------------------------------------------------------
(* The calls to the observers.                                             *)

\* A call tells of one event.
LEMMA OneEvent ==
    ASSUME NEW p, NEW s
    PROVE  /\ \A a, b : <<Call(a, p, s)>> = <<Call(b, p, s)>> => a = b
           /\ \A a : <<Call(a, p, s)>> # <<>>
  BY DEF Call

\* A thread that has nothing to tell, and changes one pair nobody else is telling of,
\* leaves the observers informed if it tells of the change.
LEMMA Told ==
    ASSUME OInv, NEW t \in Threads, Free(t),
           NEW p0 \in Pids, NEW s0 \in Targets, s0 \in Services => t = "serial",
           NEW q, q = <<>> \/ \E e \in Events : q = <<Call(e, p0, s0)>>,
           pending' = [pending EXCEPT ![t] = q], view' = view, dead' = dead,
           adrift \subseteq adrift',
           \A p \in Pids, s \in Targets : p # p0 \/ s # s0 => State(p, s)' = State(p, s),
           p0 \notin dead /\ ~Exempt(p0, s0) /\ <<p0, s0>> \notin adrift' =>
               /\ q = <<>> => State(p0, s0)' = State(p0, s0)
               /\ \A e \in Events : q = <<Call(e, p0, s0)>> =>
                     State(p0, s0)' = Means(e) /\ ~OthersTell(t, p0, s0)
    PROVE  OInv'
<1>1. q \in Seq(Calls) /\ \A i \in 1 .. Len(q) : i = 1 /\ IsAbout(q[i], p0, s0) /\ q # <<>>
  <2>1. CASE q = <<>>
    BY <2>1
  <2>2. ASSUME NEW e \in Events, q = <<Call(e, p0, s0)>>
        PROVE  q \in Seq(Calls) /\ \A i \in 1 .. Len(q) : i = 1 /\ IsAbout(q[i], p0, s0) /\ q # <<>>
    <3>1. Call(e, p0, s0) \in Calls
      BY DEF Call, Calls
    <3>2. q \in Seq(Calls) /\ Len(q) = 1 /\ q[1] = Call(e, p0, s0)
      BY <2>2, <3>1
    <3>3. IsAbout(Call(e, p0, s0), p0, s0)
      BY DEF IsAbout, Call
    <3>4. \A i \in 1 .. Len(q) : i = 1
      BY <3>2
    <3>5. q # <<>>
      BY <2>2, OneEvent
    <3> QED
      BY <3>2, <3>3, <3>4, <3>5
  <2> QED
    BY <2>1, <2>2
<1>2. CallsTyped'
  BY <1>1 DEF OInv, CallsTyped
<1>3. pending'[t] = q /\ \A u \in Threads \ {t} : pending'[u] = pending[u]
  BY DEF OInv, CallsTyped
<1>4. RightThread'
  <2> SUFFICES ASSUME NEW u \in Threads, NEW i \in 1 .. Len(pending'[u])
               PROVE  pending'[u][i].pid \notin dead /\ pending'[u][i].target \in Services
                        => u = "serial"
    BY DEF RightThread
  <2>1. CASE u = t
    BY <2>1, <1>1, <1>3 DEF IsAbout
  <2>2. CASE u # t
    BY <2>2, <1>3 DEF OInv, RightThread
  <2> QED
    BY <2>1, <2>2
<1>5. Informed'
  <2> SUFFICES ASSUME NEW p \in Pids \ dead, NEW s \in Targets, ~Exempt(p, s), <<p, s>> \notin adrift'
               PROVE  /\ \A u \in Threads : TellsRight(u, p, s)'
                      /\ (\E u \in Threads : Telling(u, p, s)') \/ view[p][s] = State(p, s)'
    BY DEF Informed
  <2>1. /\ \A u \in Threads : TellsRight(u, p, s)
        /\ (\E u \in Threads : Telling(u, p, s)) \/ view[p][s] = State(p, s)
    BY DEF OInv, Informed
  <2>2. /\ \A u \in Threads \ {t} : Telling(u, p, s)' <=> Telling(u, p, s)
        /\ ~Telling(t, p, s)
    BY <1>3 DEF Telling, Free
  <2>3. CASE p # p0 \/ s # s0
    <3>1. State(p, s)' = State(p, s)
      BY <2>3
    <3>2. ~Telling(t, p, s)' /\ TellsRight(t, p, s)'
      BY <1>1, <1>3, <2>3 DEF Telling, TellsRight, IsAbout
    <3>3. \A u \in Threads \ {t} : TellsRight(u, p, s)'
      BY <1>3, <2>1, <3>1 DEF TellsRight
    <3> QED
      BY <2>1, <2>2, <3>1, <3>2, <3>3
  <2>4. CASE p = p0 /\ s = s0 /\ q = <<>>
    <3>1. State(p, s)' = State(p, s)
      BY <2>4
    <3>2. TellsRight(t, p, s)'
      BY <1>3, <2>4 DEF TellsRight
    <3>3. \A u \in Threads \ {t} : TellsRight(u, p, s)'
      BY <1>3, <2>1, <3>1 DEF TellsRight
    <3> QED
      BY <2>1, <2>2, <3>1, <3>2, <3>3
  <2>5. ASSUME p = p0, s = s0, NEW e \in Events, q = <<Call(e, p0, s0)>>
        PROVE  /\ \A u \in Threads : TellsRight(u, p, s)'
               /\ Telling(t, p, s)'
    <3>1. Len(q) = 1 /\ q[1] = Call(e, p0, s0)
      BY <2>5
    <3>2. q[1].event = e /\ IsAbout(q[1], p, s)
      BY <3>1, <2>5 DEF Call, IsAbout
    <3>3. State(p, s)' = Means(e) /\ ~OthersTell(t, p, s)
      BY <2>5
    <3>4. TellsRight(t, p, s)' /\ Telling(t, p, s)'
      <4>0. Len(pending'[t]) = 1
        BY <1>3, <3>1
      <4>1. IsAbout(pending'[t][1], p, s) /\ pending'[t][1].event = e
        BY <1>3, <3>1, <3>2
      <4>2. 1 \in 1 .. Len(pending'[t]) /\ \A i \in 1 .. Len(pending'[t]) : i = 1
        BY ONLY <4>0
      <4> QED
        BY <4>1, <4>2, <3>3 DEF TellsRight, Telling
    <3>5. \A u \in Threads \ {t} : TellsRight(u, p, s)'
      BY <1>3, <3>3 DEF TellsRight, OthersTell, IsAbout
    <3> QED
      BY <3>4, <3>5
  <2> QED
    BY <2>3, <2>4, <2>5
<1> QED
  BY <1>2, <1>4, <1>5 DEF OInv

\* Nobody but the connect manager tells of a living process and an extension.
LEMMA ToldService ==
    ASSUME OInv, Free("serial"), NEW p0 \in Pids, NEW s0 \in Services,
           NEW q, q = <<>> \/ \E e \in Events : q = <<Call(e, p0, s0)>>,
           pending' = [pending EXCEPT !["serial"] = q], view' = view, dead' = dead,
           adrift' = adrift,
           \A p \in Pids, s \in Targets : p # p0 \/ s # s0 => State(p, s)' = State(p, s),
           p0 \notin dead /\ ~Exempt(p0, s0) =>
               /\ q = <<>> => State(p0, s0)' = State(p0, s0)
               /\ \A e \in Events : q = <<Call(e, p0, s0)>> => State(p0, s0)' = Means(e)
    PROVE  OInv'
<1>1. p0 \notin dead => ~OthersTell("serial", p0, s0)
  BY DEF OInv, RightThread, OthersTell
<1>2. "serial" \in Threads /\ s0 \in Targets
  BY DEF Threads, Targets
<1> QED
  BY <1>1, <1>2, Told

\* What nobody hears of, and changes nothing, leaves the observers informed;
\* more processes may be dead.
LEMMA NothingTold ==
    ASSUME OInv, pending' = pending, view' = view, dead \subseteq dead', adrift' = adrift,
           \A p \in Pids, s \in Targets : State(p, s)' = State(p, s)
    PROVE  OInv'
<1>1. CallsTyped' /\ RightThread'
  BY DEF OInv, CallsTyped, RightThread
<1>2. \A p \in Pids, s \in Targets, t \in Threads :
         /\ TellsRight(t, p, s)' <=> TellsRight(t, p, s)
         /\ Telling(t, p, s)' <=> Telling(t, p, s)
  BY DEF TellsRight, Telling
<1>3. Informed'
  BY <1>2 DEF OInv, Informed
<1> QED
  BY <1>1, <1>3 DEF OInv

\* Whatever a thread tells of processes that are dead is no news of the living.
LEMMA ToldOfDead ==
    ASSUME OInv, NEW t \in Threads, Free(t), NEW q \in Seq(Calls),
           \A i \in 1 .. Len(q) : q[i].pid \in dead,
           pending' = [pending EXCEPT ![t] = q], view' = view, dead' = dead, adrift' = adrift,
           \A p \in Pids \ dead, s \in Targets : State(p, s)' = State(p, s)
    PROVE  OInv'
<1>1. pending'[t] = q /\ \A u \in Threads \ {t} : pending'[u] = pending[u]
  BY DEF OInv, CallsTyped
<1>2. CallsTyped'
  BY DEF OInv, CallsTyped
<1>3. RightThread'
  BY <1>1 DEF OInv, RightThread
<1>4. Informed'
  <2> SUFFICES ASSUME NEW p \in Pids \ dead, NEW s \in Targets, ~Exempt(p, s), <<p, s>> \notin adrift
               PROVE  /\ \A u \in Threads : TellsRight(u, p, s)'
                      /\ (\E u \in Threads : Telling(u, p, s)') \/ view[p][s] = State(p, s)'
    BY DEF Informed
  <2>1. /\ \A u \in Threads : TellsRight(u, p, s)
        /\ (\E u \in Threads : Telling(u, p, s)) \/ view[p][s] = State(p, s)
    BY DEF OInv, Informed
  <2>2. State(p, s)' = State(p, s)
    OBVIOUS
  <2>3. /\ \A u \in Threads \ {t} : Telling(u, p, s)' <=> Telling(u, p, s)
        /\ ~Telling(t, p, s)
    BY <1>1 DEF Telling, Free
  <2>4. TellsRight(t, p, s)'
    BY <1>1 DEF TellsRight, IsAbout
  <2>5. \A u \in Threads \ {t} : TellsRight(u, p, s)'
    BY <1>1, <2>1, <2>2 DEF TellsRight
  <2> QED
    BY <2>1, <2>2, <2>3, <2>4, <2>5
<1> QED
  BY <1>2, <1>3, <1>4 DEF OInv

\* What does not touch the threads inside the data ability manager, and lists no
\* client anew.
LEMMA LocksKept ==
    ASSUME LInv, UNCHANGED <<env, mutex, call, active, watched>>,
           obits' \subseteq obits \cup watched, adrift' = adrift,
           dead \subseteq dead', callers' \subseteq callers,
           \A k \in Callers, d \in Datas : held'[k][d] = held[k][d] \/ held'[k][d] = 0
    PROVE  LInv'
<1>1. \A k \in Callers : Most(k) > 0
  BY BoundAssumption DEF Most
<1>2. LocksTyped'
  BY DEF LInv, LocksTyped
<1>3. AcquireOK'
  <2> SUFFICES ASSUME NEW k \in Callers
               PROVE  /\ call[k].pc \in {"wait", "found", "granted"} =>
                            call[k].data \in Datas /\ held'[k][call[k].data] < Most(k)
                      /\ call[k].pc = "granted" /\ PidOf[k] \notin dead' =>
                            <<k, call[k].data>> \in watched
    BY DEF AcquireOK, Most
  <2> QED
    BY <1>1 DEF LInv, AcquireOK
<1>4. ListedWatched'
  BY DEF LInv, ListedWatched
<1> QED
  BY <1>2, <1>3, <1>4 DEF LInv

\* A change of one connection changes what is so of its pair only.
LEMMA ConnChanged ==
    ASSUME NEW c \in Conns, NEW v, live' = [live EXCEPT ![c] = v], TablesTyped, held' = held
    PROVE  \A p \in Pids, s \in Targets :
              p # PidOf[c] \/ s # TargetOf[c] => State(p, s)' = State(p, s)
<1> SUFFICES ASSUME NEW p \in Pids, NEW s \in Targets, p # PidOf[c] \/ s # TargetOf[c]
             PROVE  State(p, s)' = State(p, s)
  OBVIOUS
<1>1. \A e \in Of(p, s) : live'[e] = live[e]
  BY DEF Of, TablesTyped
<1>2. s \in Datas => \A k \in Callers : PidOf[k] = p => held'[k][s] = held[k][s]
  OBVIOUS
<1>3. StateOf(live', held', p, s) = StateOf(live, held, p, s)
  BY ONLY s \in Targets, <1>1, <1>2, StateSame
<1> QED
  BY <1>3, StateIs
-------------------------------------------------------------------------------
(* The connections of living callers.                                      *)

\* A requested connection is not in the tables yet.
LEMMA RequestConnectStep ==
    ASSUME IInv, NEW c \in Conns, RequestConnect(c)
    PROVE  IInv'
<1> DEFINE p == PidOf[c]
           s == TargetOf[c]
<1>1. /\ live[c] = "none" /\ live' = [live EXCEPT ![c] = "requested"]
      /\ UNCHANGED <<items, conns, callers, pending, view, held, dead, reports, adrift>>
      /\ UNCHANGED <<env, mutex, call, active, watched, obits>>
  BY DEF RequestConnect, tables, locks
<1>2. live'[c] = "requested" /\ \A e \in Conns \ {c} : live'[e] = live[e]
  BY <1>1 DEF IInv, TInv, TablesTyped
<1>3. TInv'
  <2>1. TablesTyped'
    BY <1>1 DEF IInv, TInv, TablesTyped
  <2>2. NoIdleItem'
    BY <1>1 DEF IInv, TInv, NoIdleItem, Busy
  <2>3. NothingStale' /\ Limits' /\ NothingMissing'
    BY <1>1, <1>2 DEF IInv, TInv, NothingStale, Limits, NothingMissing
  <2> QED
    BY <2>1, <2>2, <2>3 DEF TInv
<1>4. State(p, s)' = State(p, s)
  <2>1. p \in Pids /\ s \in Services
    BY StateAssumption
  <2>2. \A e \in Of(p, s) : /\ live'[e] = "connected" <=> live[e] = "connected"
                            /\ live'[e] = "suspended" <=> live[e] = "suspended"
    BY <1>1, <1>2 DEF Of
  <2> HIDE DEF p, s
  <2> QED
    BY <2>1, <2>2, OfService, StateIs
<1>5. \A q \in Pids, u \in Targets : State(q, u)' = State(q, u)
  BY <1>1, <1>4, ConnChanged DEF IInv, TInv
<1> QED
  BY <1>1, <1>3, <1>5, NothingTold, LocksKept DEF IInv

\* A connection that is added is told of as the first, or as the one that
\* resumes, or some other is connected already.
LEMMA AddConnectionStep ==
    ASSUME IInv, NEW c \in Conns, AddConnection(c)
    PROVE  IInv'
<1> DEFINE p == PidOf[c]
           s == TargetOf[c]
           q == CASE Known(conns, p, s) = {}  -> <<Call("Connected", p, s)>>
                  [] Active(conns, p, s) = {} /\ Known(conns, p, s) # {}
                                              -> <<Call("Resumed", p, s)>>
                  [] OTHER                    -> <<>>
<1>0. p \in Pids /\ s \in Services /\ s \in Targets /\ c \in Of(p, s)
  BY StateAssumption DEF Of, Targets
<1>1. /\ Free("serial") /\ live[c] = "requested" /\ live' = [live EXCEPT ![c] = "connected"]
      /\ items' = items \cup {p} /\ conns' = [conns EXCEPT ![c] = "in"]
      /\ pending' = [pending EXCEPT !["serial"] = q]
      /\ UNCHANGED <<callers, view, held, dead, reports, adrift>>
      /\ UNCHANGED <<env, mutex, call, active, watched, obits>>
  BY DEF AddConnection, Tell, locks
<1>2. /\ live'[c] = "connected" /\ conns'[c] = "in"
      /\ \A e \in Conns \ {c} : live'[e] = live[e] /\ conns'[e] = conns[e]
  BY <1>1 DEF IInv, TInv, TablesTyped
<1>3. TInv'
  <2>1. TablesTyped'
    BY <1>0, <1>1 DEF IInv, TInv, TablesTyped
  <2>2. NoIdleItem'
    BY <1>1, <1>2 DEF IInv, TInv, NoIdleItem, Busy
  <2>3. NothingStale' /\ Limits' /\ NothingMissing'
    BY <1>1, <1>2 DEF IInv, TInv, NothingStale, Limits, NothingMissing
  <2> QED
    BY <2>1, <2>2, <2>3 DEF TInv
<1>4. \/ q = <<Call("Connected", p, s)>>
      \/ q = <<Call("Resumed", p, s)>>
      \/ q = <<>> /\ \E e \in Of(p, s) : conns[e] = "in"
  BY DEF Active
<1>5. State(p, s)' = "connected"
  BY <1>0, <1>2, OfService, StateIs
<1>6. q = <<>> => State(p, s)' = State(p, s)
  <2>1. ASSUME NEW e \in Of(p, s), conns[e] = "in"
        PROVE  State(p, s) = "connected"
    <3>1. live[e] = "connected"
      BY <2>1 DEF IInv, TInv, NothingStale, Of
    <3> QED
      BY <3>1, <1>0, OfService, StateIs
  <2>2. <<Call("Connected", p, s)>> # <<>> /\ <<Call("Resumed", p, s)>> # <<>>
    OBVIOUS
  <2> QED
    BY <1>4, <1>5, <2>1, <2>2
<1>7. \A e \in Events : q = <<Call(e, p, s)>> => State(p, s)' = Means(e)
  <2>1. ASSUME NEW e \in Events, q = <<Call(e, p, s)>>
        PROVE  e \in {"Connected", "Resumed"}
    <3>1. \A a, b : <<Call(a, p, s)>> = <<Call(b, p, s)>> => a = b
      BY DEF Call
    <3>2. <<Call(e, p, s)>> # <<>>
      OBVIOUS
    <3> QED
      BY <2>1, <3>1, <3>2, <1>4
  <2> QED
    BY <2>1, <1>5 DEF Means
<1>8. \A r \in Pids, u \in Targets : r # p \/ u # s => State(r, u)' = State(r, u)
  BY <1>1, ConnChanged DEF IInv, TInv
<1>9. q = <<>> \/ \E e \in Events : q = <<Call(e, p, s)>>
  BY <1>4 DEF Events
<1> HIDE DEF p, s, q
<1> QED
  BY <1>0, <1>1, <1>3, <1>6, <1>7, <1>8, <1>9, ToldService, LocksKept DEF IInv

\* When what remains is suspended the whole ConnectedExtension leaves the map:
\* that happens to exempt pairs only.
LEMMA RemoveConnectionStep ==
    ASSUME IInv, NEW c \in Conns, RemoveConnection(c)
    PROVE  IInv'
<1> DEFINE p      == PidOf[c]
           s      == TargetOf[c]
           rest   == Known(conns, p, s) \ {c}
           paused == rest # {} /\ conns[c] = "in" /\ Active(conns, p, s) = {c}
           q      == IF conns[c] = "out" THEN <<>>
                     ELSE CASE rest = {} -> <<Call("Disconnected", p, s)>>
                            [] paused    -> <<Call("Suspended", p, s)>>
                            [] OTHER     -> <<>>
<1>0. p \in Pids /\ s \in Services /\ s \in Targets /\ c \in Of(p, s)
  BY StateAssumption DEF Of, Targets
<1>1. /\ Free("serial") /\ live[c] # "none" /\ p \notin dead /\ live' = [live EXCEPT ![c] = "none"]
      /\ UNCHANGED <<callers, view, held, dead, reports, adrift>>
      /\ UNCHANGED <<env, mutex, call, active, watched, obits>>
  BY DEF RemoveConnection, tables, locks
<1>2. conns[c] = "out" => UNCHANGED <<items, conns, pending>>
  BY DEF RemoveConnection, tables
<1>3. conns[c] # "out" =>
         /\ conns' = [e \in Conns |-> IF e = c \/ (paused /\ e \in rest) THEN "out" ELSE conns[e]]
         /\ items' = IF (rest = {} \/ paused) /\ IsEmpty(conns', callers, p)
                        THEN items \ {p} ELSE items
         /\ pending' = [pending EXCEPT !["serial"] = q]
  BY Zenon DEF RemoveConnection, Tell
<1>4. pending' = [pending EXCEPT !["serial"] = q]
  <2>1. pending["serial"] = <<>> /\ pending \in [Threads -> Seq(Calls)]
    BY <1>1 DEF Free, IInv, OInv, CallsTyped
  <2> QED
    BY <1>2, <1>3, <2>1
<1>5. \A e \in Conns : e \in rest <=> e # c /\ PidOf[e] = p /\ TargetOf[e] = s /\ conns[e] # "out"
  BY DEF Known, Of
<1>6. paused => Exempt(p, s)
  <2>1. ASSUME paused
        PROVE  \E e \in rest : conns[e] = "suspended"
    <3>1. PICK e \in rest : e \notin Active(conns, p, s)
      BY <2>1
    <3>2. e \in Conns /\ conns[e] = "suspended"
      BY <3>1 DEF Known, Active, Of, IInv, TInv, TablesTyped
    <3> QED
      BY <3>1, <3>2
  <2>2. ASSUME NEW e \in rest, conns[e] = "suspended"
        PROVE  Exempt(p, s)
    <3>1. e \in Conns /\ e # c /\ PidOf[e] = p /\ TargetOf[e] = s
      BY DEF Known, Of
    <3>2. e \in Suspendable
      BY <2>2, <3>1 DEF IInv, TInv, NothingStale, Limits
    <3> QED
      BY <3>1, <3>2, TwoExempt
  <2> QED
    BY <2>1, <2>2
<1>7. /\ live'[c] = "none" /\ conns'[c] = "out"
      /\ \A e \in Conns \ {c} : live'[e] = live[e]
      /\ \A e \in Conns \ {c} : conns'[e] = "out" \/ conns'[e] = conns[e]
      /\ \A e \in Conns \ {c} : PidOf[e] # p \/ TargetOf[e] # s \/ ~paused => conns'[e] = conns[e]
  BY <1>1, <1>2, <1>3, <1>5 DEF IInv, TInv, TablesTyped
<1> HIDE DEF paused
<1>8. TInv'
  <2>1. TablesTyped'
    <3>1. conns' \in [Conns -> {"out", "in", "suspended"}] /\ items' \subseteq Pids
      BY <1>2, <1>3 DEF IInv, TInv, TablesTyped
    <3> QED
      BY <3>1, <1>1 DEF IInv, TInv, TablesTyped
  <2>2. NoIdleItem'
    <3>1. \A r \in Pids \ {p} : Busy(conns', callers', r) <=> Busy(conns, callers, r)
      BY <1>1, <1>7 DEF Busy
    <3>2. CASE conns[c] = "out"
      BY <3>2, <1>1, <1>2 DEF IInv, TInv, NoIdleItem
    <3>3. CASE conns[c] # "out" /\ (rest = {} \/ paused)
      <4>1. p \in items
        BY <3>3, <1>0 DEF IInv, TInv, NoIdleItem, Busy
      <4>2. p \in items' <=> Busy(conns', callers', p)
        BY <1>1, <1>3, <3>3, <4>1, EmptyIsIdle
      <4>3. \A r \in Pids \ {p} : r \in items' <=> r \in items
        BY <1>3, <3>3
      <4> QED
        BY <3>1, <4>2, <4>3 DEF IInv, TInv, NoIdleItem
    <3>4. CASE conns[c] # "out" /\ ~(rest = {} \/ paused)
      <4>1. p \in items /\ items' = items
        BY <3>4, <1>0, <1>3 DEF IInv, TInv, NoIdleItem, Busy
      <4>2. PICK e \in Conns : e # c /\ PidOf[e] = p /\ conns[e] # "out"
        BY <3>4, <1>5 DEF Known, Of
      <4>3. Busy(conns', callers', p)
        BY <4>2, <3>4, <1>7 DEF Busy
      <4> QED
        BY <3>1, <4>1, <4>3 DEF IInv, TInv, NoIdleItem
    <3> QED
      BY <3>2, <3>3, <3>4
  <2>3. NothingStale' /\ Limits'
    BY <1>1, <1>7 DEF IInv, TInv, NothingStale, Limits
  <2>4. NothingMissing'
    BY <1>1, <1>6, <1>7 DEF IInv, TInv, NothingMissing
  <2> QED
    BY <2>1, <2>2, <2>3, <2>4 DEF TInv
<1>9. \A r \in Pids, u \in Targets : r # p \/ u # s => State(r, u)' = State(r, u)
  BY <1>1, ConnChanged DEF IInv, TInv
<1>10. \/ q = <<Call("Disconnected", p, s)>> /\ rest = {} /\ conns[c] # "out"
       \/ q = <<Call("Suspended", p, s)>> /\ paused
       \/ q = <<>> /\ (conns[c] = "out" \/ (rest # {} /\ ~paused))
  OBVIOUS
<1>11. ASSUME ~Exempt(p, s)
       PROVE  /\ q = <<>> => State(p, s)' = State(p, s)
              /\ \A e \in Events : q = <<Call(e, p, s)>> => State(p, s)' = Means(e)
  <2>0. \A e \in Of(p, s) : e \in Conns /\ PidOf[e] = p /\ TargetOf[e] = s
    BY DEF Of
  <2>1. CASE q = <<Call("Disconnected", p, s)>> /\ rest = {}
    <3>1. \A e \in Of(p, s) : live'[e] \notin {"connected", "suspended"}
      BY <2>0, <2>1, <1>1, <1>5, <1>7, <1>11 DEF IInv, TInv, NothingMissing
    <3>2. State(p, s)' = "absent"
      BY <3>1, <1>0, OfService, StateIs
    <3> QED
      BY <2>1, <3>2, OneEvent DEF Means
  <2>2. CASE q = <<>> /\ conns[c] = "out"
    <3>1. \A e \in Of(p, s) : /\ live'[e] = "connected" <=> live[e] = "connected"
                              /\ live'[e] = "suspended" <=> live[e] = "suspended"
      BY <2>0, <2>2, <1>1, <1>7, <1>11 DEF IInv, TInv, NothingMissing
    <3>2. State(p, s)' = State(p, s)
      BY <3>1, <1>0, OfService, StateIs
    <3> QED
      BY <2>2, <3>2, OneEvent
  <2>3. CASE q = <<>> /\ rest # {} /\ ~paused
    <3>1. PICK e \in rest : e \in Conns
      BY <2>3, <1>5 DEF Known, Of
    <3>2. e # c /\ e \in Of(p, s) /\ PidOf[e] = p /\ TargetOf[e] = s /\ conns[e] # "out"
      BY <3>1 DEF Known, Of
    <3>3. e \notin Suspendable
      BY <3>1, <3>2, <1>11, TwoExempt
    <3>4. conns[e] = "in"
      BY <3>1, <3>2, <3>3 DEF IInv, TInv, TablesTyped, NothingStale, Limits
    <3>5. live[e] = "connected" /\ live'[e] = "connected"
      BY <3>1, <3>2, <3>4, <1>7 DEF IInv, TInv, NothingStale
    <3>6. State(p, s) = "connected" /\ State(p, s)' = "connected"
      BY <3>2, <3>5, <1>0, OfService, StateIs
    <3> QED
      BY <2>3, <3>6, OneEvent
  <2> QED
    BY <1>6, <1>10, <1>11, <2>1, <2>2, <2>3
<1>12. q = <<>> \/ \E e \in Events : q = <<Call(e, p, s)>>
  BY <1>10 DEF Events
<1> HIDE DEF p, s, q
<1> QED
  BY <1>0, <1>1, <1>4, <1>8, <1>9, <1>11, <1>12, ToldService, LocksKept DEF IInv

\* A connection that may be suspended is the only one of a pair that is not
\* exempt, so SUSPENDED is told.
LEMMA SuspendConnectionStep ==
    ASSUME IInv, NEW c \in Conns, SuspendConnection(c)
    PROVE  IInv'
<1> DEFINE p == PidOf[c]
           s == TargetOf[c]
           q == IF conns[c] = "in" /\ Active(conns', p, s) = {}
                   THEN <<Call("Suspended", p, s)>> ELSE <<>>
<1>0. p \in Pids /\ s \in Services /\ s \in Targets /\ c \in Of(p, s)
  BY StateAssumption DEF Of, Targets
<1>1. /\ Free("serial") /\ c \in Suspendable /\ live[c] = "connected" /\ p \notin dead
      /\ live' = [live EXCEPT ![c] = "suspended"]
      /\ UNCHANGED <<items, callers, view, held, dead, reports, adrift>>
      /\ UNCHANGED <<env, mutex, call, active, watched, obits>>
  BY DEF SuspendConnection, locks
<1>2. /\ conns[c] = "in" => conns' = [conns EXCEPT ![c] = "suspended"]
      /\ conns[c] # "in" => conns' = conns
  BY DEF SuspendConnection
<1>3. pending' = [pending EXCEPT !["serial"] = q]
  <2>1. pending["serial"] = <<>> /\ pending \in [Threads -> Seq(Calls)]
    BY <1>1 DEF Free, IInv, OInv, CallsTyped
  <2> QED
    BY <2>1 DEF SuspendConnection, Tell
<1>4. /\ live'[c] = "suspended" /\ conns'[c] # "in"
      /\ conns[c] = "in" => conns'[c] = "suspended"
      /\ conns'[c] = "suspended" => conns[c] \in {"in", "suspended"}
      /\ conns'[c] = "out" <=> conns[c] = "out"
      /\ \A e \in Conns \ {c} : live'[e] = live[e] /\ conns'[e] = conns[e]
  BY <1>1, <1>2 DEF IInv, TInv, TablesTyped
<1>5. ASSUME ~Exempt(p, s)
      PROVE  Of(p, s) = {c}
  BY <1>0, <1>1, <1>5, TwoExempt DEF Of
<1>6. TInv'
  <2>1. TablesTyped'
    BY <1>1, <1>2 DEF IInv, TInv, TablesTyped
  <2>2. NoIdleItem'
    BY <1>1, <1>4 DEF IInv, TInv, NoIdleItem, Busy
  <2>3. NothingStale' /\ Limits'
    BY <1>1, <1>4 DEF IInv, TInv, NothingStale, Limits
  <2>4. NothingMissing'
    BY <1>1, <1>4 DEF IInv, TInv, NothingMissing
  <2> QED
    BY <2>1, <2>2, <2>3, <2>4 DEF TInv
<1>7. \A r \in Pids, u \in Targets : r # p \/ u # s => State(r, u)' = State(r, u)
  BY <1>1, ConnChanged DEF IInv, TInv
<1>8. ASSUME ~Exempt(p, s)
      PROVE  q = <<Call("Suspended", p, s)>> /\ State(p, s)' = "suspended"
  <2>1. conns[c] = "in" /\ Active(conns', p, s) = {}
    BY <1>1, <1>4, <1>5, <1>8 DEF IInv, TInv, NothingMissing, Active
  <2>2. State(p, s)' = "suspended"
    BY <1>0, <1>4, <1>5, <1>8, OfService, StateIs
  <2> QED
    BY <2>1, <2>2
<1>9. ASSUME ~Exempt(p, s)
      PROVE  /\ q = <<>> => State(p, s)' = State(p, s)
             /\ \A e \in Events : q = <<Call(e, p, s)>> => State(p, s)' = Means(e)
  <2> HIDE DEF p, s, q
  <2> QED
    BY <1>8, <1>9, OneEvent DEF Means
<1>10. q = <<>> \/ \E e \in Events : q = <<Call(e, p, s)>>
  BY DEF Events
<1> HIDE DEF p, s, q
<1> QED
  BY <1>0, <1>1, <1>3, <1>6, <1>7, <1>9, <1>10, ToldService, LocksKept DEF IInv

\* Likewise RESUMED is told of every pair that is not exempt.
LEMMA ResumeConnectionStep ==
    ASSUME IInv, NEW c \in Conns, ResumeConnection(c)
    PROVE  IInv'
<1> DEFINE p == PidOf[c]
           s == TargetOf[c]
           q == IF conns[c] # "out" /\ Active(conns, p, s) = {}
                   THEN <<Call("Resumed", p, s)>> ELSE <<>>
<1>0. p \in Pids /\ s \in Services /\ s \in Targets /\ c \in Of(p, s)
  BY StateAssumption DEF Of, Targets
<1>1. /\ Free("serial") /\ live[c] = "suspended" /\ p \notin dead
      /\ live' = [live EXCEPT ![c] = "connected"]
      /\ UNCHANGED <<items, callers, view, held, dead, reports, adrift>>
      /\ UNCHANGED <<env, mutex, call, active, watched, obits>>
  BY DEF ResumeConnection, locks
<1>2. /\ conns[c] # "out" => conns' = [conns EXCEPT ![c] = "in"]
      /\ conns[c] = "out" => conns' = conns
  BY DEF ResumeConnection
<1>3. pending' = [pending EXCEPT !["serial"] = q]
  <2>1. pending["serial"] = <<>> /\ pending \in [Threads -> Seq(Calls)]
    BY <1>1 DEF Free, IInv, OInv, CallsTyped
  <2> QED
    BY <2>1 DEF ResumeConnection, Tell
<1>4. /\ live'[c] = "connected" /\ conns'[c] \in {"in", "out"}
      /\ conns'[c] = "out" <=> conns[c] = "out"
      /\ \A e \in Conns \ {c} : live'[e] = live[e] /\ conns'[e] = conns[e]
  BY <1>1, <1>2 DEF IInv, TInv, TablesTyped
<1>5. c \in Suspendable
  BY <1>1 DEF IInv, TInv, Limits
<1>6. TInv'
  <2>1. TablesTyped'
    BY <1>1, <1>2 DEF IInv, TInv, TablesTyped
  <2>2. NoIdleItem'
    BY <1>1, <1>4 DEF IInv, TInv, NoIdleItem, Busy
  <2>3. NothingStale' /\ Limits'
    BY <1>1, <1>4 DEF IInv, TInv, NothingStale, Limits
  <2>4. NothingMissing'
    BY <1>1, <1>4 DEF IInv, TInv, NothingMissing
  <2> QED
    BY <2>1, <2>2, <2>3, <2>4 DEF TInv
<1>7. \A r \in Pids, u \in Targets : r # p \/ u # s => State(r, u)' = State(r, u)
  BY <1>1, ConnChanged DEF IInv, TInv
<1>8. ASSUME ~Exempt(p, s)
      PROVE  q = <<Call("Resumed", p, s)>>
  <2>1. Of(p, s) = {c}
    BY <1>0, <1>5, <1>8, TwoExempt DEF Of
  <2>2. conns[c] = "suspended"
    BY <1>1, <1>8 DEF IInv, TInv, NothingMissing
  <2>3. Active(conns, p, s) = {}
    BY <2>1, <2>2 DEF Active
  <2> QED
    BY <2>2, <2>3
<1>9. State(p, s)' = "connected"
  BY <1>0, <1>4, OfService, StateIs
<1>10. ASSUME ~Exempt(p, s)
       PROVE  /\ q = <<>> => State(p, s)' = State(p, s)
              /\ \A e \in Events : q = <<Call(e, p, s)>> => State(p, s)' = Means(e)
  <2> HIDE DEF p, s, q
  <2> QED
    BY <1>8, <1>9, <1>10, OneEvent DEF Means
<1>11. q = <<>> \/ \E e \in Events : q = <<Call(e, p, s)>>
  BY DEF Events
<1> HIDE DEF p, s, q
<1> QED
  BY <1>0, <1>1, <1>3, <1>6, <1>7, <1>10, <1>11, ToldService, LocksKept DEF IInv
-------------------------------------------------------------------------------
(* The clients of data abilities.                                          *)

\* A change of what one client holds of one data ability changes what is so of
\* their pair only.
LEMMA HolderChanged ==
    ASSUME NEW k \in Callers, NEW d \in Datas, NEW v, TablesTyped,
           held' = [held EXCEPT ![k][d] = v], live' = live
    PROVE  /\ held'[k][d] = v
           /\ \A j \in Callers, e \in Datas : j # k \/ e # d => held'[j][e] = held[j][e]
           /\ \A p \in Pids, s \in Targets : p # PidOf[k] \/ s # d => State(p, s)' = State(p, s)
<1>1. held \in [Callers -> [Datas -> 0 .. MaxAcquire]]
  BY DEF TablesTyped
<1>2. held'[k] = [held[k] EXCEPT ![d] = v] /\ \A j \in Callers \ {k} : held'[j] = held[j]
  BY <1>1
<1>3. held'[k][d] = v /\ \A j \in Callers, e \in Datas : j # k \/ e # d => held'[j][e] = held[j][e]
  BY <1>1, <1>2
<1>4. ASSUME NEW p \in Pids, NEW s \in Targets, p # PidOf[k] \/ s # d
      PROVE  State(p, s)' = State(p, s)
  <2>1. \A c \in Of(p, s) : live'[c] = live[c]
    OBVIOUS
  <2>2. s \in Datas => \A j \in Callers : PidOf[j] = p => held'[j][s] = held[j][s]
    BY <1>3, <1>4
  <2>3. StateOf(live', held', p, s) = StateOf(live, held, p, s)
    BY ONLY s \in Targets, <2>1, <2>2, StateSame
  <2> QED
    BY <2>3, StateIs
<1> QED
  BY <1>3, <1>4

\* The threads inside the data ability manager and what they rely on.
LEMMA CallStep ==
    ASSUME IInv, NEW t \in Inside, NEW c, call' = [call EXCEPT ![t] = c],
           c \in [pc : {"idle", "wait", "found", "granted", "return"}, data : Datas \cup {"none"}],
           t \in Callers /\ c.pc \in {"wait", "found", "granted"} =>
               c.data \in Datas /\ held[t][c.data] < Most(t),
           t \in Callers /\ c.pc = "granted" /\ PidOf[t] \notin dead => <<t, c.data>> \in watched',
           mutex' \in Inside \cup {"free"}, active' \subseteq Datas,
           watched \subseteq watched', watched' \subseteq Callers \X Datas,
           UNCHANGED <<items, conns, callers, env, obits, pending, view, live, held, dead,
                       reports, adrift>>
    PROVE  IInv'
<1>1. TInv'
  BY DEF IInv, TInv, TablesTyped, NoIdleItem, NothingStale, Limits, NothingMissing
<1>2. LInv'
  <2>1. call'[t] = c /\ \A k \in Callers : k # t => call'[k] = call[k]
    BY DEF IInv, LInv, LocksTyped, Inside
  <2>2. LocksTyped'
    BY DEF IInv, LInv, LocksTyped
  <2>3. AcquireOK'
    <3> SUFFICES ASSUME NEW k \in Callers
                 PROVE  /\ call'[k].pc \in {"wait", "found", "granted"} =>
                              call'[k].data \in Datas /\ held[k][call'[k].data] < Most(k)
                        /\ call'[k].pc = "granted" /\ PidOf[k] \notin dead =>
                              <<k, call'[k].data>> \in watched'
      BY DEF AcquireOK, Most
    <3> QED
      BY <2>1 DEF IInv, LInv, AcquireOK
  <2>4. ListedWatched'
    BY DEF IInv, LInv, ListedWatched
  <2> QED
    BY <2>2, <2>3, <2>4 DEF LInv
<1>3. \A p \in Pids, s \in Targets : State(p, s)' = State(p, s)
  BY StateIs
<1>4. OInv'
  BY <1>3, NothingTold DEF IInv
<1> QED
  BY <1>1, <1>2, <1>4 DEF IInv

\* The look-up of a data ability changes nothing an observer hears of.
LEMMA AcquireStep ==
    ASSUME IInv, NEW k \in Callers, NEW d \in Datas, Acquire(k, d)
    PROVE  IInv'
<1>1. PICK w \in {"found", "wait"} : call' = [call EXCEPT ![k] = [pc |-> w, data |-> d]]
  BY DEF Acquire
<1> DEFINE c == [pc |-> w, data |-> d]
<1>2. /\ c \in [pc : {"idle", "wait", "found", "granted", "return"}, data : Datas \cup {"none"}]
      /\ c.pc # "granted" /\ c.data = d
  OBVIOUS
<1>3. /\ k \in Inside /\ held[k][d] < Most(k) /\ mutex' \in Inside \cup {"free"}
      /\ UNCHANGED <<active, watched, items, conns, callers, env, obits, pending, view, live, held,
                     dead, reports, adrift>>
  BY DEF Acquire, Inside, tables, truth, IInv, LInv, LocksTyped
<1>4. active' \subseteq Datas /\ watched' \subseteq Callers \X Datas
  BY <1>3 DEF IInv, LInv, LocksTyped
<1>5. call' = [call EXCEPT ![k] = c]
  BY <1>1
<1> HIDE DEF c
<1> QED
  BY <1>2, <1>3, <1>4, <1>5, CallStep

\* So does the end of a wait.
LEMMA WaitForLoadedStep ==
    ASSUME IInv, NEW k \in Callers, WaitForLoaded(k)
    PROVE  IInv'
<1> DEFINE c == [call[k] EXCEPT !.pc = IF call[k].data \in active THEN "found" ELSE "return"]
<1>1. /\ k \in Inside /\ call[k].pc = "wait"
      /\ call[k] \in [pc : {"idle", "wait", "found", "granted", "return"}, data : Datas \cup {"none"}]
  BY DEF WaitForLoaded, Inside, IInv, LInv, LocksTyped
<1>2. call' = [call EXCEPT ![k] = c]
  BY DEF WaitForLoaded
<1>3. /\ c \in [pc : {"idle", "wait", "found", "granted", "return"}, data : Datas \cup {"none"}]
      /\ c.pc # "granted" /\ c.data = call[k].data
  BY <1>1
<1>4. call[k].data \in Datas /\ held[k][call[k].data] < Most(k)
  BY <1>1 DEF IInv, LInv, AcquireOK
<1>5. UNCHANGED <<mutex, active, watched, items, conns, callers, env, obits, pending, view, live,
                  held, dead, reports, adrift>>
  BY DEF WaitForLoaded, tables, truth
<1>6. /\ mutex' \in Inside \cup {"free"} /\ active' \subseteq Datas
      /\ watched' \subseteq Callers \X Datas
  BY <1>5 DEF IInv, LInv, LocksTyped
<1> HIDE DEF c
<1> QED
  BY <1>1, <1>2, <1>3, <1>4, <1>5, <1>6, CallStep

\* A client that lives gets a death recipient before it is reported.
LEMMA AddClientStep ==
    ASSUME IInv, NEW k \in Callers, AddClient(k)
    PROVE  IInv'
<1> DEFINE c == [call[k] EXCEPT !.pc = "granted"]
<1>1. /\ k \in Inside /\ call[k].pc = "found"
      /\ call[k] \in [pc : {"idle", "wait", "found", "granted", "return"}, data : Datas \cup {"none"}]
  BY DEF AddClient, Inside, IInv, LInv, LocksTyped
<1>2. call' = [call EXCEPT ![k] = c]
  BY DEF AddClient
<1>3. /\ c \in [pc : {"idle", "wait", "found", "granted", "return"}, data : Datas \cup {"none"}]
      /\ c.pc = "granted" /\ c.data = call[k].data
  BY <1>1
<1>4. call[k].data \in Datas /\ held[k][call[k].data] < Most(k)
  BY <1>1 DEF IInv, LInv, AcquireOK
<1>5. UNCHANGED <<mutex, active, items, conns, callers, env, obits, pending, view, live, held, dead,
                  reports, adrift>>
  BY DEF AddClient, tables, truth
<1>6. /\ watched \subseteq watched' /\ watched' \subseteq Callers \X Datas
      /\ PidOf[k] \notin dead => <<k, call[k].data>> \in watched'
  BY <1>4 DEF AddClient, IInv, LInv, LocksTyped
<1>7. mutex' \in Inside \cup {"free"} /\ active' \subseteq Datas
  BY <1>5 DEF IInv, LInv, LocksTyped
<1> HIDE DEF c
<1> QED
  BY <1>1, <1>2, <1>3, <1>4, <1>5, <1>6, <1>7, CallStep

\* A data ability that becomes active, and a thread that returns.
LEMMA TransitionDoneStep ==
    ASSUME IInv, NEW d \in Datas, TransitionDone(d)
    PROVE  IInv'
<1>1. /\ active' = active \cup {d}
      /\ UNCHANGED <<items, conns, callers, env, mutex, call, watched, obits, pending, view, live,
                     held, dead, reports, adrift>>
  BY DEF TransitionDone, tables, truth
<1>2. TInv'
  BY <1>1 DEF IInv, TInv, TablesTyped, NoIdleItem, NothingStale, Limits, NothingMissing
<1>3. LInv'
  BY <1>1 DEF IInv, LInv, LocksTyped, AcquireOK, Most, ListedWatched
<1>4. \A p \in Pids, s \in Targets : State(p, s)' = State(p, s)
  BY <1>1, StateIs
<1> QED
  BY <1>1, <1>2, <1>3, <1>4, NothingTold DEF IInv

LEMMA ReturnStep ==
    ASSUME IInv, NEW t \in Inside, Return(t)
    PROVE  IInv'
<1>1. /\ call' = [call EXCEPT ![t] = Idle] /\ mutex' = "free"
      /\ UNCHANGED <<items, conns, callers, env, active, watched, obits, pending, view, live, held,
                     dead, reports, adrift>>
  BY DEF Return, tables, truth
<1>2. /\ Idle \in [pc : {"idle", "wait", "found", "granted", "return"}, data : Datas \cup {"none"}]
      /\ Idle.pc = "idle"
  BY DEF Idle
<1>3. active' \subseteq Datas /\ watched' \subseteq Callers \X Datas
  BY <1>1 DEF IInv, LInv, LocksTyped
<1> QED
  BY <1>1, <1>2, <1>3, CallStep

\* The first client of a process is told of; the others change nothing.  A report
\* of what is over sets the pair adrift.
LEMMA AddDataStep ==
    ASSUME IInv, NEW k \in Callers, AddDataAbilityConnection(k)
    PROVE  IInv'
<1> PICK d : d = call[k].data
  OBVIOUS
<1> DEFINE p == PidOf[k]
           q == IF Clients(callers, p, d) = {} THEN <<Call("Connected", p, d)>> ELSE <<>>
<1>0. p \in Pids /\ d \in Datas /\ d \in Targets /\ d \notin Services /\ k \in Threads
      /\ held[k][d] < Most(k) /\ (p \notin dead => <<k, d>> \in watched)
  BY StateAssumption DEF Targets, Threads, AddDataAbilityConnection, IInv, LInv, AcquireOK
<1>1. /\ call[k].pc = "granted" /\ call' = [call EXCEPT ![k].pc = "return"]
      /\ held' = IF d \in dead THEN held ELSE [held EXCEPT ![k][d] = held[k][d] + 1]
      /\ items' = items \cup {p} /\ callers' = callers \cup {<<k, d>>}
      /\ pending' = [pending EXCEPT ![k] = q]
      /\ adrift' = IF \/ {p, d} \cap dead # {}
                      \/ Clients(callers, p, d) = {} /\ OthersTell(k, p, d)
                      THEN adrift \cup {<<p, d>>} ELSE adrift
      /\ UNCHANGED <<conns, env, mutex, active, watched, obits, view, live, dead, reports>>
  BY DEF AddDataAbilityConnection, Tell
<1>2. held[k][d] \in 0 .. MaxAcquire /\ held[k][d] + 1 \in 1 .. MaxAcquire
  BY <1>0, BoundAssumption DEF IInv, TInv, TablesTyped, Most
<1>3. /\ d \notin dead => held'[k][d] = held[k][d] + 1
      /\ d \in dead => held' = held
      /\ \A j \in Callers, e \in Datas : j # k \/ e # d => held'[j][e] = held[j][e]
      /\ \A r \in Pids, u \in Targets : r # p \/ u # d => State(r, u)' = State(r, u)
  <2>1. CASE d \in dead
    BY <1>1, <2>1, StateIs
  <2>2. CASE d \notin dead
    <3>1. held' = [held EXCEPT ![k][d] = held[k][d] + 1] /\ live' = live
      BY <1>1, <2>2
    <3>2. \A j \in Callers, e \in Datas : j # k \/ e # d => held'[j][e] = held[j][e]
      BY <3>1, <1>0 DEF IInv, TInv, TablesTyped
    <3>3. held'[k][d] = held[k][d] + 1
      BY <3>1, <1>0 DEF IInv, TInv, TablesTyped
    <3>4. \A r \in Pids, u \in Targets : r # PidOf[k] \/ u # d => State(r, u)' = State(r, u)
      <4>1. TablesTyped /\ d \in Datas
        BY <1>0 DEF IInv, TInv
      <4> QED
        BY ONLY <3>1, <4>1, HolderChanged, k \in Callers
    <3> QED
      BY <2>2, <3>2, <3>3, <3>4
  <2> QED
    BY <2>1, <2>2
<1>a. adrift \subseteq adrift' /\ ({p, d} \cap dead # {} => <<p, d>> \in adrift')
      /\ (Clients(callers, p, d) = {} /\ OthersTell(k, p, d) => <<p, d>> \in adrift')
      /\ adrift' \subseteq adrift \cup {<<p, d>>}
  BY <1>1
<1>b. held' \in [Callers -> [Datas -> 0 .. MaxAcquire]]
  <2>1. held \in [Callers -> [Datas -> 0 .. MaxAcquire]] /\ held[k][d] + 1 \in 0 .. MaxAcquire
    BY <1>2 DEF IInv, TInv, TablesTyped
  <2> QED
    BY <1>1, <2>1
<1>4. TInv'
  <2>1. TablesTyped'
    BY <1>0, <1>1, <1>b DEF IInv, TInv, TablesTyped
  <2>2. NoIdleItem'
    <3>1. <<k, d>> \in callers' /\ PidOf[k] = p
      BY <1>1
    <3>2. Busy(conns', callers', p)
      BY <1>0, <3>1 DEF Busy
    <3>3. ASSUME NEW r \in Pids, r # p
          PROVE  Busy(conns', callers', r) <=> Busy(conns, callers, r)
      <4>1. \A j \in Callers, e \in Datas : PidOf[j] = r => (<<j, e>> \in callers' <=> <<j, e>> \in callers)
        BY <1>1, <3>3
      <4> QED
        BY <1>1, <4>1 DEF Busy
    <3> HIDE DEF p
    <3> QED
      BY <3>2, <3>3, <1>1 DEF IInv, TInv, NoIdleItem
  <2>3. NothingStale'
    <3>1. ASSUME NEW j \in Callers, NEW e \in Datas, <<j, e>> \in callers', <<PidOf[j], e>> \notin adrift'
          PROVE  /\ held'[j][e] > 0 /\ e \notin dead
                 /\ PidOf[j] \in dead => PidOf[j] \in reports \/ <<j, e>> \in obits
      <4>1. CASE j = k /\ e = d
        BY <3>1, <4>1, <1>2, <1>3, <1>a
      <4>2. CASE j # k \/ e # d
        BY <3>1, <4>2, <1>1, <1>3, <1>a DEF IInv, TInv, NothingStale
      <4> QED
        BY <4>1, <4>2
    <3> QED
      BY <3>1, <1>1 DEF IInv, TInv, NothingStale
  <2>4. Limits'
    <3>1. k \notin Repeated => held'[k][d] <= 1
      BY <1>0, <1>2, <1>3 DEF IInv, TInv, Limits, Most
    <3> QED
      BY <3>1, <1>1, <1>3 DEF IInv, TInv, Limits
  <2>5. NothingMissing'
    <3>1. ASSUME NEW j \in Callers, NEW e \in Datas, PidOf[j] \notin dead, ~Exempt(PidOf[j], e),
                 held'[j][e] > 0
          PROVE  <<j, e>> \in callers'
      BY <3>1, <1>1, <1>3 DEF IInv, TInv, NothingMissing
    <3> QED
      BY <3>1, <1>1 DEF IInv, TInv, NothingMissing
  <2> QED
    BY <2>1, <2>2, <2>3, <2>4, <2>5 DEF TInv
<1>c. LInv'
  <2>1. /\ call \in [Inside -> [pc : {"idle", "wait", "found", "granted", "return"},
                                data : Datas \cup {"none"}]]
        /\ k \in Inside
    BY DEF IInv, LInv, LocksTyped, Inside
  <2>2. /\ call' \in [Inside -> [pc : {"idle", "wait", "found", "granted", "return"},
                                 data : Datas \cup {"none"}]]
        /\ call'[k].pc = "return" /\ \A j \in Callers \ {k} : call'[j] = call[j]
    BY <1>1, <2>1 DEF Inside
  <2>3. LocksTyped'
    BY <1>0, <1>1, <1>a, <2>2 DEF IInv, LInv, LocksTyped
  <2>4. AcquireOK'
    <3> SUFFICES ASSUME NEW j \in Callers
                 PROVE  /\ call'[j].pc \in {"wait", "found", "granted"} =>
                              call'[j].data \in Datas /\ held'[j][call'[j].data] < Most(j)
                        /\ call'[j].pc = "granted" /\ PidOf[j] \notin dead =>
                              <<j, call'[j].data>> \in watched
      BY <1>1 DEF AcquireOK, Most
    <3> QED
      BY <1>3, <2>2 DEF IInv, LInv, AcquireOK
  <2>5. ListedWatched'
    BY <1>0, <1>1, <1>a DEF IInv, LInv, ListedWatched
  <2> QED
    BY <2>3, <2>4, <2>5 DEF LInv
<1>5. d \notin dead => State(p, d)' = "connected"
  <2>1. d \notin dead => held'[k][d] > 0
    BY <1>2, <1>3
  <2> QED
    BY <2>1, <1>0, OfData, StateIs
<1>6. q = <<>> /\ <<p, d>> \notin adrift => State(p, d) = "connected"
  <2>1. ASSUME Clients(callers, p, d) # {}, <<p, d>> \notin adrift
        PROVE  \E j \in Callers : PidOf[j] = p /\ held[j][d] > 0
    BY <2>1, <1>0 DEF Clients, IInv, TInv, NothingStale
  <2> QED
    BY <1>0, <2>1, OfData, StateIs, OneEvent
<1>7. q = <<>> \/ (q = <<Call("Connected", p, d)>> /\ Clients(callers, p, d) = {})
  OBVIOUS
<1> HIDE DEF p, q
<1>8. p \notin dead /\ <<p, d>> \notin adrift' =>
         /\ q = <<>> => State(p, d)' = State(p, d)
         /\ \A e \in Events : q = <<Call(e, p, d)>> =>
               State(p, d)' = Means(e) /\ ~OthersTell(k, p, d)
  <2>1. p \notin dead /\ <<p, d>> \notin adrift' => d \notin dead /\ <<p, d>> \notin adrift
    BY <1>a
  <2> QED
    BY <2>1, <1>5, <1>6, <1>7, <1>a, OneEvent DEF Means
<1>9. q = <<>> \/ \E e \in Events : q = <<Call(e, p, d)>>
  BY <1>7 DEF Events
<1>11. Free(k) /\ view' = view /\ dead' = dead /\ pending' = [pending EXCEPT ![k] = q]
  BY <1>1 DEF AddDataAbilityConnection
<1>12. OInv
  BY DEF IInv
<1>13. OInv'
  <2>1. k \in Threads /\ p \in Pids /\ d \in Targets /\ (d \in Services => k = "serial")
        /\ adrift \subseteq adrift'
        /\ \A r \in Pids, u \in Targets : r # p \/ u # d => State(r, u)' = State(r, u)
    BY <1>0, <1>3, <1>a
  <2> QED
    BY ONLY <2>1, <1>8, <1>9, <1>11, <1>12, Told
<1> QED
  BY <1>4, <1>13, <1>c DEF IInv

\* Of a pair that is not exempt the client releases all it holds.
LEMMA RemoveDataStep ==
    ASSUME IInv, NEW k \in Callers, NEW d \in Datas, RemoveDataAbilityConnection(k, d)
    PROVE  IInv'
<1> DEFINE p == PidOf[k]
           none == Clients(callers, p, d) = {}
           last == Clients(callers', p, d) = {}
           q == IF ~none /\ last THEN <<Call("Disconnected", p, d)>> ELSE <<>>
<1>0. p \in Pids /\ d \in Targets /\ d \notin Services /\ k \in Threads
  BY StateAssumption DEF Targets, Threads
<1>1. /\ Free(k) /\ p \notin dead /\ held[k][d] > 0 /\ mutex' = k
      /\ call[k].pc = "idle" /\ call' = [call EXCEPT ![k] = [pc |-> "return", data |-> d]]
      /\ held' = [held EXCEPT ![k][d] = held[k][d] - 1]
      /\ UNCHANGED <<conns, env, active, watched, obits, view, live, dead, reports>>
  BY DEF RemoveDataAbilityConnection, tables
<1>2. none => UNCHANGED <<items, callers, adrift>>
  BY DEF RemoveDataAbilityConnection, tables
<1>3. ~none => /\ callers' = callers \ {<<k, d>>}
               /\ items' = IF last /\ IsEmpty(conns, callers', p) THEN items \ {p} ELSE items
               /\ adrift' = IF last /\ OthersTell(k, p, d)
                               THEN adrift \cup {<<p, d>>} ELSE adrift
  BY DEF RemoveDataAbilityConnection
<1>a. adrift \subseteq adrift' /\ adrift' \subseteq adrift \cup {<<p, d>>}
      /\ (~none /\ last /\ OthersTell(k, p, d) => <<p, d>> \in adrift')
  BY <1>2, <1>3
<1>4. pending' = [pending EXCEPT ![k] = q]
  <2>1. pending[k] = <<>> /\ pending \in [Threads -> Seq(Calls)]
    BY <1>1 DEF Free, IInv, OInv, CallsTyped
  <2>2. none => pending' = pending
    BY DEF RemoveDataAbilityConnection
  <2>3. ~none => pending' = [pending EXCEPT ![k] =
                    IF last THEN <<Call("Disconnected", p, d)>> ELSE <<>>]
    BY DEF RemoveDataAbilityConnection, Tell
  <2> QED
    BY <1>0, <2>1, <2>2, <2>3
<1>5. /\ none <=> \A j \in Callers : PidOf[j] = p => <<j, d>> \notin callers
      /\ last <=> \A j \in Callers : PidOf[j] = p => <<j, d>> \notin callers'
  BY DEF Clients
<1>6. /\ <<k, d>> \notin callers'
      /\ \A j \in Callers, e \in Datas :
            j # k \/ e # d => (<<j, e>> \in callers' <=> <<j, e>> \in callers)
      /\ callers' \subseteq callers
  BY <1>2, <1>3, <1>5
<1>7. held[k][d] \in 1 .. MaxAcquire /\ held[k][d] - 1 \in 0 .. MaxAcquire
  BY <1>1, BoundAssumption DEF IInv, TInv, TablesTyped
<1>8. /\ held'[k][d] = held[k][d] - 1
      /\ \A j \in Callers, e \in Datas : j # k \/ e # d => held'[j][e] = held[j][e]
      /\ \A r \in Pids, u \in Targets : r # p \/ u # d => State(r, u)' = State(r, u)
  BY <1>1, HolderChanged DEF IInv, TInv
<1>9. ~Exempt(p, d) => held'[k][d] = 0 /\ <<k, d>> \in callers
  <2>1. ~Exempt(p, d) => k \notin Repeated
    BY RepeatedExempt
  <2> QED
    BY <2>1, <1>1, <1>7, <1>8 DEF IInv, TInv, Limits, NothingMissing
<1>10. TInv'
  <2>1. TablesTyped'
    <3>1. callers' \subseteq Callers \X Datas /\ items' \subseteq Pids
      BY <1>2, <1>3, <1>6 DEF IInv, TInv, TablesTyped
    <3> QED
      BY <3>1, <1>1, <1>7 DEF IInv, TInv, TablesTyped
  <2>2. NoIdleItem'
    <3>1. \A r \in Pids \ {p} : Busy(conns', callers', r) <=> Busy(conns, callers, r)
      BY <1>1, <1>6 DEF Busy
    <3>2. CASE none
      BY <3>2, <1>1, <1>2 DEF IInv, TInv, NoIdleItem
    <3>3. CASE ~none
      <4>1. p \in items
        BY <3>3, <1>0, <1>5 DEF IInv, TInv, NoIdleItem, Busy
      <4>2. ~last => Busy(conns', callers', p)
        BY <1>5 DEF Busy
      <4>3. p \in items' <=> Busy(conns', callers', p)
        BY <1>1, <1>3, <3>3, <4>1, <4>2, EmptyIsIdle
      <4>4. \A r \in Pids \ {p} : r \in items' <=> r \in items
        BY <1>3, <3>3
      <4> QED
        BY <3>1, <4>3, <4>4 DEF IInv, TInv, NoIdleItem
    <3> QED
      BY <3>2, <3>3
  <2>3. NothingStale'
    BY <1>1, <1>6, <1>8, <1>a DEF IInv, TInv, NothingStale
  <2>4. Limits'
    <3>1. k \notin Repeated => held'[k][d] <= 1
      BY <1>7, <1>8 DEF IInv, TInv, Limits
    <3> QED
      BY <3>1, <1>1, <1>8 DEF IInv, TInv, Limits
  <2>5. NothingMissing'
    <3>1. ASSUME NEW j \in Callers, NEW e \in Datas, PidOf[j] \notin dead, ~Exempt(PidOf[j], e),
                 held'[j][e] > 0
          PROVE  <<j, e>> \in callers'
      BY <3>1, <1>6, <1>8, <1>9 DEF IInv, TInv, NothingMissing
    <3> QED
      BY <3>1, <1>1 DEF IInv, TInv, NothingMissing
  <2> QED
    BY <2>1, <2>2, <2>3, <2>4, <2>5 DEF TInv
<1>c. LInv'
  <2>1. /\ call \in [Inside -> [pc : {"idle", "wait", "found", "granted", "return"},
                                data : Datas \cup {"none"}]]
        /\ k \in Inside
    BY DEF IInv, LInv, LocksTyped, Inside
  <2>2. /\ call' \in [Inside -> [pc : {"idle", "wait", "found", "granted", "return"},
                                 data : Datas \cup {"none"}]]
        /\ call'[k].pc = "return" /\ \A j \in Callers \ {k} : call'[j] = call[j]
    BY <1>1, <2>1 DEF Inside
  <2>3. LocksTyped'
    BY <1>0, <1>1, <1>a, <2>1, <2>2 DEF IInv, LInv, LocksTyped
  <2>4. AcquireOK'
    <3> SUFFICES ASSUME NEW j \in Callers
                 PROVE  /\ call'[j].pc \in {"wait", "found", "granted"} =>
                              call'[j].data \in Datas /\ held'[j][call'[j].data] < Most(j)
                        /\ call'[j].pc = "granted" /\ PidOf[j] \notin dead =>
                              <<j, call'[j].data>> \in watched
      BY <1>1 DEF AcquireOK, Most
    <3> QED
      BY <1>8, <2>2 DEF IInv, LInv, AcquireOK
  <2>5. ListedWatched'
    BY <1>1, <1>6, <1>a DEF IInv, LInv, ListedWatched
  <2> QED
    BY <2>3, <2>4, <2>5 DEF LInv
<1>11. ASSUME ~Exempt(p, d), <<p, d>> \notin adrift'
       PROVE  /\ q = <<>> => State(p, d)' = State(p, d)
              /\ \A e \in Events : q = <<Call(e, p, d)>> =>
                    State(p, d)' = Means(e) /\ ~OthersTell(k, p, d)
  <2>0. ~none
    BY <1>5, <1>9, <1>11
  <2>1. CASE last
    <3>1. q = <<Call("Disconnected", p, d)>>
      BY <2>0, <2>1
    <3>2. \A j \in Callers : PidOf[j] = p => ~(held'[j][d] > 0)
      BY <2>1, <1>1, <1>5, <1>10, <1>11 DEF TInv, NothingMissing
    <3>3. State(p, d)' = "absent"
      BY <3>2, OfData, StateIs
    <3> QED
      BY <2>0, <2>1, <3>1, <3>3, <1>11, <1>a, OneEvent DEF Means
  <2>2. CASE ~last
    <3>1. q = <<>>
      BY <2>2
    <3>2. PICK j \in Callers : PidOf[j] = p /\ <<j, d>> \in callers' /\ <<j, d>> \in callers
      BY <2>2, <1>5, <1>6
    <3>3. held[j][d] > 0 /\ held'[j][d] > 0
      BY <3>2, <1>10, <1>11, <1>a DEF IInv, TInv, NothingStale
    <3>4. State(p, d) = "connected" /\ State(p, d)' = "connected"
      BY <3>2, <3>3, OfData, StateIs
    <3> QED
      BY <3>1, <3>4, OneEvent
  <2> QED
    BY <2>1, <2>2
<1>12. q = <<>> \/ \E e \in Events : q = <<Call(e, p, d)>>
  BY DEF Events
<1> HIDE DEF p, q
<1>13. Free(k) /\ view' = view /\ dead' = dead
  BY <1>1
<1>14. OInv
  BY DEF IInv
<1>15. OInv'
  BY ONLY <1>0, <1>4, <1>8, <1>11, <1>12, <1>13, <1>14, <1>a, Told
<1> QED
  BY <1>10, <1>15, <1>c DEF IInv

\* The values of a function, listed.
ListOf(W, f) == SetToSeq({f[x] : x \in W})

\* The calls, one for each element of a finite set, in the order SetToSeq
\* makes of them.
LEMMA EndsListed ==
    ASSUME NEW W, IsFiniteSet(W), NEW f \in [W -> Calls], NEW q, q = ListOf(W, f)
    PROVE  /\ q \in Seq(Calls)
           /\ \A i \in 1 .. Len(q) : \E x \in W : q[i] = f[x]
           /\ \A x \in W : \E i \in 1 .. Len(q) : q[i] = f[x]
<1> DEFINE S == {f[x] : x \in W}
<1>1. IsFiniteSet(S)
  <2>1. f \in Surjection(W, S)
    BY DEF Surjection
  <2> QED
    BY <2>1, FS_Surjection
<1>2. /\ SetToSeq(S) \in Seq(S)
      /\ \A y \in S : \E i \in 1 .. Len(SetToSeq(S)) : SetToSeq(S)[i] = y
  BY <1>1, SetListed
<1>3. S \subseteq Calls
  OBVIOUS
<1>4. \A i \in 1 .. Len(SetToSeq(S)) : SetToSeq(S)[i] \in S
  BY <1>2, ElementOfSeq
<1>5. SetToSeq(S) \in Seq(Calls)
  BY <1>2, <1>3
<1>6. q = SetToSeq(S)
  BY DEF ListOf
<1> QED
  BY <1>2, <1>4, <1>5, <1>6

\* Every process the tables list for the data ability is told of.
LEMMA DataDiedStep ==
    ASSUME IInv, NEW d \in Datas, HandleDataAbilityDied(d)
    PROVE  IInv'
<1> DEFINE who == {p \in Pids : Clients(callers, p, d) # {}}
           q == SetToSeq({Call("Disconnected", p, d) : p \in who})
<1>0. d \in Targets /\ d \notin Services /\ "task" \in Threads
  BY StateAssumption DEF Targets, Threads
<1>1. /\ Free("task") /\ mutex' = "task"
      /\ call' = [call EXCEPT !["task"] = [pc |-> "return", data |-> d]]
      /\ adrift' = adrift \cup {<<p, d>> : p \in {r \in who : OthersTell("task", r, d)}}
      /\ dead' = dead \cup {d}
      /\ held' = [k \in Callers |-> [held[k] EXCEPT ![d] = 0]]
      /\ callers' = {x \in callers : x[2] # d}
      /\ items' = {p \in items : ~IsEmpty(conns, callers', p)}
      /\ pending' = [pending EXCEPT !["task"] = q]
      /\ UNCHANGED <<conns, env, active, watched, obits, view, live, reports>>
  BY DEF HandleDataAbilityDied, Tell
<1>2. /\ \A k \in Callers : held'[k][d] = 0
      /\ \A k \in Callers, e \in Datas : e # d => held'[k][e] = held[k][e]
      /\ held' \in [Callers -> [Datas -> 0 .. MaxAcquire]]
  <2>1. held \in [Callers -> [Datas -> 0 .. MaxAcquire]] /\ 0 \in 0 .. MaxAcquire
    BY BoundAssumption DEF IInv, TInv, TablesTyped
  <2> QED
    BY <1>1, <2>1
<1>3. /\ \A k \in Callers : <<k, d>> \notin callers'
      /\ \A k \in Callers, e \in Datas : e # d => (<<k, e>> \in callers' <=> <<k, e>> \in callers)
      /\ callers' \subseteq callers
  BY <1>1
<1>a. adrift \subseteq adrift' /\ adrift' \subseteq Pids \X Datas
      /\ \A p \in who : OthersTell("task", p, d) => <<p, d>> \in adrift'
  BY <1>1 DEF IInv, LInv, LocksTyped
<1>4. TInv'
  <2>1. TablesTyped'
    BY <1>1, <1>2, <1>3 DEF IInv, TInv, TablesTyped
  <2>2. NoIdleItem'
    <3>1. \A p \in Pids : p \in items' <=> p \in items /\ Busy(conns', callers', p)
      BY <1>1, EmptyIsIdle
    <3>2. \A p \in Pids : Busy(conns', callers', p) => Busy(conns, callers, p)
      BY <1>1, <1>3 DEF Busy
    <3> QED
      BY <3>1, <3>2 DEF IInv, TInv, NoIdleItem
  <2>3. NothingStale'
    <3>1. ASSUME NEW k \in Callers, NEW e \in Datas, <<k, e>> \in callers', <<PidOf[k], e>> \notin adrift'
          PROVE  /\ held'[k][e] > 0 /\ e \notin dead'
                 /\ PidOf[k] \in dead' => PidOf[k] \in reports \/ <<k, e>> \in obits
      <4>1. e # d /\ <<k, e>> \in callers /\ <<PidOf[k], e>> \notin adrift /\ PidOf[k] # d
        BY <3>1, <1>3, <1>a, StateAssumption
      <4>2. /\ held[k][e] > 0 /\ e \notin dead
            /\ PidOf[k] \in dead => PidOf[k] \in reports \/ <<k, e>> \in obits
        BY <4>1 DEF IInv, TInv, NothingStale
      <4> QED
        BY <4>1, <4>2, <1>1, <1>2
    <3> QED
      BY <3>1, <1>1 DEF IInv, TInv, NothingStale
  <2>4. Limits'
    BY <1>1, <1>2 DEF IInv, TInv, Limits
  <2>5. NothingMissing'
    BY <1>1, <1>2, <1>3 DEF IInv, TInv, NothingMissing
  <2> QED
    BY <2>1, <2>2, <2>3, <2>4, <2>5 DEF TInv
<1>c. LInv'
  <2>1. /\ call \in [Inside -> [pc : {"idle", "wait", "found", "granted", "return"},
                                data : Datas \cup {"none"}]]
        /\ "task" \in Inside
    BY DEF IInv, LInv, LocksTyped, Inside
  <2>2. /\ call' \in [Inside -> [pc : {"idle", "wait", "found", "granted", "return"},
                                 data : Datas \cup {"none"}]]
        /\ \A j \in Callers : call'[j] = call[j]
    BY <1>1, <2>1, StateAssumption DEF Inside
  <2>3. LocksTyped'
    BY <1>1, <1>a, <2>1, <2>2 DEF IInv, LInv, LocksTyped
  <2>4. AcquireOK'
    <3> SUFFICES ASSUME NEW j \in Callers
                 PROVE  /\ call[j].pc \in {"wait", "found", "granted"} =>
                              call[j].data \in Datas /\ held'[j][call[j].data] < Most(j)
                        /\ call[j].pc = "granted" /\ PidOf[j] \notin dead' =>
                              <<j, call[j].data>> \in watched
      BY <1>1, <2>2 DEF AcquireOK, Most
    <3>1. Most(j) > 0
      BY BoundAssumption DEF Most
    <3> QED
      BY <1>1, <1>2, <3>1 DEF IInv, LInv, AcquireOK
  <2>5. ListedWatched'
    BY <1>1, <1>3, <1>a DEF IInv, LInv, ListedWatched
  <2> QED
    BY <2>3, <2>4, <2>5 DEF LInv
<1>5. /\ q \in Seq(Calls)
      /\ \A i \in 1 .. Len(q) : \E p \in who : q[i] = Call("Disconnected", p, d)
      /\ \A p \in who : \E i \in 1 .. Len(q) : q[i] = Call("Disconnected", p, d)
  <2> DEFINE f == [p \in who |-> Call("Disconnected", p, d)]
  <2>1. IsFiniteSet(who)
    <3>1. who \in SUBSET Pids
      OBVIOUS
    <3> QED
      BY <3>1, BoundAssumption, FS_Subset
  <2>2. f \in [who -> Calls] /\ \A p \in who : f[p] = Call("Disconnected", p, d)
    BY <1>0 DEF Call, Calls, Events
  <2>3. q = ListOf(who, f)
    BY <2>2 DEF ListOf
  <2> HIDE DEF f, who, q
  <2>4. /\ q \in Seq(Calls)
        /\ \A i \in 1 .. Len(q) : \E p \in who : q[i] = f[p]
        /\ \A p \in who : \E i \in 1 .. Len(q) : q[i] = f[p]
    BY <2>1, <2>2, <2>3, EndsListed
  <2> QED
    BY <2>2, <2>4
<1>6. pending'["task"] = q /\ \A u \in Threads \ {"task"} : pending'[u] = pending[u]
  BY <1>0, <1>1 DEF IInv, OInv, CallsTyped
<1>7. \A p \in Pids, s \in Targets : s # d => State(p, s)' = State(p, s)
  <2> SUFFICES ASSUME NEW p \in Pids, NEW s \in Targets, s # d
               PROVE  State(p, s)' = State(p, s)
    OBVIOUS
  <2>1. \A c \in Of(p, s) : live'[c] = live[c]
    BY <1>1
  <2>2. s \in Datas => \A k \in Callers : PidOf[k] = p => held'[k][s] = held[k][s]
    BY <1>2
  <2>3. StateOf(live', held', p, s) = StateOf(live, held, p, s)
    BY ONLY s \in Targets, <2>1, <2>2, StateSame
  <2> QED
    BY <2>3, StateIs
<1>8. \A p \in Pids : State(p, d)' = "absent"
  BY <1>2, OfData, StateIs
<1>9. \A p \in Pids \ (dead \cup who) : ~Exempt(p, d) => State(p, d) = "absent"
  <2> SUFFICES ASSUME NEW p \in Pids \ (dead \cup who), ~Exempt(p, d)
               PROVE  State(p, d) = "absent"
    OBVIOUS
  <2>1. ~ \E k \in Callers : PidOf[k] = p /\ held[k][d] > 0
    BY DEF Clients, IInv, TInv, NothingMissing
  <2> QED
    BY <2>1, OfData, StateIs
<1> HIDE DEF q, who
<1>10. /\ \A i \in 1 .. Len(q) : q[i].event = "Disconnected" /\ q[i].target = d
       /\ \A p \in who : \E i \in 1 .. Len(q) : IsAbout(q[i], p, d)
  <2>1. \A p : LET e == Call("Disconnected", p, d)
               IN  e.event = "Disconnected" /\ e.target = d /\ IsAbout(e, p, d)
    BY DEF Call, IsAbout
  <2> QED
    BY <2>1, <1>5
<1>11. CallsTyped'
  BY <1>0, <1>1, <1>5 DEF IInv, OInv, CallsTyped
<1>12. RightThread'
  <2> SUFFICES ASSUME NEW u \in Threads, NEW i \in 1 .. Len(pending'[u])
               PROVE  pending'[u][i].pid \notin dead' /\ pending'[u][i].target \in Services
                        => u = "serial"
    BY DEF RightThread
  <2>1. CASE u = "task"
    BY <2>1, <1>0, <1>6, <1>10
  <2>2. CASE u # "task"
    BY <2>2, <1>1, <1>6 DEF IInv, OInv, RightThread
  <2> QED
    BY <2>1, <2>2
<1>13. Informed'
  <2> SUFFICES ASSUME NEW p \in Pids \ dead, NEW s \in Targets, ~Exempt(p, s), <<p, s>> \notin adrift'
               PROVE  /\ \A u \in Threads : TellsRight(u, p, s)'
                      /\ (\E u \in Threads : Telling(u, p, s)') \/ view[p][s] = State(p, s)'
    BY <1>1 DEF Informed
  <2>1. /\ \A u \in Threads : TellsRight(u, p, s)
        /\ (\E u \in Threads : Telling(u, p, s)) \/ view[p][s] = State(p, s)
    BY <1>a DEF IInv, OInv, Informed
  <2>2. /\ \A u \in Threads \ {"task"} : Telling(u, p, s)' <=> Telling(u, p, s)
        /\ ~Telling("task", p, s)
    BY <1>1, <1>6 DEF Telling, Free
  <2>3. CASE s # d
    <3>1. State(p, s)' = State(p, s)
      BY <2>3, <1>7
    <3>2. TellsRight("task", p, s)'
      BY <2>3, <1>6, <1>10 DEF TellsRight, IsAbout
    <3>3. \A u \in Threads \ {"task"} : TellsRight(u, p, s)'
      BY <2>1, <3>1, <1>6 DEF TellsRight
    <3> QED
      BY <2>1, <2>2, <3>1, <3>2, <3>3
  <2>4. CASE s = d
    <3>1. State(p, s)' = "absent" /\ TellsRight("task", p, s)'
      BY <2>4, <1>6, <1>8, <1>10 DEF TellsRight, Means
    <3>2. CASE p \in who
      <4>1. Telling("task", p, s)'
        BY <2>4, <3>2, <1>6, <1>10 DEF Telling
      <4>2. \A u \in Threads \ {"task"} : TellsRight(u, p, s)'
        BY <2>4, <3>2, <1>6, <1>a DEF TellsRight, OthersTell, IsAbout
      <4> QED
        BY <1>0, <3>1, <4>1, <4>2
    <3>3. CASE p \notin who
      <4>1. State(p, s) = "absent"
        BY <2>4, <3>3, <1>9
      <4>2. \A u \in Threads \ {"task"} : TellsRight(u, p, s)'
        BY <2>1, <3>1, <4>1, <1>6 DEF TellsRight
      <4> QED
        BY <2>1, <2>2, <3>1, <4>1, <4>2
    <3> QED
      BY <3>2, <3>3
  <2> QED
    BY <2>3, <2>4
<1> QED
  BY <1>4, <1>11, <1>12, <1>13, <1>c DEF IInv, OInv
-------------------------------------------------------------------------------
(* The death of a caller.                                                  *)

\* What is so of a dead process is no longer promised.
LEMMA ProcessDiesStep ==
    ASSUME IInv, NEW p \in Pids, ProcessDies(p)
    PROVE  IInv'
<1>1. /\ p \in Mortal /\ dead' = dead \cup {p}
      /\ reports' = IF p \in Native THEN reports ELSE reports \cup {p}
      /\ obits' = obits \cup {x \in watched : PidOf[x[1]] = p}
      /\ UNCHANGED <<items, conns, callers, pending, view, live, held, adrift>>
      /\ UNCHANGED <<env, mutex, call, active, watched>>
  BY DEF ProcessDies, tables
<1>2. TInv'
  <2>1. TablesTyped' /\ NoIdleItem'
    BY <1>1 DEF IInv, TInv, TablesTyped, NoIdleItem
  <2>3. NothingStale'
    <3>1. ASSUME NEW k \in Callers, NEW d \in Datas, <<k, d>> \in callers, <<PidOf[k], d>> \notin adrift
          PROVE  /\ held[k][d] > 0 /\ d \notin dead'
                 /\ PidOf[k] \in dead' => PidOf[k] \in reports' \/ <<k, d>> \in obits'
      <4>1. d \notin Pids
        BY StateAssumption
      <4>2. PidOf[k] \notin dead => <<k, d>> \in watched
        BY <3>1 DEF IInv, LInv, ListedWatched
      <4>3. /\ held[k][d] > 0 /\ d \notin dead
            /\ PidOf[k] \in dead => PidOf[k] \in reports \/ <<k, d>> \in obits
        BY <3>1 DEF IInv, TInv, NothingStale
      <4> QED
        BY <1>1, <4>1, <4>2, <4>3
    <3> QED
      BY <3>1, <1>1 DEF IInv, TInv, NothingStale
  <2>2. Limits' /\ NothingMissing'
    BY <1>1 DEF IInv, TInv, Limits, NothingMissing
  <2> QED
    BY <2>1, <2>2, <2>3 DEF TInv
<1>3. \A r \in Pids, s \in Targets : State(r, s)' = State(r, s)
  BY <1>1, StateIs
<1>4. LInv'
  BY <1>1, LocksKept DEF IInv
<1> QED
  BY <1>1, <1>2, <1>3, <1>4, NothingTold DEF IInv

\* HandleCallerDied of a dead process, while of the living processes nothing
\* changes, keeps the tables free of what is over.
LEMMA CallerDied ==
    ASSUME IInv, NEW t \in Threads, Free(t), NEW p \in Pids \cap dead, HandleCallerDied(t, p),
           UNCHANGED <<env, mutex, call, active, watched, view, dead, adrift>>,
           reports' \subseteq reports, reports \subseteq reports' \cup {p},
           obits' \subseteq obits, \A x \in obits \ obits' : PidOf[x[1]] = p,
           live' \in [Conns -> {"none", "requested", "connected", "suspended"}],
           held' \in [Callers -> [Datas -> 0 .. MaxAcquire]],
           \A c \in Conns : live'[c] = live[c] \/ (PidOf[c] = p /\ live'[c] = "none"),
           \A k \in Callers, d \in Datas :
              held'[k][d] = held[k][d] \/ (PidOf[k] = p /\ held'[k][d] = 0)
    PROVE  IInv'
<1> DEFINE W == {u \in Services : Known(conns, p, u) # {}}
                \cup {d \in Datas : Clients(callers, p, d) # {}}
           q == SetToSeq({Call("Disconnected", p, s) : s \in W})
<1>1. /\ items' = items \ {p}
      /\ conns' = [c \in Conns |-> IF PidOf[c] = p THEN "out" ELSE conns[c]]
      /\ callers' = {x \in callers : PidOf[x[1]] # p}
      /\ pending' = [pending EXCEPT ![t] = q]
  BY DEF HandleCallerDied, Tell
<1>2. /\ \A c \in Conns : conns'[c] = IF PidOf[c] = p THEN "out" ELSE conns[c]
      /\ \A k \in Callers, d \in Datas :
            <<k, d>> \in callers' <=> PidOf[k] # p /\ <<k, d>> \in callers
  BY <1>1
<1>3. TInv'
  <2>1. TablesTyped'
    <3>1. conns' \in [Conns -> {"out", "in", "suspended"}]
      BY <1>1 DEF IInv, TInv, TablesTyped
    <3> QED
      BY <3>1, <1>1 DEF IInv, TInv, TablesTyped
  <2>2. NoIdleItem'
    <3>1. \A r \in Pids \ {p} : Busy(conns', callers', r) <=> Busy(conns, callers, r)
      BY <1>2 DEF Busy
    <3>2. ~Busy(conns', callers', p)
      BY <1>2 DEF Busy
    <3> QED
      BY <3>1, <3>2, <1>1 DEF IInv, TInv, NoIdleItem
  <2>3. NothingStale'
    <3>1. ASSUME NEW k \in Callers, NEW d \in Datas, <<k, d>> \in callers', <<PidOf[k], d>> \notin adrift
          PROVE  /\ held'[k][d] > 0 /\ d \notin dead
                 /\ PidOf[k] \in dead => PidOf[k] \in reports' \/ <<k, d>> \in obits'
      <4>1. PidOf[k] # p /\ <<k, d>> \in callers
        BY <3>1, <1>2
      <4>2. held'[k][d] = held[k][d]
        BY <4>1
      <4> QED
        BY <3>1, <4>1, <4>2 DEF IInv, TInv, NothingStale
    <3> QED
      BY <3>1, <1>2 DEF IInv, TInv, NothingStale
  <2>4. Limits'
    BY DEF IInv, TInv, Limits
  <2>5. NothingMissing'
    BY <1>2 DEF IInv, TInv, NothingMissing
  <2> QED
    BY <2>1, <2>2, <2>3, <2>4, <2>5 DEF TInv
<1>4. q \in Seq(Calls) /\ \A i \in 1 .. Len(q) : q[i].pid \in dead
  <2> DEFINE f == [s \in W |-> Call("Disconnected", p, s)]
  <2>1. IsFiniteSet(W)
    <3>1. W \in SUBSET Targets
      BY DEF Targets
    <3> QED
      BY <3>1, BoundAssumption, FS_Subset
  <2>2. f \in [W -> Calls] /\ \A s \in W : f[s] = Call("Disconnected", p, s)
    BY DEF Call, Calls, Events, Targets
  <2>3. q = ListOf(W, f)
    <3> HIDE DEF f, W
    <3>1. ASSUME NEW y
          PROVE  y \in {f[s] : s \in W} <=> y \in {Call("Disconnected", p, s) : s \in W}
      <4>1. (\E s \in W : y = f[s]) <=> \E s \in W : y = Call("Disconnected", p, s)
        BY <2>2
      <4> QED
        BY <4>1
    <3>2. {f[s] : s \in W} = {Call("Disconnected", p, s) : s \in W}
      BY <3>1
    <3> QED
      BY <3>2 DEF ListOf
  <2> HIDE DEF f, W, q
  <2>4. q \in Seq(Calls) /\ \A i \in 1 .. Len(q) : \E s \in W : q[i] = f[s]
    BY ONLY <2>1, <2>2, <2>3, EndsListed
  <2> QED
    BY <2>2, <2>4 DEF Call
<1>5. \A r \in Pids \ dead, s \in Targets : State(r, s)' = State(r, s)
  <2> SUFFICES ASSUME NEW r \in Pids \ dead, NEW s \in Targets
               PROVE  State(r, s)' = State(r, s)
    OBVIOUS
  <2>1. \A c \in Of(r, s) : live'[c] = live[c]
    BY DEF Of
  <2>2. s \in Datas => \A k \in Callers : PidOf[k] = r => held'[k][s] = held[k][s]
    OBVIOUS
  <2>3. StateOf(live', held', r, s) = StateOf(live, held, r, s)
    BY ONLY s \in Targets, <2>1, <2>2, StateSame
  <2> QED
    BY <2>3, StateIs
<1> HIDE DEF q, W
<1>6. OInv'
  BY <1>1, <1>4, <1>5, ToldOfDead DEF IInv
<1>7. LInv'
  BY <1>1, LocksKept DEF IInv
<1> QED
  BY <1>3, <1>6, <1>7 DEF IInv

\* The application manager reports a process that is dead.
LEMMA HandleAppDiedStep ==
    ASSUME IInv, NEW p \in Pids, HandleAppDied(p)
    PROVE  IInv'
<1>1. /\ Free("app") /\ p \in reports /\ reports' = reports \ {p} /\ HandleCallerDied("app", p)
      /\ UNCHANGED <<env, mutex, call, active, watched, obits, view, live, held, dead, adrift>>
      /\ "app" \in Threads
  BY DEF HandleAppDied, Threads, locks
<1>2. p \in Pids \cap dead
  BY <1>1 DEF IInv, TInv, Limits
<1>3. /\ live' \in [Conns -> {"none", "requested", "connected", "suspended"}]
      /\ held' \in [Callers -> [Datas -> 0 .. MaxAcquire]]
  BY <1>1 DEF IInv, TInv, TablesTyped
<1>4. /\ \A c \in Conns : live'[c] = live[c]
      /\ \A k \in Callers, d \in Datas : held'[k][d] = held[k][d]
      /\ reports' \subseteq reports /\ reports \subseteq reports' \cup {p}
      /\ obits' \subseteq obits /\ \A x \in obits \ obits' : PidOf[x[1]] = p
  BY <1>1
<1> QED
  BY <1>1, <1>2, <1>3, <1>4, CallerDied

\* The callback of a dead process ends one of its connections.
LEMMA CallBackDiedStep ==
    ASSUME IInv, NEW c \in Conns, CallBackDied(c)
    PROVE  IInv'
<1> DEFINE p == PidOf[c]
<1>1. /\ Free("serial") /\ p \in dead /\ live' = [live EXCEPT ![c] = "none"]
      /\ HandleCallerDied("serial", p) /\ "serial" \in Threads
      /\ UNCHANGED <<env, mutex, call, active, watched, obits, view, held, dead, reports, adrift>>
  BY DEF CallBackDied, Threads, locks
<1>2. p \in Pids \cap dead
  BY <1>1, StateAssumption
<1>3. /\ live' \in [Conns -> {"none", "requested", "connected", "suspended"}]
      /\ held' \in [Callers -> [Datas -> 0 .. MaxAcquire]]
      /\ \A e \in Conns : live'[e] = live[e] \/ (PidOf[e] = p /\ live'[e] = "none")
  BY <1>1 DEF IInv, TInv, TablesTyped
<1>4. /\ \A k \in Callers, d \in Datas : held'[k][d] = held[k][d]
      /\ reports' \subseteq reports /\ reports \subseteq reports' \cup {p}
      /\ obits' \subseteq obits /\ \A x \in obits \ obits' : PidOf[x[1]] = p
  BY <1>1
<1> HIDE DEF p
<1> QED
  BY <1>1, <1>2, <1>3, <1>4, CallerDied

\* A client a death recipient reports is dead.
LEMMA ObitsOfDead ==
    ASSUME IInv, NEW k \in Callers, NEW d \in Datas, <<k, d>> \in obits
    PROVE  PidOf[k] \in Pids \cap dead
  BY StateAssumption DEF IInv, TInv, Limits

\* A dead client holds nothing.
LEMMA DataClientDiedStep ==
    ASSUME IInv, NEW k \in Callers, NEW d \in Datas, DataClientDied(k, d)
    PROVE  IInv'
<1> DEFINE p == PidOf[k]
<1>1. /\ Free("obituary") /\ <<k, d>> \in obits /\ obits' = obits \ {<<k, d>>}
      /\ UNCHANGED <<env, mutex, call, active, watched, view, live, dead, reports, adrift>>
      /\ "obituary" \in Threads
  BY DEF DataClientDied, Threads
<1>2. p \in Pids \cap dead
  BY <1>1, ObitsOfDead
<1>3. CASE HandleCallerDied("obituary", p) /\ held' = [held EXCEPT ![k][d] = 0]
  <2>1. /\ live' \in [Conns -> {"none", "requested", "connected", "suspended"}]
        /\ held' \in [Callers -> [Datas -> 0 .. MaxAcquire]]
        /\ \A j \in Callers, e \in Datas :
              held'[j][e] = held[j][e] \/ (PidOf[j] = p /\ held'[j][e] = 0)
    <3>1. 0 \in 0 .. MaxAcquire
      BY BoundAssumption
    <3> QED
      BY <1>1, <1>3, <3>1 DEF IInv, TInv, TablesTyped
  <2>2. /\ \A c \in Conns : live'[c] = live[c]
        /\ reports' \subseteq reports /\ reports \subseteq reports' \cup {p}
        /\ obits' \subseteq obits /\ \A x \in obits \ obits' : PidOf[x[1]] = p
    BY <1>1
  <2> HIDE DEF p
  <2> QED
    BY <1>1, <1>2, <1>3, <2>1, <2>2, CallerDied
<1>4. CASE held[k][d] = 0 /\ UNCHANGED <<items, conns, callers, pending, held>>
  <2>1. TInv'
    BY <1>1, <1>4 DEF IInv, TInv, TablesTyped, NoIdleItem, NothingStale, Limits, NothingMissing
  <2>2. LInv'
    BY <1>1, <1>4, LocksKept DEF IInv
  <2>3. \A r \in Pids, s \in Targets : State(r, s)' = State(r, s)
    BY <1>1, <1>4, StateIs
  <2> QED
    BY <1>1, <1>4, <2>1, <2>2, <2>3, NothingTold DEF IInv
<1>5. held[k][d] \in Nat
  BY BoundAssumption DEF IInv, TInv, TablesTyped
<1> QED
  BY <1>3, <1>4, <1>5 DEF DataClientDied, tables
-------------------------------------------------------------------------------
\* The call a thread makes tells what is so, or is about a dead process.
LEMMA CallObserversStep ==
    ASSUME IInv, NEW t \in Threads, CallObservers(t)
    PROVE  IInv'
<1> DEFINE told == Head(pending[t])
<1>1. /\ pending[t] # <<>> /\ pending' = [pending EXCEPT ![t] = Tail(pending[t])]
      /\ view' = [view EXCEPT ![told.pid][told.target] = Means(told.event)]
      /\ UNCHANGED <<items, conns, callers, live, held, dead, reports, adrift>>
      /\ UNCHANGED <<env, mutex, call, active, watched, obits>>
  BY DEF CallObservers, Means, tables, truth, locks
<1>2. /\ pending[t] \in Seq(Calls) /\ Tail(pending[t]) \in Seq(Calls)
      /\ told = pending[t][1] /\ told \in Calls /\ 1 \in 1 .. Len(pending[t])
      /\ Len(Tail(pending[t])) = Len(pending[t]) - 1 /\ Len(pending[t]) \in Nat
      /\ \A i \in 1 .. Len(Tail(pending[t])) : /\ i + 1 \in 1 .. Len(pending[t])
                                               /\ Tail(pending[t])[i] = pending[t][i + 1]
  <2>1. pending[t] \in Seq(Calls)
    BY DEF IInv, OInv, CallsTyped
  <2> QED
    BY <2>1, <1>1, HeadTailProperties, LenProperties, ElementOfSeq, EmptySeq
<1>3. /\ told.pid \in Pids /\ told.target \in Targets
      /\ Means(told.event) \in {"absent", "connected", "suspended"}
  BY <1>2 DEF Calls, Means
<1>4. pending'[t] = Tail(pending[t]) /\ \A u \in Threads \ {t} : pending'[u] = pending[u]
  BY <1>1 DEF IInv, OInv, CallsTyped
<1>5. /\ view'[told.pid][told.target] = Means(told.event)
      /\ \A p \in Pids, s \in Targets : p # told.pid \/ s # told.target => view'[p][s] = view[p][s]
      /\ view' \in [Pids -> [Targets -> {"absent", "connected", "suspended"}]]
  <2>1. view \in [Pids -> [Targets -> {"absent", "connected", "suspended"}]]
    BY DEF IInv, OInv, CallsTyped
  <2> HIDE DEF told
  <2> QED
    BY <2>1, <1>1, <1>3
<1>6. TInv'
  BY <1>1 DEF IInv, TInv, TablesTyped, NoIdleItem, NothingStale, Limits, NothingMissing
<1>7. \A p \in Pids, s \in Targets : State(p, s)' = State(p, s)
  BY <1>1, StateIs
<1> HIDE DEF told
<1>8. CallsTyped'
  BY <1>1, <1>2, <1>5 DEF IInv, OInv, CallsTyped
<1>9. RightThread'
  <2> SUFFICES ASSUME NEW u \in Threads, NEW i \in 1 .. Len(pending'[u])
               PROVE  pending'[u][i].pid \notin dead /\ pending'[u][i].target \in Services
                        => u = "serial"
    BY <1>1 DEF RightThread
  <2>1. CASE u = t
    BY <2>1, <1>2, <1>4 DEF IInv, OInv, RightThread
  <2>2. CASE u # t
    BY <2>2, <1>4 DEF IInv, OInv, RightThread
  <2> QED
    BY <2>1, <2>2
<1>10. Informed'
  <2> SUFFICES ASSUME NEW p \in Pids \ dead, NEW s \in Targets, ~Exempt(p, s), <<p, s>> \notin adrift
               PROVE  /\ \A u \in Threads : TellsRight(u, p, s)'
                      /\ (\E u \in Threads : Telling(u, p, s)') \/ view'[p][s] = State(p, s)'
    BY <1>1 DEF Informed
  <2>1. /\ \A u \in Threads : TellsRight(u, p, s)
        /\ (\E u \in Threads : Telling(u, p, s)) \/ view[p][s] = State(p, s)
    BY DEF IInv, OInv, Informed
  <2>2. State(p, s)' = State(p, s)
    BY <1>7
  <2>3. \A u \in Threads : TellsRight(u, p, s)'
    <3>1. TellsRight(t, p, s)'
      BY <2>1, <2>2, <1>2, <1>4 DEF TellsRight
    <3>2. \A u \in Threads \ {t} : TellsRight(u, p, s)'
      BY <2>1, <2>2, <1>4 DEF TellsRight
    <3> QED
      BY <3>1, <3>2
  <2>4. CASE IsAbout(told, p, s)
    <3>1. Means(told.event) = State(p, s)
      BY <2>1, <2>4, <1>2 DEF TellsRight
    <3>2. view'[p][s] = State(p, s)
      BY <2>4, <3>1, <1>5 DEF IsAbout
    <3> QED
      BY <2>2, <2>3, <3>2
  <2>5. CASE ~IsAbout(told, p, s)
    <3>1. view'[p][s] = view[p][s]
      BY <2>5, <1>5 DEF IsAbout
    <3>2. Telling(t, p, s) => Telling(t, p, s)'
      <4> SUFFICES ASSUME NEW i \in 1 .. Len(pending[t]), IsAbout(pending[t][i], p, s)
                   PROVE  \E m \in 1 .. Len(pending'[t]) : IsAbout(pending'[t][m], p, s)
        BY DEF Telling
      <4>1. i # 1
        BY <2>5, <1>2
      <4>2. i - 1 \in 1 .. Len(Tail(pending[t])) /\ (i - 1) + 1 = i
        BY <4>1, <1>2
      <4>3. pending'[t][i - 1] = pending[t][i]
        BY <4>2, <1>2, <1>4
      <4> QED
        BY <4>2, <4>3, <1>4
    <3>3. \A u \in Threads \ {t} : Telling(u, p, s) => Telling(u, p, s)'
      BY <1>4 DEF Telling
    <3> QED
      BY <2>1, <2>2, <2>3, <3>1, <3>2, <3>3
  <2> QED
    BY <2>4, <2>5
<1>11. LInv'
  BY <1>1, LocksKept DEF IInv
<1> QED
  BY <1>6, <1>8, <1>9, <1>10, <1>11 DEF IInv, OInv
-------------------------------------------------------------------------------
\* In the initial states the tables are empty and nobody was told anything.
LEMMA InitOK == Init => IInv
<1> SUFFICES ASSUME Init
             PROVE  IInv
  OBVIOUS
<1>1. TInv
  <2>1. TablesTyped
    BY BoundAssumption DEF Init, TablesTyped
  <2>2. NoIdleItem /\ NothingStale /\ Limits /\ NothingMissing
    BY DEF Init, NoIdleItem, Busy, NothingStale, Limits, NothingMissing
  <2> QED
    BY <2>1, <2>2 DEF TInv
<1>4. LInv
  <2>1. Idle \in [pc : {"idle", "wait", "found", "granted", "return"}, data : Datas \cup {"none"}]
        /\ Idle.pc = "idle"
    BY DEF Idle
  <2>2. LocksTyped
    BY <2>1 DEF Init, LocksTyped
  <2>3. AcquireOK
    BY <2>1 DEF Init, AcquireOK, Inside
  <2>4. ListedWatched
    BY DEF Init, ListedWatched
  <2> QED
    BY <2>2, <2>3, <2>4 DEF LInv
<1>2. CallsTyped /\ RightThread
  BY DEF Init, CallsTyped, RightThread
<1>3. Informed
  <2> SUFFICES ASSUME NEW p \in Pids, NEW s \in Targets
               PROVE  /\ State(p, s) = "absent" /\ view[p][s] = "absent"
                      /\ \A t \in Threads : Len(pending[t]) = 0
    BY DEF Informed, TellsRight
  <2>1. view[p][s] = "absent" /\ \A t \in Threads : Len(pending[t]) = 0
    BY DEF Init
  <2>2. CASE s \in Services
    <3>1. \A c \in Of(p, s) : live[c] \notin {"connected", "suspended"}
      BY DEF Init, Of
    <3> QED
      BY <2>1, <2>2, <3>1, OfService, StateIs
  <2>3. CASE s \in Datas
    <3>1. ~ \E k \in Callers : PidOf[k] = p /\ held[k][s] > 0
      BY <2>3 DEF Init
    <3> QED
      BY <2>1, <2>3, <3>1, OfData, StateIs
  <2> QED
    BY <2>2, <2>3 DEF Targets
<1> QED
  BY <1>1, <1>2, <1>3, <1>4 DEF IInv, OInv

\* Every step keeps the inductive invariant.
LEMMA NextOK == IInv /\ [Next]_vars => IInv'
<1> SUFFICES ASSUME IInv, [Next]_vars
             PROVE  IInv'
  OBVIOUS
<1>1. CASE UNCHANGED vars
  <2>1. UNCHANGED <<items, conns, callers, pending, view, live, held, dead, reports, adrift,
                    env, mutex, call, active, watched, obits>>
    BY <1>1 DEF vars, tables, truth, locks
  <2>2. TInv'
    BY <2>1 DEF IInv, TInv, TablesTyped, NoIdleItem, NothingStale, Limits, NothingMissing
  <2>3. \A p \in Pids, s \in Targets : State(p, s)' = State(p, s)
    BY <2>1, StateIs
  <2>4. LInv'
    BY <2>1, LocksKept DEF IInv
  <2> QED
    BY <2>1, <2>2, <2>3, <2>4, NothingTold DEF IInv
<1>2. CASE Next
  BY <1>2, RequestConnectStep, AddConnectionStep, RemoveConnectionStep, SuspendConnectionStep,
     ResumeConnectionStep, AcquireStep, TransitionDoneStep, WaitForLoadedStep, AddClientStep,
     AddDataStep, RemoveDataStep, DataDiedStep, ReturnStep, ProcessDiesStep,
     HandleAppDiedStep, CallBackDiedStep, DataClientDiedStep, CallObserversStep DEF Next
<1> QED
  BY <1>1, <1>2

\* ConnectionStateManager's tables have no empty item and nothing that is over,
\* whichever of its three callers' threads report in whatever order.
THEOREM TablesCurrent == Spec => []Consistent
<1>1. IInv => Consistent
  <2> SUFFICES ASSUME IInv
               PROVE  Consistent
    OBVIOUS
  <2>1. TypeOK
    <3>1. \A t \in Threads : \A i \in 1 .. Len(pending[t]) : pending[t][i] \in Calls
      BY ElementOfSeq DEF IInv, OInv, CallsTyped
    <3> QED
      BY <3>1 DEF IInv, TInv, TablesTyped, LInv, LocksTyped, OInv, CallsTyped, TypeOK, Calls, Events
  <2>2. NoEmptyItem
    BY EmptyIsIdle DEF IInv, TInv, NoIdleItem, NoEmptyItem
  <2> QED
    BY <2>1, <2>2 DEF IInv, TInv, Consistent
<1> QED
  BY <1>1, InitOK, NextOK, PTL DEF Spec

\* Once every call on the way was made, an observer that keeps what it was told
\* last knows of every living process what is so, although the calls are made
\* outside stateLock_ and by three threads.
THEOREM ObserversInformed == Spec => []ObserverKnows
<1>1. IInv => ObserverKnows
  <2> SUFFICES ASSUME IInv, Quiet, NEW p \in Pids \ dead, NEW s \in Targets, ~Exempt(p, s),
                      <<p, s>> \notin adrift
               PROVE  view[p][s] = State(p, s)
    BY DEF ObserverKnows
  <2>1. \A t \in Threads : ~Telling(t, p, s)
    BY DEF Quiet, Free, Telling
  <2> QED
    BY <2>1 DEF IInv, OInv, Informed
<1> QED
  BY <1>1, InitOK, NextOK, PTL DEF Spec
===============================================================================
