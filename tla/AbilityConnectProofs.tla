------------------------ MODULE AbilityConnectProofs ------------------------
(***************************************************************************)
(* The safety of AbilityConnectManager, for any number of services,        *)
(* clients, records and connections and whatever may fail.                 *)
(*                                                                         *)
(* The books (IInv): every step of the manager either registers one fresh  *)
(* connection, or is a BookStep: it unregisters a set S of connections and *)
(* ends exactly those, while every other connection stays or advances.     *)
(* Each action is shown to be one of the two, and each of the two keeps    *)
(* the books in agreement.                                                 *)
(*                                                                         *)
(* The services (SInv, LInv, WInv): a step takes a set T of records out of *)
(* service and may make one record n (ServiceStep); it establishes         *)
(* connections only to services that are ACTIVE and ends those of the      *)
(* records in T (LinkStep); and every record that stays is watched by what *)
(* the progress of its start calls for (Watch).  Each action is shown to   *)
(* be such a step, and such steps keep the invariant.                      *)
(***************************************************************************)
EXTENDS AbilityConnect, TLAPS, FiniteSetTheorems, WellFoundedInduction

ConnTasks == {"connect", "running", "disconnect", "null", "fail"}
ConnRec == [cb : Callbacks \cup {None}, svc : Recs \cup {NoRec}, state : ConnStates,
            tasks : SUBSET ConnTasks]

\* A connection that was created has a callback and a service, one that was
\* not created has no tasks.
ConnOK ==
    /\ conn \in [Conns -> ConnRec]
    /\ \A c \in Conns : IF conn[c].state = "INIT" THEN conn[c].tasks = {}
                        ELSE conn[c].cb \in Callbacks /\ conn[c].svc \in Recs

\* Connections are created in the order of their numbers.
Numbered == \E n \in 0..MaxConns : \A c \in Conns : conn[c].state # "INIT" <=> c <= n

BooksOK ==
    /\ connList \in [Recs -> SUBSET Conns]
    /\ connectMap \in [Callbacks -> SUBSET Conns]
    /\ recipients \subseteq Callbacks
    /\ pidCount \in [Pids -> Int]

\* A list that was copied holds connections that were made to the record.
CleaningOK ==
    /\ cleaning \in [Recs -> SUBSET NoCopy]
    /\ \A r \in Recs : cleaning[r] # NoCopy =>
          \A c \in cleaning[r] : c \in Conns /\ conn[c].state # "INIT" /\ conn[c].svc = r

\* The inductive invariant: what is proved, strengthened by the shape of
\* connections, by their numbering (a fresh number was never used) and by what
\* the waiting clean-up calls have copied.
IInv == /\ ConnOK /\ Numbered /\ BooksOK /\ CleaningOK
        /\ ListsAgree /\ RecipientsAgree /\ OneConnPerTarget /\ CountsAgree
-------------------------------------------------------------------------------
Forward(x, y) == \/ x = y
                 \/ x = "CONNECTING" /\ y \in {"CONNECTED", "DISCONNECTING"}
                 \/ x = "CONNECTED" /\ y = "DISCONNECTING"

\* The connections in S end, the others stay or advance.
Advance(S) ==
    /\ S \subseteq Conns
    /\ conn' \in [Conns -> ConnRec]
    /\ \A c \in Conns : conn'[c].cb = conn[c].cb /\ conn'[c].svc = conn[c].svc
    /\ \A c \in Conns : c \in S => conn[c].state # "INIT" /\ conn'[c].state = "DISCONNECTED"
    /\ \A c \in Conns : c \notin S => Forward(conn[c].state, conn'[c].state)
    /\ \A c \in Conns : conn[c].state = "INIT" => conn'[c].tasks = {}

CleaningStep ==
    /\ cleaning' \in [Recs -> SUBSET NoCopy]
    /\ \A r \in Recs : cleaning'[r] \in {cleaning[r], NoCopy, connList[r]}

BookStep == CleaningStep /\ \E S : Advance(S) /\ Remove(S)
-------------------------------------------------------------------------------
\* The first record of a list that is not empty is a record of the list.
LEMMA FirstIn ==
    ASSUME NEW S, S \subseteq Conns, S # {}
    PROVE  First(S) \in S
<1>1. S \subseteq Nat
  BY BoundAssumption DEF Conns
<1> DEFINE Less == {ss \in Nat \X Nat : ss[1] < ss[2]}
<1>2. IsWellFoundedOn(Less, Nat)
  BY NatLessThanWellFounded, Zenon DEF OpToRel
<1>3. \E x \in S : \A y \in S : ~ (<<y, x>> \in Less)
  <2> HIDE DEF Less
  <2> QED
    BY <1>1, <1>2, WFMin
<1>4. PICK x \in S : \A y \in S : ~ (<<y, x>> \in Less)
  BY <1>3
<1>5. \A y \in S : x <= y
  <2> SUFFICES ASSUME NEW y \in S, y < x PROVE FALSE
    BY <1>1
  <2>1. <<y, x>> \in Less
    BY <1>1
  <2> QED
    BY <1>4, <2>1
<1> QED
  BY <1>5 DEF First

\* NextConn is the number after the last one used.
LEMMA NextIsFresh ==
    ASSUME ConnOK, Numbered
    PROVE  /\ NextConn \in Nat
           /\ \A c \in Conns : conn[c].state # "INIT" <=> c < NextConn
<1>1. PICK n \in 0..MaxConns : \A c \in Conns : conn[c].state # "INIT" <=> c <= n
  BY DEF Numbered
<1>2. n \in Nat /\ MaxConns \in Nat
  BY BoundAssumption
<1>3. {c \in Conns : conn[c].state # "INIT"} = 1..n
  BY <1>1, <1>2 DEF Conns
<1>4. Cardinality(1..n) = n
  BY <1>2, FS_Interval
<1>5. NextConn = n + 1
  BY <1>3, <1>4 DEF NextConn
<1> QED
  BY <1>1, <1>2, <1>5 DEF Conns

\* There are finitely many connections.
LEMMA ConnsFinite == IsFiniteSet(Conns)
  BY FS_Interval, BoundAssumption DEF Conns

\* A step that leaves the books alone unregisters nothing.
LEMMA NothingRemoved ==
    ASSUME IInv, UNCHANGED books
    PROVE  Remove({})
<1>1. \A p \in Pids : {c \in {} : CallerPid[conn[c].cb] = p /\ c \in connectMap[conn[c].cb]} = {}
  OBVIOUS
<1>2. Cardinality({}) = 0
  BY FS_EmptySet
<1>3. pidCount = [p \in Pids |-> pidCount[p] - Cardinality({})]
  BY <1>2 DEF IInv, BooksOK
<1> QED
  BY <1>1, <1>3 DEF IInv, BooksOK, Remove, books

\* A step that leaves the copied lists alone.
LEMMA CleaningSame ==
    ASSUME IInv, UNCHANGED cleaning
    PROVE  CleaningStep
  BY DEF IInv, CleaningOK, CleaningStep

\* A list of the service or of a callback holds live connections only.
LEMMA ListedIsLive ==
    ASSUME IInv
    PROVE  /\ \A r \in Recs : connList[r] \subseteq Conns
           /\ \A cb \in Callbacks : connectMap[cb] \subseteq Conns
           /\ \A r \in Recs : \A c \in connList[r] :
                 conn[c].svc = r /\ conn[c].state \in {"CONNECTING", "CONNECTED", "DISCONNECTING"}
           /\ \A cb \in Callbacks : \A c \in connectMap[cb] :
                 conn[c].cb = cb /\ conn[c].state \in {"CONNECTING", "CONNECTED", "DISCONNECTING"}
  BY DEF IInv, ListsAgree, Live

\* A BookStep keeps the invariant.
LEMMA BookStepIInv ==
    ASSUME IInv, BookStep
    PROVE  IInv'
<1>1. PICK S : Advance(S) /\ Remove(S)
  BY DEF BookStep
<1>2. \A c \in Conns : conn'[c].state = "INIT" <=> conn[c].state = "INIT"
  BY <1>1 DEF Advance, Forward, IInv, ConnOK
<1>3. ConnOK'
  BY <1>1, <1>2 DEF Advance, IInv, ConnOK
<1>4. Numbered'
  BY <1>2 DEF IInv, Numbered
<1>5. BooksOK'
  <2>1. IsFiniteSet(Conns)
    BY ConnsFinite
  <2>2. \A p \in Pids : {c \in S : CallerPid[conn[c].cb] = p /\ c \in connectMap[conn[c].cb]} \in SUBSET Conns
    BY <1>1 DEF Advance
  <2>3. \A p \in Pids :
           Cardinality({c \in S : CallerPid[conn[c].cb] = p /\ c \in connectMap[conn[c].cb]}) \in Nat
    BY <2>1, <2>2, FS_Subset, FS_CardinalityType
  <2>4. pidCount' \in [Pids -> Int]
    BY <1>1, <2>3 DEF Remove, IInv, BooksOK
  <2> QED
    BY <1>1, <2>4 DEF Remove, IInv, BooksOK
<1>6. CleaningOK'
  <2>1. 0 \notin Conns
    BY DEF Conns
  <2>2. \A c \in Conns : conn'[c].svc = conn[c].svc
    BY <1>1 DEF Advance
  <2> QED
    BY <1>2, <2>1, <2>2, ListedIsLive DEF BookStep, CleaningStep, CleaningOK, IInv, NoCopy
<1>7. Live' = Live \ S
  BY <1>1 DEF Advance, Forward, Live, IInv, ConnOK, ConnRec, ConnStates
<1>8. ListsAgree'
  BY <1>1, <1>7 DEF Remove, Advance, ListsAgree, IInv, Live
<1>9. RecipientsAgree'
  BY <1>1 DEF Remove, RecipientsAgree, IInv, BooksOK
<1>10. OneConnPerTarget'
  BY <1>1, <1>7 DEF Advance, OneConnPerTarget, IInv, Live
<1>11. CountsAgree'
  <2> SUFFICES ASSUME NEW p \in Pids
               PROVE  pidCount'[p] = Cardinality({c \in Live' : CallerPid[conn'[c].cb] = p})
    BY DEF CountsAgree
  <2> DEFINE A == {c \in Live : CallerPid[conn[c].cb] = p}
             B == {c \in S : CallerPid[conn[c].cb] = p /\ c \in connectMap[conn[c].cb]}
  <2>1. IsFiniteSet(A)
    BY ConnsFinite, FS_Subset DEF Live
  <2>2. \A c \in S : c \in Live <=> c \in connectMap[conn[c].cb]
    BY <1>1 DEF Advance, IInv, ConnOK, ListsAgree
  <2>3. B = A \cap S
    BY <2>2
  <2>4. {c \in Live' : CallerPid[conn'[c].cb] = p} = A \ S
    BY <1>1, <1>7 DEF Advance, Live
  <2>5. pidCount[p] = Cardinality(A)
    BY DEF IInv, CountsAgree
  <2>6. pidCount'[p] = pidCount[p] - Cardinality(B)
    BY <1>1 DEF Remove
  <2> HIDE DEF A, B
  <2> QED
    BY <2>1, <2>3, <2>4, <2>5, <2>6, FS_Difference
<1> QED
  BY <1>3, <1>4, <1>5, <1>6, <1>8, <1>9, <1>10, <1>11 DEF IInv
-------------------------------------------------------------------------------
\* The registration of a fresh connection of cb to record r.
Registration(cb, r) ==
    /\ cb \in Callbacks /\ r \in Recs /\ NextConn \in Conns
    /\ GetAbilityConnectedRecord(cb, r) = {}
    /\ Register(NextConn, cb, r)
    /\ \E y \in ConnRec : /\ y.cb = cb /\ y.svc = r
                          /\ y.state \in {"CONNECTING", "CONNECTED", "DISCONNECTING"}
                          /\ conn' = [conn EXCEPT ![NextConn] = y]
    /\ UNCHANGED cleaning

\* A Registration keeps the invariant.
LEMMA RegistrationIInv ==
    ASSUME IInv, NEW cb, NEW r, Registration(cb, r)
    PROVE  IInv'
<1> DEFINE n == NextConn
<1>1. PICK y \in ConnRec : /\ y.cb = cb /\ y.svc = r
                           /\ y.state \in {"CONNECTING", "CONNECTED", "DISCONNECTING"}
                           /\ conn' = [conn EXCEPT ![n] = y]
  BY DEF Registration
<1>2. n \in Conns /\ cb \in Callbacks /\ r \in Recs
  BY DEF Registration
<1>3. n \in Nat /\ \A c \in Conns : conn[c].state # "INIT" <=> c < n
  BY NextIsFresh DEF IInv
<1>4. conn[n].state = "INIT" /\ conn'[n] = y /\ \A c \in Conns : c # n => conn'[c] = conn[c]
  BY <1>1, <1>2, <1>3 DEF IInv, ConnOK
<1> HIDE DEF n
<1>5. ConnOK'
  <2>1. conn' \in [Conns -> ConnRec]
    BY <1>1, <1>2 DEF IInv, ConnOK
  <2> QED
    BY <1>1, <1>2, <1>4, <2>1 DEF IInv, ConnOK
<1>6. Numbered'
  <2>1. n \in 0..MaxConns
    BY <1>2, <1>3, BoundAssumption DEF Conns
  <2>2. \A c \in Conns : conn'[c].state # "INIT" <=> c <= n
    BY <1>1, <1>2, <1>3, <1>4 DEF Conns
  <2> QED
    BY <2>1, <2>2 DEF Numbered
<1>7. Register(n, cb, r)
  BY DEF Registration, n
<1>8. BooksOK'
  <2>1. pidCount' \in [Pids -> Int]
    <3>1. PICK p \in Pids : p = CallerPid[cb]
      BY <1>2, CallerAssumption
    <3>2. pidCount' = [pidCount EXCEPT ![p] = pidCount[p] + 1]
      BY <1>7, <3>1 DEF Register
    <3> QED
      BY <3>1, <3>2 DEF IInv, BooksOK
  <2>2. recipients' \subseteq Callbacks
    BY <1>2, <1>7 DEF Register, IInv, BooksOK
  <2>3. connList' \in [Recs -> SUBSET Conns] /\ connectMap' \in [Callbacks -> SUBSET Conns]
    BY <1>2, <1>7 DEF Register, IInv, BooksOK
  <2> QED
    BY <2>1, <2>2, <2>3 DEF BooksOK
<1>9. CleaningOK'
  BY <1>1, <1>2, <1>4 DEF IInv, CleaningOK, Registration
<1>10. Live' = Live \cup {n} /\ n \notin Live
  BY <1>1, <1>2, <1>4 DEF Live
<1>11. ListsAgree'
  <2>1. \A q \in Recs : connList'[q] = IF q = r THEN connList[q] \cup {n} ELSE connList[q]
    BY <1>2, <1>7 DEF Register, IInv, BooksOK
  <2>2. \A q \in Callbacks : connectMap'[q] = IF q = cb THEN connectMap[q] \cup {n} ELSE connectMap[q]
    BY <1>2, <1>7 DEF Register, IInv, BooksOK
  <2>3. \A c \in Live : conn'[c] = conn[c]
    BY <1>4, <1>10 DEF Live
  <2>4. \A q \in Recs : connList'[q] = {c \in Live' : conn'[c].svc = q}
    <3> SUFFICES ASSUME NEW q \in Recs
                 PROVE  \A c : c \in connList'[q] <=> c \in Live' /\ conn'[c].svc = q
      OBVIOUS
    <3>1. \A c : c \in connList[q] <=> c \in Live /\ conn[c].svc = q
      BY DEF IInv, ListsAgree
    <3>2. conn'[n].svc = r
      BY <1>1, <1>4
    <3>3. \A c : c \in Live' <=> c \in Live \/ c = n
      BY <1>10
    <3>4. \A c : c \in connList'[q] <=> c \in connList[q] \/ (c = n /\ q = r)
      <4>1. CASE q = r
        BY <4>1, <2>1
      <4>2. CASE q # r
        BY <4>2, <2>1
      <4> QED
        BY <4>1, <4>2
    <3> QED
      BY <1>10, <2>3, <3>1, <3>2, <3>3, <3>4
  <2>5. \A q \in Callbacks : connectMap'[q] = {c \in Live' : conn'[c].cb = q}
    <3> SUFFICES ASSUME NEW q \in Callbacks
                 PROVE  \A c : c \in connectMap'[q] <=> c \in Live' /\ conn'[c].cb = q
      OBVIOUS
    <3>1. \A c : c \in connectMap[q] <=> c \in Live /\ conn[c].cb = q
      BY DEF IInv, ListsAgree
    <3>2. conn'[n].cb = cb
      BY <1>1, <1>4
    <3>3. \A c : c \in Live' <=> c \in Live \/ c = n
      BY <1>10
    <3>4. \A c : c \in connectMap'[q] <=> c \in connectMap[q] \/ (c = n /\ q = cb)
      <4>1. CASE q = cb
        BY <4>1, <2>2
      <4>2. CASE q # cb
        BY <4>2, <2>2
      <4> QED
        BY <4>1, <4>2
    <3> QED
      BY <1>10, <2>3, <3>1, <3>2, <3>3, <3>4
  <2> QED
    BY <2>4, <2>5 DEF ListsAgree
<1>12. RecipientsAgree'
  BY <1>2, <1>7 DEF Register, RecipientsAgree, IInv, BooksOK
<1>13. OneConnPerTarget'
  <2>1. \A d \in Live : ~ (conn[d].cb = cb /\ conn[d].svc = r)
    BY <1>2 DEF Registration, GetAbilityConnectedRecord, IInv, ListsAgree
  <2>2. \A c \in Live : conn'[c] = conn[c]
    BY <1>4, <1>10 DEF Live
  <2> QED
    BY <1>1, <1>4, <1>10, <2>1, <2>2 DEF IInv, OneConnPerTarget
<1>14. CountsAgree'
  <2> SUFFICES ASSUME NEW p \in Pids
               PROVE  pidCount'[p] = Cardinality({c \in Live' : CallerPid[conn'[c].cb] = p})
    BY DEF CountsAgree
  <2> DEFINE A == {c \in Live : CallerPid[conn[c].cb] = p}
  <2>1. IsFiniteSet(A) /\ n \notin A
    BY <1>10, ConnsFinite, FS_Subset DEF Live
  <2>2. \A c \in Live : conn'[c] = conn[c]
    BY <1>4, <1>10 DEF Live
  <2>3. {c \in Live' : CallerPid[conn'[c].cb] = p}
           = IF CallerPid[cb] = p THEN A \cup {n} ELSE A
    BY <1>1, <1>4, <1>10, <2>2
  <2>4. pidCount[p] = Cardinality(A)
    BY DEF IInv, CountsAgree
  <2>5. pidCount'[p] = IF CallerPid[cb] = p THEN pidCount[p] + 1 ELSE pidCount[p]
    BY <1>2, <1>7, CallerAssumption DEF Register, IInv, BooksOK
  <2> HIDE DEF A
  <2> QED
    BY <2>1, <2>3, <2>4, <2>5, FS_AddElement
<1> QED
  BY <1>5, <1>6, <1>8, <1>9, <1>11, <1>12, <1>13, <1>14 DEF IInv

\* Whatever a step does to the connections, none of them goes back.
LEMMA OnlyForward ==
    ASSUME IInv, BookStep \/ \E cb, r : Registration(cb, r)
    PROVE  \A c \in Conns : Rank(conn[c].state) <= Rank(conn'[c].state)
<1>1. \A c \in Conns : conn[c].state \in ConnStates
  BY DEF IInv, ConnOK, ConnRec
<1>2. CASE BookStep
  <2>1. PICK S : Advance(S)
    BY <1>2 DEF BookStep
  <2>2. \A c \in Conns : \/ Forward(conn[c].state, conn'[c].state)
                         \/ conn'[c].state = "DISCONNECTED"
    BY <2>1 DEF Advance
  <2> QED
    BY <1>1, <2>2 DEF Forward, ConnStates, Rank
<1>3. CASE \E cb, r : Registration(cb, r)
  <2>1. PICK cb, r : Registration(cb, r)
    BY <1>3
  <2>2. NextConn \in Conns /\ conn[NextConn].state = "INIT"
    BY <2>1, NextIsFresh DEF Registration, IInv
  <2>3. \A c \in Conns : \/ conn'[c] = conn[c]
                         \/ /\ conn[c].state = "INIT"
                            /\ conn'[c].state \in {"CONNECTING", "CONNECTED", "DISCONNECTING"}
    BY <2>1, <2>2 DEF Registration, IInv, ConnOK
  <2> QED
    BY <1>1, <2>3 DEF ConnStates, Rank
<1> QED
  BY <1>2, <1>3
-------------------------------------------------------------------------------
(* What the operators on connection records return.                        *)

\* Ending a connection keeps whose it is.
LEMMA DroppedFacts ==
    ASSUME NEW x \in ConnRec
    PROVE  /\ Dropped(x) \in ConnRec
           /\ Dropped(x).cb = x.cb /\ Dropped(x).svc = x.svc
           /\ Dropped(x).state = "DISCONNECTED"
  BY DEF Dropped, ConnRec, ConnStates, ConnTasks

\* A connection that is answered is CONNECTED or DISCONNECTING.
LEMMA CompletedFacts ==
    ASSUME NEW x \in ConnRec, NEW remote, NEW fails
    PROVE  /\ Completed(x, remote, fails) \in ConnRec
           /\ Completed(x, remote, fails).cb = x.cb /\ Completed(x, remote, fails).svc = x.svc
           /\ Completed(x, remote, fails).state \in {"CONNECTED", "DISCONNECTING"}
<1>1. CASE remote /\ fails
  BY <1>1 DEF Completed, ConnRec, ConnStates, ConnTasks
<1>2. CASE remote /\ ~ fails
  BY <1>2 DEF Completed, ConnRec, ConnStates, ConnTasks
<1>3. CASE ~ remote
  BY <1>3 DEF Completed, ConnRec, ConnStates, ConnTasks
<1> QED
  BY <1>1, <1>2, <1>3

\* Tasks are armed and cancelled without touching the rest.
LEMMA TasksFacts ==
    ASSUME NEW x \in ConnRec, NEW T, T \subseteq ConnTasks
    PROVE  /\ [x EXCEPT !.tasks = T] \in ConnRec
           /\ [x EXCEPT !.tasks = T].cb = x.cb /\ [x EXCEPT !.tasks = T].svc = x.svc
           /\ [x EXCEPT !.tasks = T].state = x.state /\ [x EXCEPT !.tasks = T].tasks = T
  BY DEF ConnRec

\* Disconnecting advances the last connections of their services and ends the
\* other ones.
LEMMA DisconnectingFacts ==
    ASSUME IInv, NEW P, P \subseteq Conns, \A c \in P : conn[c].state = "CONNECTED"
    PROVE  /\ LastOnes(P) \subseteq P
           /\ Disconnecting(P) \in [Conns -> ConnRec]
           /\ \A c \in Conns :
                 /\ Disconnecting(P)[c].cb = conn[c].cb /\ Disconnecting(P)[c].svc = conn[c].svc
                 /\ c \in P \ LastOnes(P) => Disconnecting(P)[c].state = "DISCONNECTED"
                 /\ c \in LastOnes(P) => Disconnecting(P)[c].state = "DISCONNECTING"
                 /\ c \notin P => Disconnecting(P)[c] = conn[c]
<1> DEFINE y(c) == [conn[c] EXCEPT !.state = "DISCONNECTING", !.tasks = @ \cup {"disconnect"}]
<1>1. LastOnes(P) \subseteq P
  BY DEF LastOnes
<1>2. \A c \in Conns : conn[c] \in ConnRec
  BY DEF IInv, ConnOK
<1>3. \A c \in Conns : /\ y(c) \in ConnRec /\ y(c).cb = conn[c].cb /\ y(c).svc = conn[c].svc
                       /\ y(c).state = "DISCONNECTING"
  BY <1>2 DEF ConnRec, ConnStates, ConnTasks
<1> HIDE DEF y
<1>4. Disconnecting(P) = [c \in Conns |-> IF c \in LastOnes(P) THEN y(c)
                                          ELSE IF c \in P THEN Dropped(conn[c]) ELSE conn[c]]
  BY DEF Disconnecting, y
<1>5. \A c \in Conns : Disconnecting(P)[c] = IF c \in LastOnes(P) THEN y(c)
                                             ELSE IF c \in P THEN Dropped(conn[c]) ELSE conn[c]
  BY <1>4
<1>6. \A c \in Conns : Disconnecting(P)[c] \in ConnRec
  BY <1>2, <1>3, <1>5, DroppedFacts
<1>7. Disconnecting(P) \in [Conns -> ConnRec]
  BY <1>4, <1>6
<1> QED
  BY <1>1, <1>2, <1>3, <1>5, <1>7, DroppedFacts

\* When a record leaves service its connections end.
LEMMA DropConnsAdvance ==
    ASSUME IInv, NEW S, S \subseteq Conns, \A c \in S : conn[c].state # "INIT",
           conn' = DropConns(S)
    PROVE  Advance(S)
<1> DEFINE y(c) == [Dropped(conn[c]) EXCEPT !.tasks = @ \cap {"running"}]
<1>1. \A c \in Conns : conn[c] \in ConnRec
  BY DEF IInv, ConnOK
<1>2. \A c \in Conns : /\ y(c) \in ConnRec /\ y(c).cb = conn[c].cb /\ y(c).svc = conn[c].svc
                       /\ y(c).state = "DISCONNECTED"
  BY <1>1 DEF Dropped, ConnRec, ConnStates, ConnTasks
<1> HIDE DEF y
<1>3. conn' = [c \in Conns |-> IF c \in S THEN y(c) ELSE conn[c]]
  BY DEF DropConns, y
<1>4. \A c \in Conns : conn'[c] = IF c \in S THEN y(c) ELSE conn[c]
  BY <1>3
<1>5. \A c \in Conns : conn'[c] \in ConnRec
  BY <1>1, <1>2, <1>4
<1>6. conn' \in [Conns -> ConnRec]
  BY <1>3, <1>5
<1>7. \A c \in Conns : conn[c].state = "INIT" => conn'[c].tasks = {}
  BY <1>4 DEF IInv, ConnOK
<1> QED
  BY <1>2, <1>4, <1>6, <1>7 DEF Advance, Forward

\* A step that changes nothing but tasks of created connections.
LEMMA TasksAdvance ==
    ASSUME IInv, conn' \in [Conns -> ConnRec],
           \A c \in Conns : /\ conn'[c].cb = conn[c].cb /\ conn'[c].svc = conn[c].svc
                            /\ conn'[c].state = conn[c].state
                            /\ conn[c].state = "INIT" => conn'[c].tasks = {}
    PROVE  Advance({})
  BY DEF Advance, Forward

\* A step that leaves all connections alone ends none.
LEMMA ConnSame ==
    ASSUME IInv, UNCHANGED conn
    PROVE  Advance({})
  BY TasksAdvance DEF IInv, ConnOK

\* Arming CONNECT_TIMEOUT.
LEMMA ConnectTimerAdvance ==
    ASSUME IInv, NEW r \in Recs, conn' = ConnectTimer(conn, connList[r])
    PROVE  Advance({})
<1> DEFINE W == {c \in connList[r] : conn[c].state = "CONNECTING"}
<1>1. CASE W = {}
  BY <1>1, ConnSame DEF ConnectTimer
<1>2. CASE W # {}
  <2>1. W \subseteq Conns
    BY ListedIsLive
  <2>2. First(W) \in W
    BY <1>2, <2>1, FirstIn
  <2> DEFINE f == First(W)
  <2>3. f \in Conns /\ conn[f].state = "CONNECTING" /\ conn[f] \in ConnRec
    BY <2>1, <2>2 DEF IInv, ConnOK
  <2>4. conn' = [conn EXCEPT ![f] = [conn[f] EXCEPT !.tasks = conn[f].tasks \cup {"connect"}]]
    BY <1>2, <2>3 DEF ConnectTimer, IInv, ConnOK
  <2> HIDE DEF f
  <2>5. conn[f].tasks \cup {"connect"} \subseteq ConnTasks
    BY <2>3 DEF ConnRec, ConnTasks
  <2> QED
    BY <2>3, <2>4, <2>5, TasksFacts, TasksAdvance DEF IInv, ConnOK
<1> QED
  BY <1>1, <1>2
-------------------------------------------------------------------------------
(* Every action but ConnectAbilityLocked is a BookStep.                    *)

\* A step that touches neither connections nor books.
LEMMA QuietStep ==
    ASSUME IInv, UNCHANGED <<conn, books, cleaning>>
    PROVE  BookStep
<1>1. Advance({})
  BY ConnSame
<1>2. Remove({}) /\ CleaningStep
  BY NothingRemoved, CleaningSame
<1> QED
  BY <1>1, <1>2 DEF BookStep

\* Only tasks of connections change.
LEMMA TasksStep ==
    ASSUME IInv, Advance({}), UNCHANGED <<books, cleaning>>
    PROVE  BookStep
<1>1. Remove({}) /\ CleaningStep
  BY NothingRemoved, CleaningSame
<1> QED
  BY <1>1 DEF BookStep

\* A set of connections ends and is unregistered.
LEMMA RemoveStep ==
    ASSUME IInv, NEW S, Advance(S), Remove(S), UNCHANGED cleaning
    PROVE  BookStep
<1>1. CleaningStep
  BY CleaningSame
<1> QED
  BY <1>1 DEF BookStep

\* ConnectAbilityLocked, in each of its cases, registers one fresh connection.
LEMMA ConnectIsRegistration ==
    ASSUME IInv, NEW k \in Keys, NEW cb \in Callbacks, ConnectAbilityLocked(k, cb)
    PROVE  \E r : Registration(cb, r)
<1> DEFINE loaded == serviceMap[k] # NoRec
           r      == IF loaded THEN serviceMap[k] ELSE NextRec
           new    == [cb |-> cb, svc |-> r, state |-> "CONNECTING", tasks |-> {}]
<1>1. r \in Recs /\ NextConn \in Conns /\ GetAbilityConnectedRecord(cb, r) = {}
      /\ Register(NextConn, cb, r) /\ UNCHANGED cleaning
  BY DEF ConnectAbilityLocked
<1>2. \/ conn' = [conn EXCEPT ![NextConn] = new]
      \/ \E fails \in MayRefuse(cb) :
            conn' = [conn EXCEPT ![NextConn] = Completed(new, ability[r].remote, fails)]
      \/ conn' = [conn EXCEPT ![NextConn] = [new EXCEPT !.tasks = {"connect"}]]
  BY DEF ConnectAbilityLocked, HandleActiveAbility
<1> HIDE DEF r
<1>3. new \in ConnRec /\ new.cb = cb /\ new.svc = r /\ new.state = "CONNECTING"
  BY <1>1 DEF ConnRec, ConnStates
<1> HIDE DEF new
<1>4. \E y \in ConnRec : /\ y.cb = cb /\ y.svc = r
                         /\ y.state \in {"CONNECTING", "CONNECTED", "DISCONNECTING"}
                         /\ conn' = [conn EXCEPT ![NextConn] = y]
  <2>1. CASE conn' = [conn EXCEPT ![NextConn] = new]
    BY <1>3, <2>1
  <2>2. CASE \E fails \in MayRefuse(cb) :
               conn' = [conn EXCEPT ![NextConn] = Completed(new, ability[r].remote, fails)]
    <3>1. PICK fails, y : /\ y = Completed(new, ability[r].remote, fails)
                          /\ conn' = [conn EXCEPT ![NextConn] = y]
      BY <2>2
    <3>2. y \in ConnRec /\ y.cb = cb /\ y.svc = r /\ y.state \in {"CONNECTED", "DISCONNECTING"}
      BY <1>3, <3>1, CompletedFacts
    <3> QED
      BY <3>1, <3>2
  <2>3. CASE conn' = [conn EXCEPT ![NextConn] = [new EXCEPT !.tasks = {"connect"}]]
    <3>1. {"connect"} \subseteq ConnTasks
      BY DEF ConnTasks
    <3>2. PICK y : y = [new EXCEPT !.tasks = {"connect"}]
      OBVIOUS
    <3>3. y \in ConnRec /\ y.cb = cb /\ y.svc = r /\ y.state = "CONNECTING"
      BY <1>3, <3>1, <3>2, TasksFacts
    <3> QED
      BY <2>3, <3>2, <3>3
  <2> QED
    BY <1>2, <2>1, <2>2, <2>3
<1> QED
  BY <1>1, <1>4 DEF Registration

\* DisconnectAbilityLocked ends the connections that are not the last of
\* their service, and only those.
LEMMA DisconnectStep ==
    ASSUME IInv, NEW cb \in Callbacks, DisconnectAbilityLocked(cb)
    PROVE  BookStep
<1> DEFINE P == {c \in connectMap[cb] : \A d \in connectMap[cb] : d <= c => conn[d].state = "CONNECTED"}
           S == P \ LastOnes(P)
<1>1. P \subseteq Conns /\ \A c \in P : conn[c].state = "CONNECTED"
  BY ListedIsLive DEF Conns
<1>2. conn' = Disconnecting(P) /\ Remove(S) /\ UNCHANGED cleaning
  BY DEF DisconnectAbilityLocked
<1> HIDE DEF P
<1>3. Advance(S)
  BY <1>1, <1>2, DisconnectingFacts DEF Advance, Forward, IInv, ConnOK
<1> QED
  BY <1>2, <1>3, RemoveStep

\* The death of a client ends its connections, except the ones that are
\* disconnected through the service.
LEMMA CallbackDiedStep ==
    ASSUME IInv, NEW cb \in Callbacks, HandleCallBackDiedTask(cb)
    PROVE  BookStep
<1> DEFINE L     == connectMap[cb]
           P     == InState(L, "CONNECTED")
           F     == L \ P
           gone  == F \cup (P \ LastOnes(P))
           empty == {r \in Recs : Emptied(r, F)}
           never == {r \in empty : ability[r].startId = 0 /\ ability[r].byConnect}
           idle  == {r \in empty \ never : ability[r].state = "ACTIVE"}
           calm  == {c \in F : conn[c].svc \in idle}
           y(c)  == [Dropped(conn[c]) EXCEPT !.tasks = @ \ {"connect"}]
<1>1. L \subseteq Conns /\ \A c \in L : conn[c].state # "INIT"
  BY ListedIsLive
<1>2. P \subseteq Conns /\ \A c \in P : conn[c].state = "CONNECTED"
  BY <1>1 DEF InState
<1>3. /\ conn' = [c \in Conns |-> IF c \in calm THEN y(c)
                                   ELSE IF c \in F THEN Dropped(conn[c]) ELSE Disconnecting(P)[c]]
      /\ Remove(gone) /\ UNCHANGED cleaning
  BY DEF HandleCallBackDiedTask
<1>4. calm \subseteq F
  OBVIOUS
<1>5. \A c \in Conns : conn[c] \in ConnRec
  BY DEF IInv, ConnOK
<1>6. \A c \in Conns : /\ y(c) \in ConnRec /\ y(c).cb = conn[c].cb /\ y(c).svc = conn[c].svc
                       /\ y(c).state = "DISCONNECTED"
  BY <1>5 DEF Dropped, ConnRec, ConnStates, ConnTasks
<1> HIDE DEF y, calm
<1>7. \A c \in Conns : conn'[c] = IF c \in calm THEN y(c)
                                  ELSE IF c \in F THEN Dropped(conn[c]) ELSE Disconnecting(P)[c]
  BY <1>3
<1> HIDE DEF P
<1>8. \A c \in Conns : c \in F => /\ conn'[c] \in ConnRec /\ conn'[c].cb = conn[c].cb
                                   /\ conn'[c].svc = conn[c].svc /\ conn'[c].state = "DISCONNECTED"
  BY <1>5, <1>6, <1>7, DroppedFacts
<1>9. \A c \in Conns : c \notin F => conn'[c] = Disconnecting(P)[c]
  BY <1>4, <1>7
<1>10. Disconnecting(P) \in [Conns -> ConnRec]
  BY <1>2, DisconnectingFacts
<1>11. \A c \in Conns : conn'[c] \in ConnRec
  BY <1>8, <1>9, <1>10
<1>12. conn' \in [Conns -> ConnRec]
  BY <1>3, <1>11
<1>13. Advance(gone)
  BY <1>1, <1>2, <1>8, <1>9, <1>12, DisconnectingFacts DEF Advance, Forward, IInv, ConnOK
<1> QED
  BY <1>3, <1>13, RemoveStep

\* HandleExtensionDisconnectTask: the client could not be told.
LEMMA RefusedStep ==
    ASSUME IInv, NEW c \in Conns, HandleExtensionDisconnectTask(c)
    PROVE  BookStep
<1> DEFINE P  == IF conn[c].state = "CONNECTED" THEN {c} ELSE {}
           cn == Disconnecting(P)
           S  == P \ LastOnes(P)
<1>1. P \subseteq Conns /\ \A d \in P : conn[d].state = "CONNECTED"
  OBVIOUS
<1>2. /\ "fail" \in conn[c].tasks
      /\ conn' = [cn EXCEPT ![c].tasks = @ \ {"fail"}] /\ Remove(S) /\ UNCHANGED cleaning
  BY DEF HandleExtensionDisconnectTask
<1>3. conn[c].state # "INIT"
  BY <1>2 DEF IInv, ConnOK
<1> HIDE DEF P
<1>4. cn \in [Conns -> ConnRec]
  BY <1>1, DisconnectingFacts
<1>5. \A d \in Conns :
         /\ cn[d].cb = conn[d].cb /\ cn[d].svc = conn[d].svc
         /\ d \in S => cn[d].state = "DISCONNECTED"
         /\ d \in LastOnes(P) => cn[d].state = "DISCONNECTING"
         /\ d \notin P => cn[d] = conn[d]
  BY <1>1, DisconnectingFacts
<1> HIDE DEF cn
<1>6. conn' = [cn EXCEPT ![c] = [cn[c] EXCEPT !.tasks = cn[c].tasks \ {"fail"}]]
  BY <1>2, <1>4
<1>7. cn[c].tasks \ {"fail"} \subseteq ConnTasks
  BY <1>4 DEF ConnRec
<1>8. /\ conn' \in [Conns -> ConnRec]
      /\ \A d \in Conns : conn'[d].cb = cn[d].cb /\ conn'[d].svc = cn[d].svc /\ conn'[d].state = cn[d].state
      /\ \A d \in Conns : d # c => conn'[d] = cn[d]
  BY <1>4, <1>6, <1>7, TasksFacts
<1>9. \A d \in Conns : conn[d].state = "INIT" => conn'[d].tasks = {}
  BY <1>1, <1>3, <1>5, <1>8 DEF IInv, ConnOK
<1>10. Advance(S)
  BY <1>1, <1>5, <1>8, <1>9 DEF Advance, Forward
<1> QED
  BY <1>2, <1>10, RemoveStep

\* The service's answer to a connect call advances those who wait.
LEMMA ConnectDoneStep ==
    ASSUME IInv, NEW r \in Recs, NEW remote, ScheduleConnectAbilityDone(r, remote)
    PROVE  BookStep
<1> DEFINE C == GetConnectingRecordList(r)
<1>1. C \subseteq Conns /\ \A c \in C : conn[c].state = "CONNECTING"
  BY ListedIsLive DEF GetConnectingRecordList, InState
<1>2. PICK F : conn' = [c \in Conns |-> IF c \in C THEN Completed(conn[c], remote, c \in F) ELSE conn[c]]
  BY DEF ScheduleConnectAbilityDone
<1>3. UNCHANGED <<books, cleaning>>
  BY DEF ScheduleConnectAbilityDone, books
<1> HIDE DEF C
<1>4. \A c \in Conns : conn'[c] = IF c \in C THEN Completed(conn[c], remote, c \in F) ELSE conn[c]
  BY <1>2
<1>5. \A c \in Conns : conn[c] \in ConnRec
  BY DEF IInv, ConnOK
<1>6. \A c \in C : /\ conn'[c] \in ConnRec /\ conn'[c].cb = conn[c].cb /\ conn'[c].svc = conn[c].svc
                   /\ conn'[c].state \in {"CONNECTED", "DISCONNECTING"}
  <2> TAKE c \in C
  <2>1. PICK x, fails : x = conn[c] /\ fails = (c \in F)
    OBVIOUS
  <2>2. x \in ConnRec /\ conn'[c] = Completed(x, remote, fails)
    BY <1>1, <1>4, <1>5, <2>1
  <2> QED
    BY <2>1, <2>2, CompletedFacts
<1>7. conn' \in [Conns -> ConnRec]
  BY <1>2, <1>4, <1>5, <1>6
<1>8. Advance({})
  BY <1>1, <1>4, <1>6, <1>7 DEF Advance, Forward, IInv, ConnOK
<1> QED
  BY <1>3, <1>8, TasksStep

\* cn is conn but for the tasks of created connections.
ButForTasks(cn) ==
    /\ cn \in [Conns -> ConnRec]
    /\ \A c \in Conns : /\ cn[c].cb = conn[c].cb /\ cn[c].svc = conn[c].svc
                        /\ cn[c].state = conn[c].state
                        /\ conn[c].state = "INIT" => cn[c].tasks = {}

\* The first DISCONNECTING connection of the service ends, or nothing does.
LEMMA DisconnectDoneStep ==
    ASSUME IInv, NEW r \in Recs, NEW ab, NEW cn, ButForTasks(cn),
           DisconnectDone(r, ab, cn), UNCHANGED cleaning
    PROVE  BookStep
<1> DEFINE D == InState(connList[r], "DISCONNECTING")
           f == First(D)
<1>1. CASE InService(r) /\ D # {} /\ ab[r].state = "ACTIVE"
  <2>1. Remove({f}) /\ conn' = [cn EXCEPT ![f] = Dropped(cn[f])]
    BY <1>1 DEF DisconnectDone
  <2>2. D \subseteq Conns /\ \A c \in D : conn[c].state = "DISCONNECTING"
    BY ListedIsLive DEF InState
  <2>3. f \in D
    BY <1>1, <2>2, FirstIn
  <2> HIDE DEF D, f
  <2>4. Advance({f})
    BY <2>1, <2>2, <2>3, DroppedFacts DEF Advance, Forward, ButForTasks
  <2> QED
    BY <2>1, <2>4, RemoveStep
<1>2. CASE ~ (InService(r) /\ D # {} /\ ab[r].state = "ACTIVE")
  <2>1. conn' = cn /\ UNCHANGED books
    BY <1>2 DEF DisconnectDone, books
  <2>2. Advance({})
    BY <2>1, TasksAdvance DEF ButForTasks
  <2> QED
    BY <2>1, <2>2, TasksStep
<1> QED
  BY <1>1, <1>2

\* A disconnect timeout, or the task of a null remote object.
LEMMA DisconnectTaskStep ==
    ASSUME IInv, NEW c \in Conns, NEW task, DisconnectTask(c, task)
    PROVE  BookStep
<1> DEFINE cn == [conn EXCEPT ![c].tasks = @ \ {task}]
<1>1. task \in conn[c].tasks /\ DisconnectDone(conn[c].svc, ability, cn) /\ UNCHANGED cleaning
  BY DEF DisconnectTask
<1>2. conn[c].state # "INIT" /\ conn[c].svc \in Recs /\ conn[c] \in ConnRec
  BY <1>1 DEF IInv, ConnOK
<1>3. conn[c].tasks \ {task} \subseteq ConnTasks
  BY <1>2 DEF ConnRec
<1>4. cn = [conn EXCEPT ![c] = [conn[c] EXCEPT !.tasks = conn[c].tasks \ {task}]]
  BY DEF IInv, ConnOK
<1> HIDE DEF cn
<1>5. ButForTasks(cn)
  <2>1. cn \in [Conns -> ConnRec]
    BY <1>2, <1>3, <1>4, TasksFacts DEF IInv, ConnOK
  <2>2. \A d \in Conns : d # c => cn[d] = conn[d]
    BY <1>4 DEF IInv, ConnOK
  <2>3. cn[c].cb = conn[c].cb /\ cn[c].svc = conn[c].svc /\ cn[c].state = conn[c].state
    BY <1>2, <1>3, <1>4, TasksFacts DEF IInv, ConnOK
  <2> QED
    BY <1>2, <2>1, <2>2, <2>3 DEF ButForTasks, IInv, ConnOK
<1>6. PICK r, ab, x : r = conn[c].svc /\ ab = ability /\ x = cn
  OBVIOUS
<1>7. r \in Recs /\ ButForTasks(x) /\ DisconnectDone(r, ab, x)
  BY <1>1, <1>2, <1>5, <1>6
<1> QED
  BY <1>1, <1>7, DisconnectDoneStep

\* The service's answer to a disconnect call.
LEMMA DisconnectAnswerStep ==
    ASSUME IInv, NEW r \in Recs, ScheduleDisconnectAbilityDone(r)
    PROVE  BookStep
<1>1. DisconnectDone(r, Took(r, "disconnect"), conn) /\ UNCHANGED cleaning
  BY DEF ScheduleDisconnectAbilityDone
<1>2. ButForTasks(conn)
  BY DEF ButForTasks, IInv, ConnOK
<1>3. PICK ab, x : ab = Took(r, "disconnect") /\ x = conn
  OBVIOUS
<1> QED
  BY <1>1, <1>2, <1>3, DisconnectDoneStep

\* TerminateAbility and StopServiceAbility end all connections of the service.
LEMMA TerminateStep ==
    ASSUME IInv, NEW r \in Recs, Terminate(r)
    PROVE  BookStep
<1>1. conn' = DropConns(connList[r]) /\ Remove(connList[r]) /\ UNCHANGED cleaning
  BY DEF Terminate
<1>2. Advance(connList[r])
  BY <1>1, DropConnsAdvance, ListedIsLive
<1> QED
  BY <1>1, <1>2, RemoveStep

\* A start that failed or timed out ends the connections that wait.
LEMMA StartTimeoutStep ==
    ASSUME IInv, NEW r \in Recs, NEW ab, StartTimeout(r, ab)
    PROVE  BookStep
<1> DEFINE S == GetConnectingRecordList(r)
<1>1. conn' = DropConns(S) /\ Remove(S) /\ UNCHANGED cleaning
  BY DEF StartTimeout
<1>2. S \subseteq Conns /\ \A c \in S : conn[c].state # "INIT"
  BY ListedIsLive DEF GetConnectingRecordList, InState
<1> HIDE DEF S
<1>3. Advance(S)
  BY <1>1, <1>2, DropConnsAdvance
<1> QED
  BY <1>1, <1>3, RemoveStep

\* CleanActivatingTimeoutAbilityInner ends the connections it had copied, some of
\* which may be over already.
LEMMA CleanStep ==
    ASSUME IInv, NEW r \in Recs, CleanActivatingTimeoutAbilityInner(r)
    PROVE  BookStep
<1> DEFINE S == cleaning[r]
<1>1. /\ S # NoCopy /\ conn' = DropConns(S) /\ Remove(S)
      /\ cleaning' = [cleaning EXCEPT ![r] = NoCopy]
  BY DEF CleanActivatingTimeoutAbilityInner
<1>2. S \subseteq Conns /\ \A c \in S : conn[c].state # "INIT"
  BY <1>1 DEF IInv, CleaningOK
<1>3. Advance(S)
  BY <1>1, <1>2, DropConnsAdvance
<1>4. CleaningStep
  BY <1>1 DEF CleaningStep, IInv, CleaningOK
<1> QED
  BY <1>1, <1>3, <1>4 DEF BookStep

\* InactiveTimeout and HandleCommandTimeoutTask up to the lock.
LEMMA CopyStep ==
    ASSUME IInv, NEW r \in Recs, CopyIfNotActive(r),
           UNCHANGED <<conn, books>>
    PROVE  BookStep
<1>1. Advance({}) /\ Remove({})
  BY ConnSame, NothingRemoved
<1>2. CleaningStep
  <2>1. connList[r] \subseteq NoCopy
    BY ListedIsLive DEF NoCopy
  <2> QED
    BY <2>1 DEF CopyIfNotActive, CleaningStep, IInv, CleaningOK
<1> QED
  BY <1>1, <1>2 DEF BookStep

\* CONNECT_TIMEOUT fires.
LEMMA ConnectTimeoutStep ==
    ASSUME IInv, NEW c \in Conns, ConnectTimeout(c)
    PROVE  BookStep
<1> DEFINE T == (conn[c].tasks \ {"connect"}) \cup {"running"}
<1>1. /\ "connect" \in conn[c].tasks
      /\ conn' = [conn EXCEPT ![c] = [conn[c] EXCEPT !.tasks = T]]
      /\ UNCHANGED <<books, cleaning>>
  BY DEF ConnectTimeout, books, IInv, ConnOK
<1>2. conn[c].state # "INIT" /\ conn[c] \in ConnRec
  BY <1>1 DEF IInv, ConnOK
<1>3. T \subseteq ConnTasks
  BY <1>2 DEF ConnRec, ConnTasks
<1> HIDE DEF T
<1>4. Advance({})
  BY <1>1, <1>2, <1>3, TasksFacts, TasksAdvance DEF IInv, ConnOK
<1> QED
  BY <1>1, <1>4, TasksStep

\* HandleConnectTimeoutTask ends all connections of the service.
LEMMA ConnectTimeoutTaskStep ==
    ASSUME IInv, NEW c \in Conns, HandleConnectTimeoutTask(c)
    PROVE  BookStep
<1> DEFINE S    == connList[conn[c].svc]
           y(d) == IF d \in S THEN [Dropped(conn[d]) EXCEPT !.tasks = @ \ {"connect"}] ELSE conn[d]
           z(d) == IF d = c THEN [y(d) EXCEPT !.tasks = @ \ {"running"}] ELSE y(d)
<1>1. /\ "running" \in conn[c].tasks
      /\ conn' = [d \in Conns |-> z(d)]
      /\ Remove(S) /\ UNCHANGED cleaning
  BY DEF HandleConnectTimeoutTask
<1>2. conn[c].state # "INIT" /\ conn[c].svc \in Recs /\ \A d \in Conns : conn[d] \in ConnRec
  BY <1>1 DEF IInv, ConnOK
<1>3. S \subseteq Conns /\ \A d \in S : conn[d].state # "INIT"
  BY <1>2, ListedIsLive
<1> HIDE DEF S
<1>4. \A d \in Conns : /\ y(d) \in ConnRec /\ y(d).cb = conn[d].cb /\ y(d).svc = conn[d].svc
                       /\ d \in S => y(d).state = "DISCONNECTED"
                       /\ d \notin S => y(d) = conn[d]
  BY <1>2 DEF Dropped, ConnRec, ConnStates, ConnTasks
<1> HIDE DEF y
<1>5. \A d \in Conns : /\ z(d) \in ConnRec /\ z(d).cb = y(d).cb /\ z(d).svc = y(d).svc
                       /\ z(d).state = y(d).state /\ (d # c => z(d) = y(d))
  BY <1>4 DEF ConnRec
<1> HIDE DEF z
<1>6. conn' \in [Conns -> ConnRec] /\ \A d \in Conns : conn'[d] = z(d)
  BY <1>1, <1>5
<1>7. ASSUME NEW d \in Conns, conn[d].state = "INIT"
      PROVE  conn'[d].tasks = {}
  <2>1. d # c /\ d \notin S
    BY <1>2, <1>3, <1>7
  <2>2. conn'[d] = conn[d]
    BY <1>4, <1>5, <1>6, <2>1
  <2> QED
    BY <1>7, <2>2 DEF IInv, ConnOK
<1>8. ASSUME NEW d \in Conns
      PROVE  /\ conn'[d].cb = conn[d].cb /\ conn'[d].svc = conn[d].svc
             /\ d \in S => conn'[d].state = "DISCONNECTED"
             /\ d \notin S => conn'[d].state = conn[d].state
  <2>1. /\ conn'[d].cb = y(d).cb /\ conn'[d].svc = y(d).svc
        /\ conn'[d].state = y(d).state
    BY <1>5, <1>6
  <2> QED
    BY <1>4, <2>1
<1>9. Advance(S)
  BY <1>3, <1>6, <1>7, <1>8 DEF Advance, Forward
<1> QED
  BY <1>1, <1>9, RemoveStep

\* The death of the service ends all its connections.
LEMMA AbilityDiedStep ==
    ASSUME IInv, NEW r \in Recs, HandleAbilityDiedTask(r)
    PROVE  BookStep
<1>1. conn' = DropConns(connList[r]) /\ Remove(connList[r]) /\ UNCHANGED cleaning
  BY DEF HandleAbilityDiedTask
<1>2. Advance(connList[r])
  BY <1>1, DropConnsAdvance, ListedIsLive
<1> QED
  BY <1>1, <1>2, RemoveStep
-------------------------------------------------------------------------------
\* Initially there are no connections, and nothing knows of any.
LEMMA InitIInv == Init => IInv
<1> SUFFICES ASSUME Init PROVE IInv
  OBVIOUS
<1> USE DEF Init, Unused
<1>1. ConnOK
  BY DEF ConnOK, ConnRec, ConnStates
<1>2. Numbered
  <2>1. 0 \in 0..MaxConns
    BY BoundAssumption
  <2>2. \A c \in Conns : conn[c].state # "INIT" <=> c <= 0
    BY DEF Conns
  <2> QED
    BY <2>1, <2>2 DEF Numbered
<1>3. BooksOK /\ CleaningOK
  BY DEF BooksOK, CleaningOK
<1>4. Live = {}
  BY DEF Live
<1>5. ListsAgree /\ RecipientsAgree /\ OneConnPerTarget /\ CountsAgree
  BY <1>4, FS_EmptySet DEF ListsAgree, RecipientsAgree, OneConnPerTarget, CountsAgree
<1> QED
  BY <1>1, <1>2, <1>3, <1>5 DEF IInv

\* Every step is a registration or a BookStep.
LEMMA NextBooks ==
    ASSUME IInv, [Next]_vars
    PROVE  BookStep \/ \E cb, r : Registration(cb, r)
<1>1. CASE UNCHANGED vars
  BY <1>1, QuietStep DEF vars, books
<1>2. CASE Client
  <2>1. ASSUME NEW k \in Keys, StartAbility(k) PROVE BookStep
    BY <2>1, QuietStep DEF StartAbility, books
  <2>2. ASSUME NEW k \in Keys, StopServiceAbility(k) PROVE BookStep
    BY <2>2, TerminateStep DEF StopServiceAbility
  <2>3. ASSUME NEW k \in Keys, NEW cb \in Callbacks, ConnectAbilityLocked(k, cb)
        PROVE  \E r : Registration(cb, r)
    BY <2>3, ConnectIsRegistration
  <2>4. ASSUME NEW cb \in Callbacks, DisconnectAbilityLocked(cb) PROVE BookStep
    BY <2>4, DisconnectStep
  <2>5. ASSUME NEW cb \in Callbacks, CallbackDies(cb) PROVE BookStep
    BY <2>5, QuietStep DEF CallbackDies, books
  <2> QED
    BY <1>2, <2>1, <2>2, <2>3, <2>4, <2>5 DEF Client
<1>3. CASE Service
  <2>1. PICK r \in Recs :
          \/ AttachAbilityThread(r) \/ OnLoadAbilityFailed(r) \/ DispatchInactive(r)
          \/ \E remote : ScheduleConnectAbilityDone(r, remote)
          \/ ScheduleCommandAbilityDone(r) \/ ScheduleDisconnectAbilityDone(r)
          \/ TerminateAbility(r) \/ DispatchTerminate(r)
          \/ ServiceDies(r) \/ HandleProcessFrozen(r)
    BY <1>3 DEF Service
  <2>2. CASE AttachAbilityThread(r) \/ ServiceDies(r) \/ HandleProcessFrozen(r)
    BY <2>2, QuietStep DEF AttachAbilityThread, ServiceDies, HandleProcessFrozen, books
  <2>3. CASE OnLoadAbilityFailed(r)
    BY <2>3, StartTimeoutStep DEF OnLoadAbilityFailed
  <2>4. CASE DispatchInactive(r)
    <3>1. /\ conn' = conn \/ conn' = ConnectTimer(conn, connList[r])
          /\ UNCHANGED <<books, cleaning>>
      BY <2>4 DEF DispatchInactive, books
    <3>2. Advance({})
      BY <3>1, ConnSame, ConnectTimerAdvance
    <3> QED
      BY <3>1, <3>2, TasksStep
  <2>5. CASE \E remote : ScheduleConnectAbilityDone(r, remote)
    BY <2>5, ConnectDoneStep
  <2>6. CASE ScheduleCommandAbilityDone(r)
    <3>1. /\ conn' = conn \/ conn' = ConnectTimer(conn, connList[r])
          /\ UNCHANGED <<books, cleaning>>
      BY <2>6 DEF ScheduleCommandAbilityDone, books
    <3>2. Advance({})
      BY <3>1, ConnSame, ConnectTimerAdvance
    <3> QED
      BY <3>1, <3>2, TasksStep
  <2>7. CASE ScheduleDisconnectAbilityDone(r)
    BY <2>7, DisconnectAnswerStep
  <2>8. CASE TerminateAbility(r)
    BY <2>8, TerminateStep DEF TerminateAbility
  <2>9. CASE DispatchTerminate(r)
    BY <2>9, QuietStep DEF DispatchTerminate, TerminateDone, books
  <2> QED
    BY <2>1, <2>2, <2>3, <2>4, <2>5, <2>6, <2>7, <2>8, <2>9
<1>4. CASE Timer
  <2>1. ASSUME NEW k \in Keys, StartServiceTimeout(k) PROVE BookStep
    BY <2>1, QuietStep DEF StartServiceTimeout, books
  <2>2. ASSUME NEW r \in Recs, LoadTimeout(r) PROVE BookStep
    BY <2>2, QuietStep DEF LoadTimeout, books
  <2>3. ASSUME NEW r \in Recs, InactiveTimeout(r) PROVE BookStep
    BY <2>3, CopyStep DEF InactiveTimeout, books
  <2>4. ASSUME NEW r \in Recs, HandleStopTimeoutTask(r) PROVE BookStep
    BY <2>4, QuietStep DEF HandleStopTimeoutTask, TerminateDone, books
  <2>5. ASSUME NEW r \in Recs, NEW i, HandleCommandTimeoutTask(r, i) PROVE BookStep
    BY <2>5, CopyStep DEF HandleCommandTimeoutTask, books
  <2>6. ASSUME NEW c \in Conns, ConnectTimeout(c) PROVE BookStep
    BY <2>6, ConnectTimeoutStep
  <2>7. ASSUME NEW c \in Conns, DisconnectTimeout(c) PROVE BookStep
    BY <2>7, DisconnectTaskStep DEF DisconnectTimeout
  <2> QED
    BY <1>4, <2>1, <2>2, <2>3, <2>4, <2>5, <2>6, <2>7 DEF Timer
<1>5. CASE Task
  <2>1. ASSUME NEW k \in Keys, HandleRestartResidentTask(k) PROVE BookStep
    BY <2>1, QuietStep DEF HandleRestartResidentTask, books
  <2>2. ASSUME NEW cb \in Callbacks, HandleCallBackDiedTask(cb) PROVE BookStep
    BY <2>2, CallbackDiedStep
  <2>3. ASSUME NEW r \in Recs, HandleStartTimeoutTask(r) PROVE BookStep
    BY <2>3, StartTimeoutStep DEF HandleStartTimeoutTask
  <2>4. ASSUME NEW r \in Recs, CleanActivatingTimeoutAbilityInner(r) PROVE BookStep
    BY <2>4, CleanStep
  <2>5. ASSUME NEW r \in Recs, OnAbilityDied(r) \/ FrozenTask(r) PROVE BookStep
    BY <2>5, QuietStep DEF OnAbilityDied, FrozenTask, books
  <2>6. ASSUME NEW r \in Recs, HandleAbilityDiedTask(r) PROVE BookStep
    BY <2>6, AbilityDiedStep
  <2>7. ASSUME NEW c \in Conns, HandleConnectTimeoutTask(c) PROVE BookStep
    BY <2>7, ConnectTimeoutTaskStep
  <2>8. ASSUME NEW c \in Conns, NullRemoteTask(c) PROVE BookStep
    BY <2>8, DisconnectTaskStep DEF NullRemoteTask
  <2>9. ASSUME NEW c \in Conns, HandleExtensionDisconnectTask(c) PROVE BookStep
    BY <2>9, RefusedStep
  <2> QED
    BY <1>5, <2>1, <2>2, <2>3, <2>4, <2>5, <2>6, <2>7, <2>8, <2>9 DEF Task
<1> QED
  BY <1>1, <1>2, <1>3, <1>4, <1>5 DEF Next

\* The inductive step.
LEMMA NextIInv == IInv /\ [Next]_vars => IInv'
  BY NextBooks, BookStepIInv, RegistrationIInv

\* The inductive invariant holds in every state.
LEMMA AlwaysIInv == Spec => []IInv
  BY InitIInv, NextIInv, PTL DEF Spec
-------------------------------------------------------------------------------
(* What the operators of the model do to a record.                        *)

Timers == {"load", "inactive", "terminate"}
Tasks == {"startTimeout", "schedulerDied", "abilityDied", "frozen"}
AbilityRec == [key : Keys \cup {None}, state : States, byConnect : BOOLEAN,
               startId : Nat, proc : {"none", "loading", "up", "dead"},
               isConnected : BOOLEAN, told : BOOLEAN, remote : BOOLEAN,
               todo : [Msgs -> Nat], timers : SUBSET Timers, tasks : SUBSET Tasks,
               cmdTimers : SUBSET Nat]

\* The records a and b differ at most in the calls that were sent to the service.
SameBut(a, b) ==
    /\ b \in AbilityRec
    /\ b.key = a.key /\ b.state = a.state /\ b.byConnect = a.byConnect /\ b.startId = a.startId
    /\ b.proc = a.proc /\ b.isConnected = a.isConnected /\ b.timers = a.timers
    /\ b.tasks = a.tasks /\ b.cmdTimers = a.cmdTimers

\* What sending a call changes.
LEMMA SentFacts ==
    ASSUME NEW a \in AbilityRec, NEW m \in Msgs, NEW n \in Nat
    PROVE  /\ SameBut(a, Sent(a, m, n))
           /\ \A q \in Msgs : q # m => Sent(a, m, n).todo[q] = a.todo[q]
<1>1. CASE a.proc = "up"
  <2> DEFINE t == [a.todo EXCEPT ![m] = @ + n]
             b == [a EXCEPT !.todo = t]
  <2>1. Sent(a, m, n) = b
    BY <1>1 DEF Sent
  <2>2. a.todo \in [Msgs -> Nat]
    BY DEF AbilityRec
  <2>3. t \in [Msgs -> Nat] /\ \A q \in Msgs : q # m => t[q] = a.todo[q]
    BY <2>2
  <2> HIDE DEF t
  <2>4. SameBut(a, b) /\ b.todo = t
    BY <2>3 DEF AbilityRec, SameBut
  <2> QED
    BY <2>1, <2>3, <2>4
<1>2. CASE a.proc # "up"
  BY <1>2 DEF Sent, SameBut
<1> QED
  BY <1>1, <1>2

\* onConnect is called.
LEMMA ConnectSentFacts ==
    ASSUME NEW a \in AbilityRec
    PROVE  LET b == ConnectSent(a)
           IN  /\ b \in AbilityRec /\ b.isConnected = TRUE
               /\ b.key = a.key /\ b.state = a.state /\ b.byConnect = a.byConnect
               /\ b.startId = a.startId /\ b.proc = a.proc /\ b.timers = a.timers
               /\ b.tasks = a.tasks /\ b.cmdTimers = a.cmdTimers
<1> DEFINE s == Sent(a, "connect", 1)
<1>1. SameBut(a, s)
  BY SentFacts DEF Msgs
<1> HIDE DEF s
<1>2. ConnectSent(a) = [s EXCEPT !.isConnected = TRUE, !.told = TRUE]
  BY DEF ConnectSent, s
<1> QED
  BY <1>1, <1>2 DEF SameBut, AbilityRec

\* onDisconnect is called.
LEMMA DisconnectSentFacts ==
    ASSUME NEW a \in AbilityRec
    PROVE  LET b == DisconnectSent(a)
           IN  /\ b \in AbilityRec /\ b.isConnected = FALSE
               /\ b.key = a.key /\ b.state = a.state /\ b.byConnect = a.byConnect
               /\ b.startId = a.startId /\ b.proc = a.proc /\ b.timers = a.timers
               /\ b.tasks = a.tasks /\ b.cmdTimers = a.cmdTimers
               /\ b.todo["connect"] = a.todo["connect"] /\ b.todo["command"] = a.todo["command"]
<1> DEFINE s == Sent(a, "disconnect", 1)
<1>1. /\ SameBut(a, s)
      /\ s.todo["connect"] = a.todo["connect"] /\ s.todo["command"] = a.todo["command"]
  BY SentFacts DEF Msgs
<1> HIDE DEF s
<1>2. DisconnectSent(a) = [s EXCEPT !.isConnected = FALSE, !.told = FALSE]
  BY DEF DisconnectSent, s
<1> QED
  BY <1>1, <1>2 DEF SameBut, AbilityRec

\* The service is sent n start requests.
LEMMA CommandSentFacts ==
    ASSUME NEW a \in AbilityRec, NEW n \in Nat
    PROVE  LET b == CommandSent(a, n)
           IN  /\ b \in AbilityRec /\ b.startId = a.startId + n
               /\ b.key = a.key /\ b.state = a.state /\ b.byConnect = a.byConnect
               /\ b.isConnected = a.isConnected /\ b.proc = a.proc /\ b.timers = a.timers
               /\ b.tasks = a.tasks /\ a.cmdTimers \subseteq b.cmdTimers
               /\ n > 0 => b.cmdTimers # {}
<1> DEFINE ids == (a.startId + 1) .. (a.startId + n)
           s == [a EXCEPT !.startId = @ + n, !.cmdTimers = @ \cup ids]
<1>1. a.startId \in Nat /\ a.cmdTimers \subseteq Nat
  BY DEF AbilityRec
<1>2. ids \subseteq Nat /\ (n > 0 => a.startId + 1 \in ids)
  BY <1>1
<1>3. CommandSent(a, n) = Sent(s, "command", n)
  BY DEF CommandSent
<1> HIDE DEF ids
<1>4. s \in AbilityRec
  <2>1. a.startId + n \in Nat
    BY <1>1
  <2>2. (a.cmdTimers \cup ids) \in SUBSET Nat
    BY <1>1, <1>2
  <2> QED
    BY <2>1, <2>2 DEF AbilityRec
<1>5. /\ s.startId = a.startId + n /\ s.cmdTimers = a.cmdTimers \cup ids
      /\ s.key = a.key /\ s.state = a.state /\ s.byConnect = a.byConnect
      /\ s.isConnected = a.isConnected /\ s.proc = a.proc /\ s.timers = a.timers
      /\ s.tasks = a.tasks
  BY DEF AbilityRec
<1> HIDE DEF s
<1>6. SameBut(s, Sent(s, "command", n))
  BY <1>4, SentFacts DEF Msgs
<1> QED
  BY <1>2, <1>3, <1>5, <1>6 DEF SameBut

\* A record that leaves service.
LEMMA ForgottenFacts ==
    ASSUME NEW a \in AbilityRec
    PROVE  LET b == Forgotten(a)
           IN  /\ b \in AbilityRec /\ b.startId = 0 /\ b.key = a.key /\ b.state = a.state
               /\ b.todo = NoMsgs /\ b.tasks = a.tasks /\ b.proc = a.proc
<1> DEFINE T == IF a.key \in KeepAlive THEN a.cmdTimers ELSE {}
<1>1. T \subseteq Nat /\ NoMsgs \in [Msgs -> Nat]
  BY DEF AbilityRec, NoMsgs
<1>2. Forgotten(a) = [a EXCEPT !.byConnect = FALSE, !.startId = 0, !.isConnected = FALSE, !.told = FALSE,
              !.remote = FALSE, !.todo = NoMsgs, !.timers = {}, !.cmdTimers = T]
  BY DEF Forgotten
<1> HIDE DEF T, NoMsgs
<1>3. Forgotten(a) \in AbilityRec
  <2> DEFINE f == [a EXCEPT !.byConnect = FALSE, !.isConnected = FALSE, !.told = FALSE,
                            !.remote = FALSE]
             g == [f EXCEPT !.startId = 0, !.todo = NoMsgs, !.timers = {}, !.cmdTimers = T]
  <2>1. f \in AbilityRec
    BY DEF AbilityRec
  <2>2. Forgotten(a) = g
    BY <1>2 DEF AbilityRec
  <2> HIDE DEF f
  <2>3. g \in AbilityRec
    BY <1>1, <2>1 DEF AbilityRec
  <2> QED
    BY <2>2, <2>3
<1> QED
  BY <1>2, <1>3 DEF AbilityRec

\* A record that is told to terminate.
LEMMA TerminateSentFacts ==
    ASSUME NEW a \in AbilityRec
    PROVE  LET b == TerminateSent(a)
           IN  /\ b \in AbilityRec /\ b.startId = 0 /\ b.key = a.key /\ b.state = "TERMINATING"
               /\ b.todo["connect"] = 0 /\ b.todo["command"] = 0
<1> DEFINE f == Forgotten(a)
           s == [f EXCEPT !.state = "TERMINATING", !.timers = {"terminate"}]
<1>1. /\ f \in AbilityRec /\ f.startId = 0 /\ f.key = a.key /\ f.todo = NoMsgs
  BY ForgottenFacts
<1> HIDE DEF f
<1>2. s \in AbilityRec /\ s.startId = 0 /\ s.key = a.key /\ s.state = "TERMINATING"
      /\ s.todo = NoMsgs
  BY <1>1 DEF AbilityRec, States, Timers
<1>3. TerminateSent(a) = Sent(s, "terminate", 1)
  BY DEF TerminateSent, f
<1> HIDE DEF s
<1>4. NoMsgs["connect"] = 0 /\ NoMsgs["command"] = 0
  BY DEF NoMsgs, Msgs
<1>5. /\ SameBut(s, Sent(s, "terminate", 1))
      /\ Sent(s, "terminate", 1).todo["connect"] = s.todo["connect"]
      /\ Sent(s, "terminate", 1).todo["command"] = s.todo["command"]
  BY <1>2, SentFacts DEF Msgs
<1> QED
  BY <1>2, <1>3, <1>4, <1>5 DEF SameBut

\* The process of a service goes away.
LEMMA KilledFacts ==
    ASSUME NEW a \in AbilityRec
    PROVE  LET b == Killed(a)
           IN  /\ b \in AbilityRec /\ b.proc = "dead"
               /\ b.key = a.key /\ b.state = a.state /\ b.byConnect = a.byConnect
               /\ b.startId = a.startId /\ b.isConnected = a.isConnected /\ b.timers = a.timers
               /\ a.tasks \subseteq b.tasks /\ b.cmdTimers = a.cmdTimers
               /\ b.todo = a.todo \/ b.todo = NoMsgs
<1>1. NoMsgs \in [Msgs -> Nat]
  BY DEF NoMsgs
<1>2. CASE a.proc = "up"
  BY <1>1, <1>2 DEF AbilityRec, Killed, Tasks
<1>3. CASE a.proc # "up"
  BY <1>3 DEF AbilityRec, Killed
<1> QED
  BY <1>2, <1>3

\* A record that may lose its last connection.
LEMMA UnlinkedFacts ==
    ASSUME NEW a \in AbilityRec, NEW r, NEW S
    PROVE  LET b == Unlinked(a, r, S)
           IN  /\ b \in AbilityRec
               /\ b.isConnected => a.isConnected /\ ~Emptied(r, S)
               /\ b.key = a.key /\ b.state = a.state /\ b.byConnect = a.byConnect
               /\ b.startId = a.startId /\ b.proc = a.proc /\ b.timers = a.timers
               /\ b.tasks = a.tasks /\ b.cmdTimers = a.cmdTimers /\ b.todo = a.todo
<1>1. CASE Emptied(r, S)
  BY <1>1 DEF AbilityRec, Unlinked
<1>2. CASE ~Emptied(r, S)
  BY <1>2 DEF Unlinked
<1> QED
  BY <1>1, <1>2

\* A record that is made for a start or a connect request.
LEMMA LoadingFacts ==
    ASSUME NEW k \in Keys, NEW w \in BOOLEAN
    PROVE  LET b == Loading(k, w)
           IN  /\ b \in AbilityRec /\ b.key = k /\ b.state = "INITIAL" /\ b.byConnect = w
               /\ b.startId = 0 /\ b.proc = "loading" /\ b.isConnected = FALSE
               /\ b.todo = NoMsgs /\ b.timers = {"load"} /\ b.tasks = {} /\ b.cmdTimers = {}
<1>1. NoMsgs \in [Msgs -> Nat]
  BY DEF NoMsgs
<1> HIDE DEF NoMsgs
<1> QED
  BY <1>1 DEF AbilityRec, Loading, Unborn, States, Timers, Tasks

ServicesTyped ==
    /\ serviceMap \in [Keys -> Recs \cup {NoRec}]
    /\ ability \in [Recs -> AbilityRec]
    /\ terminating \subseteq Recs /\ raced \subseteq Recs
    /\ client \in [Callbacks -> {"alive", "dying", "dead"}]
    /\ reqs \in [Keys -> Nat] /\ restartTasks \subseteq Keys

\* Records are made in the order of their numbers, and one that was not made is
\* known to nobody.
RecsNumbered == \E n \in 0..MaxRecords : \A r \in Recs : ability[r].state # "none" <=> r <= n
Born ==
    /\ \A r \in Recs : IF ability[r].state = "none" THEN ability[r] = Unborn /\ cleaning[r] = NoCopy
                       ELSE ability[r].key \in Keys
    /\ \A c \in Conns : conn[c].state # "INIT" => ability[conn[c].svc].state # "none"

Expected(a) == a.todo["connect"] > 0 \/ a.todo["command"] > 0

\* The answers to connect and command calls that are still to come are of
\* services in service, and a service is started after it was loaded.
AnswersOK ==
    \A r \in Recs : /\ Expected(ability[r]) => InService(r)
                    /\ ability[r].proc = "loading" /\ InService(r) => ability[r].state = "INITIAL"
                    /\ ability[r].state \in {"INITIAL", "INACTIVATING"} => ability[r].startId = 0

\* The invariant of the service records.
SInv == ServicesTyped /\ RecsNumbered /\ Born /\ AnswersOK /\ PlacedOnce
-------------------------------------------------------------------------------
\* What happens to a record that stays where it is.
Moves(a, b, served) ==
    /\ b.key = a.key /\ b.byConnect = a.byConnect /\ b.startId >= a.startId
    /\ \/ b.state = a.state /\ (a.state \in {"INITIAL", "INACTIVATING"} => b.startId = a.startId)
       \/ a.state = "INITIAL" /\ b.state = "INACTIVATING" /\ b.startId = a.startId
       \/ a.state = "INACTIVATING" /\ b.state = "INACTIVE"
       \/ a.state = "INACTIVE" /\ b.state = "ACTIVE"
    /\ b.proc = "loading" => a.proc = "loading" /\ b.state = a.state
    /\ Expected(b) => Expected(a) \/ served

\* What happens to a record that leaves service.
Leaves(a, b) ==
    /\ b.key = a.key /\ b.startId = 0 /\ b.state \in {a.state, "TERMINATING"}
    /\ ~Expected(b)

\* ab are the records after those in T have left service.
Change(T, ab) ==
    /\ T \subseteq Recs /\ \A r \in T : InService(r)
    /\ ab \in [Recs -> AbilityRec]
    /\ \A r \in Recs : IF r \in T THEN Leaves(ability[r], ab[r])
                       ELSE Moves(ability[r], ab[r], InService(r))
    /\ \A r \in Recs : ability[r].state = "none" => ab[r] = ability[r]

\* No record is made, or the record n is made and comes into service.
Makes(T, n, ab) ==
    \/ n = NoRec /\ serviceMap' = Erased(T) /\ ability' = ab
    \/ /\ n = NextRec /\ n \in Recs
       /\ \E k \in Keys, w \in AbilityRec :
             /\ Erased(T)[k] = NoRec
             /\ serviceMap' = [Erased(T) EXCEPT ![k] = n]
             /\ ability' = [ab EXCEPT ![n] = w]
             /\ w.key = k /\ w.state = "INITIAL" /\ w.startId = 0 /\ ~Expected(w)

\* The part of a step that is about services.
ServiceStep(T, n, ab) ==
    /\ Change(T, ab) /\ Makes(T, n, ab)
    /\ \A r \in terminating' : r \in terminating \/ (r \in T /\ ab[r].state = "TERMINATING")
    /\ \A r \in Recs : ability[r].state = "none" => cleaning'[r] = cleaning[r]
    /\ \A c \in Conns : conn'[c].state # "INIT" =>
          \/ conn[c].state # "INIT" /\ conn'[c].svc = conn[c].svc
          \/ conn'[c].svc \in Recs /\ \E k \in Keys : serviceMap'[k] = conn'[c].svc
    /\ raced \subseteq raced'
    /\ terminating' \subseteq Recs /\ raced' \subseteq Recs
    /\ client' \in [Callbacks -> {"alive", "dying", "dead"}]
    /\ reqs' \in [Keys -> Nat] /\ restartTasks' \subseteq Keys
-------------------------------------------------------------------------------
\* A record is in service under its own key, and is made.
LEMMA ServedUnderKey ==
    ASSUME SInv, NEW r \in Recs, InService(r)
    PROVE  /\ ability[r].key \in Keys /\ serviceMap[ability[r].key] = r
           /\ ability[r].state \notin {"none", "TERMINATING"}
  BY BoundAssumption DEF SInv, PlacedOnce, InService, Recs, NoRec

\* NextRec is a record that was not made.
LEMMA NextRecFresh ==
    ASSUME SInv
    PROVE  /\ NextRec \in Nat
           /\ \A r \in Recs : ability[r].state # "none" <=> r < NextRec
<1>1. PICK n \in 0..MaxRecords : \A r \in Recs : ability[r].state # "none" <=> r <= n
  BY DEF SInv, RecsNumbered
<1>2. n \in Nat /\ MaxRecords \in Nat
  BY BoundAssumption
<1>3. Used = 1..n
  BY <1>1, <1>2 DEF Used, Recs
<1>4. Cardinality(1..n) = n
  BY <1>2, FS_Interval
<1>5. NextRec = n + 1
  BY <1>3, <1>4 DEF NextRec
<1> QED
  BY <1>1, <1>2, <1>5 DEF Recs

\* What is left of serviceMap_ when the records in T were erased.
LEMMA ErasedFacts ==
    ASSUME ServicesTyped, NEW T
    PROVE  /\ Erased(T) \in [Keys -> Recs \cup {NoRec}]
           /\ \A k \in Keys : Erased(T)[k] = IF serviceMap[k] \in T THEN NoRec ELSE serviceMap[k]
  BY DEF Erased, ServicesTyped

\* The record that is made, and those that are left, are in service.
LEMMA InServiceAfter ==
    ASSUME SInv, NEW T, NEW n, NEW ab, Change(T, ab), Makes(T, n, ab)
    PROVE  /\ n \in Recs => ability[n].state = "none" /\ n \notin T /\ InService(n)'
           /\ \A r \in Recs : r # n => (InService(r)' <=> InService(r) /\ r \notin T)
<1>1. NoRec \notin Recs /\ NoRec \notin T
  BY DEF Recs, NoRec, Change
<1>2. n \in Recs => n = NextRec
  BY <1>1 DEF Makes
<1>3. n \in Recs => ability[n].state = "none"
  BY <1>2, NextRecFresh DEF Recs
<1>4. n \in Recs => n \notin T
  BY <1>3, ServedUnderKey DEF Change
<1>5. \A k \in Keys : Erased(T)[k] = IF serviceMap[k] \in T THEN NoRec ELSE serviceMap[k]
  BY ErasedFacts DEF SInv
<1>6. Erased(T) \in [Keys -> Recs \cup {NoRec}]
  BY ErasedFacts DEF SInv
<1>7. \A r \in Recs : (\E k \in Keys : Erased(T)[k] = r) <=> InService(r) /\ r \notin T
  BY <1>1, <1>5 DEF InService
<1>8. CASE n = NoRec
  BY <1>1, <1>7, <1>8 DEF Makes, InService
<1>9. CASE n # NoRec
  <2>1. PICK k \in Keys : Erased(T)[k] = NoRec /\ serviceMap' = [Erased(T) EXCEPT ![k] = n]
    BY <1>9 DEF Makes
  <2>2. n \in Recs /\ serviceMap'[k] = n /\ \A j \in Keys : j # k => serviceMap'[j] = Erased(T)[j]
    BY <1>6, <1>9, <2>1 DEF Makes
  <2>3. \A r \in Recs : r # n => ((\E j \in Keys : serviceMap'[j] = r) <=> (\E j \in Keys : Erased(T)[j] = r))
    BY <1>1, <2>1, <2>2
  <2> QED
    BY <1>3, <1>4, <1>7, <2>2, <2>3 DEF InService
<1> QED
  BY <1>8, <1>9

\* A step of that shape keeps the invariant of the service records.
LEMMA ServiceStepSInv ==
    ASSUME SInv, ConnOK, NEW T, NEW n, NEW ab, ServiceStep(T, n, ab)
    PROVE  SInv'
<1>1. Change(T, ab) /\ Makes(T, n, ab)
  BY DEF ServiceStep
<1>2. NoRec \notin Recs /\ (n \in Recs \/ n = NoRec)
  BY <1>1 DEF Recs, NoRec, Makes
<1>3. /\ n \in Recs => ability[n].state = "none" /\ n \notin T /\ InService(n)'
      /\ \A r \in Recs : r # n => (InService(r)' <=> InService(r) /\ r \notin T)
  BY <1>1, InServiceAfter
<1>4. \A r \in Recs : r # n => ability'[r] = ab[r]
  BY <1>1, <1>2 DEF Makes, Change
<1>5. n \in Recs => /\ ability'[n] \in AbilityRec /\ ability'[n].key \in Keys
                    /\ ability'[n].state = "INITIAL" /\ ability'[n].startId = 0
                    /\ ~Expected(ability'[n])
  BY <1>1, <1>2 DEF Makes, Change
<1>6. Erased(T) \in [Keys -> Recs \cup {NoRec}]
  BY ErasedFacts DEF SInv
<1>7. ServicesTyped'
  <2>1. serviceMap' \in [Keys -> Recs \cup {NoRec}]
    BY <1>1, <1>2, <1>6 DEF Makes
  <2>2. ability' \in [Recs -> AbilityRec]
    BY <1>1, <1>2 DEF Makes, Change
  <2> QED
    BY <2>1, <2>2 DEF ServiceStep, ServicesTyped
<1>8. \A r \in Recs : r # n => IF r \in T THEN Leaves(ability[r], ability'[r])
                               ELSE Moves(ability[r], ability'[r], InService(r))
  BY <1>1, <1>4 DEF Change
<1>9. \A r \in Recs : r # n => (ability'[r].state = "none" <=> ability[r].state = "none")
  <2>1. \A r \in T : ability[r].state # "none"
    BY <1>1, ServedUnderKey DEF Change
  <2> QED
    BY <1>8, <2>1 DEF Leaves, Moves
<1>10. RecsNumbered'
  <2>1. PICK m \in 0..MaxRecords : \A r \in Recs : ability[r].state # "none" <=> r <= m
    BY DEF SInv, RecsNumbered
  <2>2. CASE n = NoRec
    BY <1>2, <1>9, <2>1, <2>2 DEF RecsNumbered
  <2>3. CASE n \in Recs
    <3>1. n = NextRec
      BY <1>1, <1>2, <2>3 DEF Makes
    <3>2. NextRec \in Nat /\ \A r \in Recs : ability[r].state # "none" <=> r < NextRec
      BY NextRecFresh
    <3>3. \A r \in Recs : ability'[r].state # "none" <=> r <= n
      BY <1>5, <1>9, <2>3, <3>1, <3>2 DEF Recs
    <3>4. n \in 0..MaxRecords
      BY <2>3, BoundAssumption DEF Recs
    <3> QED
      BY <3>3, <3>4 DEF RecsNumbered
  <2> QED
    BY <1>2, <2>2, <2>3
<1>11. Born'
  <2>1. \A r \in Recs : ability'[r].state = "none" =>
           ability'[r] = Unborn /\ cleaning'[r] = NoCopy
    BY <1>1, <1>4, <1>5, <1>9 DEF SInv, Born, Change, ServiceStep
  <2>2. \A r \in Recs : ability'[r].state # "none" => ability'[r].key \in Keys
    BY <1>5, <1>8, <1>9 DEF SInv, Born, Leaves, Moves
  <2>3. \A c \in Conns : conn'[c].state # "INIT" => ability'[conn'[c].svc].state # "none"
    <3> SUFFICES ASSUME NEW c \in Conns, conn'[c].state # "INIT"
                 PROVE  ability'[conn'[c].svc].state # "none"
      OBVIOUS
    <3>1. CASE conn[c].state # "INIT" /\ conn'[c].svc = conn[c].svc
      <4>1. conn[c].svc \in Recs /\ ability[conn[c].svc].state # "none"
        BY <3>1 DEF SInv, Born, ConnOK
      <4> QED
        BY <1>3, <1>9, <3>1, <4>1
    <3>2. CASE conn'[c].svc \in Recs /\ \E k \in Keys : serviceMap'[k] = conn'[c].svc
      <4>1. PICK s \in Recs : s = conn'[c].svc /\ \E k \in Keys : serviceMap'[k] = s
        BY <3>2
      <4>2. InService(s)'
        BY <4>1 DEF InService
      <4>3. ability'[s].state # "none"
        BY <1>3, <1>5, <1>9, <4>2, ServedUnderKey
      <4> QED
        BY <4>1, <4>3
    <3> QED
      BY <3>1, <3>2 DEF ServiceStep
  <2> QED
    BY <2>1, <2>2, <2>3 DEF Born
<1>12. AnswersOK'
  BY <1>3, <1>5, <1>8 DEF SInv, AnswersOK, Leaves, Moves
<1>13. PlacedOnce'
  <2>1. \A k \in Keys : serviceMap'[k] # NoRec =>
          /\ ability'[serviceMap'[k]].key = k
          /\ ability'[serviceMap'[k]].state \notin {"none", "TERMINATING"}
    <3> SUFFICES ASSUME NEW k \in Keys, serviceMap'[k] # NoRec
                 PROVE  /\ ability'[serviceMap'[k]].key = k
                        /\ ability'[serviceMap'[k]].state \notin {"none", "TERMINATING"}
      OBVIOUS
    <3>1. CASE serviceMap'[k] = n /\ n # NoRec
      <4>1. n \in Recs /\ n # NoRec
        BY <1>2, <3>1
      <4>2. PICK j \in Keys, w \in AbilityRec : /\ serviceMap' = [Erased(T) EXCEPT ![j] = n]
                              /\ ability' = [ab EXCEPT ![n] = w] /\ w.key = j /\ w.state = "INITIAL"
        BY <1>1, <4>1 DEF Makes
      <4>3. ability'[n].key = j /\ ability'[n].state = "INITIAL"
        BY <1>1, <4>1, <4>2 DEF Change
      <4>4. k = j
        <5>1. CASE k # j
          <6>1. Erased(T)[k] = n
            BY <1>6, <3>1, <4>2, <5>1
          <6>2. serviceMap[k] = n
            BY <1>2, <4>1, <6>1, ErasedFacts DEF SInv
          <6>3. InService(n)
            BY <6>2 DEF InService
          <6> QED
            BY <1>3, <4>1, <6>3, ServedUnderKey
        <5> QED
          BY <5>1
      <4> QED
        BY <3>1, <4>3, <4>4
    <3>2. CASE serviceMap'[k] # n
      <4> DEFINE s == serviceMap'[k]
      <4>1. s = Erased(T)[k]
        BY <1>1, <1>2, <1>6, <3>2 DEF Makes
      <4>2. s = serviceMap[k] /\ s \notin T /\ s \in Recs
        BY <4>1, ErasedFacts DEF SInv, ServicesTyped
      <4>3. ability[s].key = k /\ ability[s].state \notin {"none", "TERMINATING"}
        BY <4>2 DEF SInv, PlacedOnce
      <4>4. Moves(ability[s], ability'[s], InService(s))
        BY <1>8, <3>2, <4>2
      <4> QED
        BY <4>3, <4>4 DEF Moves
    <3>3. CASE n = NoRec
      BY <3>2, <3>3
    <3> QED
      BY <3>1, <3>2, <3>3
  <2>2. \A r \in terminating' : ability'[r].state = "TERMINATING"
    <3> SUFFICES ASSUME NEW r \in terminating'
                 PROVE  ability'[r].state = "TERMINATING"
      OBVIOUS
    <3>1. r \in Recs
      BY <1>7 DEF ServicesTyped
    <3>2. CASE r \in terminating
      <4>1. ability[r].state = "TERMINATING"
        BY <3>2 DEF SInv, PlacedOnce
      <4> QED
        BY <1>3, <1>8, <3>1, <4>1 DEF Leaves, Moves
    <3>3. CASE r \in T /\ ab[r].state = "TERMINATING"
      BY <1>3, <1>4, <3>1, <3>3
    <3> QED
      BY <3>2, <3>3 DEF ServiceStep
  <2> QED
    BY <2>1, <2>2 DEF PlacedOnce
<1> QED
  BY <1>7, <1>10, <1>11, <1>12, <1>13 DEF SInv

\* A service counts as connected only while it has a connection.
Linked == \A r \in Recs : InService(r) /\ ability[r].isConnected => connList[r] # {}

\* The invariant of the services and their connections.
LInv == ConnectedIsActive /\ NoOrphanService /\ Linked /\ NoDangling /\ RequestsServed

\* The part of a step that is about the connections of services: they are
\* established when the service is ACTIVE, they end with the service, and the last
\* one to end leaves a service that was started.
LinkStep(T, n) ==
    /\ \A c \in Conns : conn'[c].state \in {"CONNECTED", "DISCONNECTING"} =>
          \/ conn[c].state \in {"CONNECTED", "DISCONNECTING"} /\ conn'[c].svc = conn[c].svc
          \/ ability'[conn'[c].svc].state = "ACTIVE"
    /\ \A r \in T : connList'[r] = {} \/ r \in raced'
    /\ \A r \in Recs : r \notin T /\ r # n /\ InService(r) /\ connList'[r] = {} =>
          /\ ~ability'[r].isConnected
          /\ ability'[r].startId # 0 \/ ~ability'[r].byConnect
    /\ n \in Recs /\ connList'[n] = {} => ~ability'[n].isConnected /\ ~ability'[n].byConnect
    /\ \A r \in Recs : connList'[r] \subseteq connList[r] \/ InService(r)'

\* A step of that shape keeps the invariant of services and connections.
LEMMA LinkStepLInv ==
    ASSUME IInv, IInv', SInv, SInv', LInv, NEW T, NEW n, NEW ab,
           ServiceStep(T, n, ab), LinkStep(T, n)
    PROVE  ConnectedIsActive' /\ NoOrphanService' /\ Linked' /\ NoDangling'
<1>1. Change(T, ab) /\ Makes(T, n, ab) /\ raced \subseteq raced'
  BY DEF ServiceStep
<1>2. /\ n \in Recs => ability[n].state = "none" /\ n \notin T /\ InService(n)'
      /\ \A r \in Recs : r # n => (InService(r)' <=> InService(r) /\ r \notin T)
  BY <1>1, InServiceAfter
<1>3. n = NoRec \/ n \in Recs
  BY <1>1 DEF Makes
<1>4. \A r \in Recs : r # n => ability'[r] = ab[r]
  BY <1>1 DEF Makes, Change
<1>5. \A r \in Recs : r # n /\ r \notin T => Moves(ability[r], ability'[r], InService(r))
  BY <1>1, <1>4 DEF Change
<1>6. ConnectedIsActive'
  <2> SUFFICES ASSUME NEW c \in Conns, conn'[c].state \in {"CONNECTED", "DISCONNECTING"},
                      \E k \in Keys : serviceMap'[k] = conn'[c].svc
               PROVE  ability'[conn'[c].svc].state = "ACTIVE"
    BY DEF ConnectedIsActive, InService
  <2>1. CASE conn[c].state \in {"CONNECTED", "DISCONNECTING"} /\ conn'[c].svc = conn[c].svc
    <3>1. PICK r \in Recs : r = conn[c].svc
      BY <2>1 DEF IInv, ConnOK
    <3>2. InService(r)'
      BY <2>1, <3>1 DEF InService
    <3>3. ability[r].state # "none"
      BY <2>1, <3>1 DEF SInv, Born
    <3>4. r # n /\ InService(r) /\ r \notin T
      BY <1>2, <3>2, <3>3
    <3>5. ability[r].state = "ACTIVE"
      BY <2>1, <3>1, <3>4 DEF LInv, ConnectedIsActive
    <3>6. ability'[r].state = "ACTIVE"
      BY <1>5, <3>4, <3>5 DEF Moves
    <3> QED
      BY <2>1, <3>1, <3>6
  <2> QED
    BY <2>1 DEF LinkStep
<1>7. NoOrphanService'
  <2> SUFFICES ASSUME NEW r \in Recs, InService(r)', ability'[r].startId = 0, ability'[r].byConnect
               PROVE  connList'[r] # {}
    BY DEF NoOrphanService
  <2> QED
    BY <1>2 DEF LinkStep
<1>8. Linked'
  <2> SUFFICES ASSUME NEW r \in Recs, InService(r)', ability'[r].isConnected
               PROVE  connList'[r] # {}
    BY DEF Linked
  <2> QED
    BY <1>2 DEF LinkStep
<1>9. NoDangling'
  <2> SUFFICES ASSUME NEW c \in Live'
               PROVE  (\E k \in Keys : serviceMap'[k] = conn'[c].svc) \/ conn'[c].svc \in raced'
    BY DEF NoDangling, InService
  <2>1. c \in Conns /\ conn'[c].state # "INIT" /\ conn'[c].svc \in Recs
    BY DEF Live, IInv, ConnOK
  <2>2. PICK r \in Recs : r = conn'[c].svc
    BY <2>1
  <2>3. c \in connList'[r]
    BY <2>2 DEF IInv, ListsAgree
  <2>4. CASE InService(r)'
    BY <2>2, <2>4 DEF InService
  <2>5. CASE r \in T
    BY <2>2, <2>3, <2>5 DEF LinkStep
  <2>6. CASE ~InService(r)' /\ r \notin T
    <3>1. c \in connList[r]
      BY <2>3, <2>6 DEF LinkStep
    <3>2. c \in Live /\ conn[c].svc = r
      BY <3>1 DEF IInv, ListsAgree
    <3>3. r # n
      BY <1>2, <2>6
    <3>4. ~InService(r)
      BY <1>2, <2>6, <3>3
    <3>5. r \in raced
      BY <3>2, <3>4 DEF LInv, NoDangling
    <3> QED
      BY <1>1, <2>2, <3>5
  <2> QED
    BY <2>4, <2>5, <2>6
<1> QED
  BY <1>6, <1>7, <1>8, <1>9

\* When no queue grows and no service becomes ACTIVE, the queues are served.
LEMMA RequestsKept ==
    ASSUME SInv, LInv, NEW T, NEW n, NEW ab, ServiceStep(T, n, ab),
           \A k \in Keys : reqs'[k] > 0 => reqs[k] > 0,
           \A r \in Recs : ab[r].state = "ACTIVE" => ability[r].state = "ACTIVE"
    PROVE  RequestsServed'
<1>1. Change(T, ab) /\ Makes(T, n, ab)
  BY DEF ServiceStep
<1> SUFFICES ASSUME NEW k \in Keys, reqs'[k] > 0, serviceMap'[k] # NoRec
             PROVE  ability'[serviceMap'[k]].state # "ACTIVE"
  BY DEF RequestsServed
<1>2. Erased(T)[k] = IF serviceMap[k] \in T THEN NoRec ELSE serviceMap[k]
  BY ErasedFacts DEF SInv
<1>3. Erased(T) \in [Keys -> Recs \cup {NoRec}]
  BY ErasedFacts DEF SInv
<1>4. CASE serviceMap'[k] = Erased(T)[k]
  <2>1. serviceMap'[k] = serviceMap[k] /\ serviceMap[k] \in Recs
    BY <1>2, <1>4 DEF SInv, ServicesTyped
  <2>2. ability[serviceMap[k]].state # "ACTIVE"
    BY <2>1 DEF LInv, RequestsServed
  <2>3. ab[serviceMap[k]].state # "ACTIVE"
    BY <2>1, <2>2
  <2> QED
    BY <1>1, <2>1, <2>3 DEF Makes, Change
<1>5. CASE serviceMap'[k] # Erased(T)[k]
  BY <1>1, <1>3, <1>5 DEF Makes, Change
<1> QED
  BY <1>4, <1>5
-------------------------------------------------------------------------------
(* What ends the wait of a client.                                         *)

Tended(r) == ability[r].tasks # {} \/ cleaning[r] # NoCopy
Armed(r) == \E d \in Conns : conn[d].svc = r /\ conn[d].tasks \cap {"connect", "running"} # {}
SomeoneWaits(r) == \E c \in connList[r] : conn[c].state = "CONNECTING"

\* What watches a service depends on how far its start has come.
Watch(r) ==
    /\ ability[r].state = "INITIAL" => "load" \in ability[r].timers \/ Tended(r)
    /\ ability[r].state = "INACTIVATING" => "inactive" \in ability[r].timers \/ Tended(r)
    /\ ability[r].state = "INACTIVE" /\ ability[r].startId # 0 =>
          ability[r].cmdTimers # {} \/ Tended(r)
    /\ ability[r].state = "INACTIVE" /\ (ability[r].startId = 0 \/ ability[r].isConnected) =>
          Armed(r) \/ Tended(r)
    /\ ability[r].state = "ACTIVE" /\ SomeoneWaits(r) => Armed(r) \/ Tended(r)

WInv == "reportFails" \notin Faults => \A r \in Recs : InService(r) => Watch(r)

\* Nothing that watches r goes away, and nothing is added that would need more.
StillWatched(r) ==
    /\ ability'[r].state = ability[r].state
    /\ ability'[r].state = "INACTIVE" => ability'[r].startId = ability[r].startId
    /\ ability'[r].isConnected => ability[r].isConnected
    /\ ability[r].timers \subseteq ability'[r].timers
    /\ ability[r].cmdTimers \subseteq ability'[r].cmdTimers
    /\ Tended(r) => Tended(r)'
    /\ Armed(r) => Armed(r)'
    /\ SomeoneWaits(r)' => SomeoneWaits(r)

\* Then r is still watched.
LEMMA WatchKept ==
    ASSUME NEW r \in Recs, Watch(r), StillWatched(r)
    PROVE  Watch(r)'
  BY DEF Watch, StillWatched

\* Who stays in service is watched if who is new in service is.
LEMMA WatchInv ==
    ASSUME SInv, WInv, NEW T, NEW n, NEW ab, ServiceStep(T, n, ab),
           "reportFails" \notin Faults =>
             /\ n \in Recs => Watch(n)'
             /\ \A r \in Recs : InService(r) /\ r \notin T /\ r # n /\ Watch(r) => Watch(r)'
    PROVE  WInv'
<1>1. \A r \in Recs : r # n => (InService(r)' <=> InService(r) /\ r \notin T)
  BY InServiceAfter DEF ServiceStep
<1> QED
  BY <1>1 DEF WInv

\* The inductive invariant of the manager.
ManagerInv == IInv /\ SInv /\ LInv /\ WInv

\* Erasing nothing.
LEMMA ErasedNone ==
    ASSUME ServicesTyped
    PROVE  Erased({}) = serviceMap
  BY DEF Erased, ServicesTyped

\* A record that does not change.
LEMMA MovesSame ==
    ASSUME NEW a \in AbilityRec, NEW served
    PROVE  Moves(a, a, served)
<1>1. a.startId \in Nat
  BY DEF AbilityRec
<1> QED
  BY <1>1 DEF Moves

\* Only the record r changes, and stays where it is.
LEMMA ChangeOne ==
    ASSUME SInv, NEW r \in Recs, NEW b \in AbilityRec, ability[r].state # "none",
           Moves(ability[r], b, InService(r))
    PROVE  Change({}, [ability EXCEPT ![r] = b])
<1>1. ability \in [Recs -> AbilityRec]
  BY DEF SInv, ServicesTyped
<1> DEFINE ab == [ability EXCEPT ![r] = b]
<1>2. ab \in [Recs -> AbilityRec] /\ ab[r] = b /\ \A q \in Recs : q # r => ab[q] = ability[q]
  BY <1>1
<1>3. \A q \in Recs : Moves(ability[q], ability[q], InService(q))
  BY <1>1, MovesSame
<1> HIDE DEF ab
<1>4. \A q \in Recs : Moves(ability[q], ab[q], InService(q))
  BY <1>2, <1>3
<1>5. \A q \in Recs : ability[q].state = "none" => ab[q] = ability[q]
  BY <1>2
<1>6. Change({}, ab)
  BY <1>2, <1>4, <1>5 DEF Change
<1> QED
  BY <1>6 DEF ab

\* Only the record r changes, and leaves service.
LEMMA ChangeLeave ==
    ASSUME SInv, NEW r \in Recs, NEW b \in AbilityRec, InService(r), Leaves(ability[r], b)
    PROVE  Change({r}, [ability EXCEPT ![r] = b])
<1>1. ability \in [Recs -> AbilityRec]
  BY DEF SInv, ServicesTyped
<1> DEFINE ab == [ability EXCEPT ![r] = b]
<1>2. ab \in [Recs -> AbilityRec] /\ ab[r] = b /\ \A q \in Recs : q # r => ab[q] = ability[q]
  BY <1>1
<1>3. \A q \in Recs : Moves(ability[q], ability[q], InService(q))
  BY <1>1, MovesSame
<1>4. ability[r].state # "none"
  BY ServedUnderKey
<1> HIDE DEF ab
<1>5. \A q \in Recs : q # r => Moves(ability[q], ab[q], InService(q))
  BY <1>2, <1>3
<1>6. \A q \in Recs : ability[q].state = "none" => ab[q] = ability[q]
  BY <1>2, <1>4
<1>7. Change({r}, ab)
  BY <1>2, <1>5, <1>6 DEF Change
<1> QED
  BY <1>7 DEF ab

\* No record changes.
LEMMA ChangeNone ==
    ASSUME SInv
    PROVE  Change({}, ability)
<1>1. ability \in [Recs -> AbilityRec]
  BY DEF SInv, ServicesTyped
<1> QED
  BY <1>1, MovesSame DEF Change

\* Connections that were made belong to the same service as before.
LEMMA SameService ==
    ASSUME IInv, BookStep
    PROVE  /\ \A c \in Conns : conn'[c].svc = conn[c].svc
           /\ \A c \in Conns : conn'[c].state # "INIT" => conn[c].state # "INIT"
           /\ \A r \in Recs : connList'[r] \subseteq connList[r]
<1>1. PICK S : Advance(S) /\ Remove(S)
  BY DEF BookStep
<1> QED
  BY <1>1 DEF Advance, Forward, Remove, IInv, BooksOK

\* Nothing is made in a step of the books.
LEMMA LeaveStep ==
    ASSUME IInv, SInv, BookStep, NEW T, NEW ab, Change(T, ab), ability' = ab,
           serviceMap' = Erased(T),
           \A r \in terminating' : r \in terminating \/ (r \in T /\ ab[r].state = "TERMINATING"),
           \A r \in Recs : ability[r].state = "none" => cleaning'[r] = cleaning[r],
           raced \subseteq raced', raced' \subseteq Recs,
           client' \in [Callbacks -> {"alive", "dying", "dead"}],
           reqs' \in [Keys -> Nat], restartTasks' \subseteq Keys
    PROVE  ServiceStep(T, NoRec, ab)
<1>1. Makes(T, NoRec, ab)
  BY DEF Makes
<1>2. terminating' \subseteq Recs
  BY DEF SInv, ServicesTyped, Change
<1>3. \A c \in Conns : conn'[c].state # "INIT" =>
         conn[c].state # "INIT" /\ conn'[c].svc = conn[c].svc
  BY SameService
<1> QED
  BY <1>1, <1>2, <1>3 DEF ServiceStep

\* The records that are connected to no client less than before keep their links.
LEMMA SteadyLinks ==
    ASSUME SInv, LInv, NEW ab, Change({}, ab), ability' = ab,
           UNCHANGED <<connList, raced>>,
           \A c \in Conns : conn'[c].svc = conn[c].svc /\ conn'[c].state = conn[c].state,
           \A r \in Recs : InService(r) /\ ab[r].isConnected =>
                              ability[r].isConnected \/ connList[r] # {}
    PROVE  LinkStep({}, NoRec)
<1>1. \A r \in Recs : InService(r) /\ connList'[r] = {} =>
         /\ ~ability'[r].isConnected
         /\ ability'[r].startId # 0 \/ ~ability'[r].byConnect
  <2> SUFFICES ASSUME NEW r \in Recs, InService(r), connList[r] = {}
               PROVE  /\ ~ability'[r].isConnected
                      /\ ability'[r].startId # 0 \/ ~ability'[r].byConnect
    OBVIOUS
  <2>1. ~ability'[r].isConnected
    BY DEF LInv, Linked
  <2>2. ability[r].startId # 0 \/ ~ability[r].byConnect
    BY DEF LInv, NoOrphanService
  <2>3. ability'[r].byConnect = ability[r].byConnect /\ ability'[r].startId >= ability[r].startId
    BY DEF Change, Moves
  <2>4. ability[r].startId \in Nat
    BY DEF SInv, ServicesTyped, AbilityRec
  <2>5. ability'[r].startId \in Nat
    BY DEF Change, AbilityRec
  <2> QED
    BY <2>1, <2>2, <2>3, <2>4, <2>5
<1>2. NoRec \notin Recs
  BY DEF NoRec, Recs
<1> QED
  BY <1>1, <1>2 DEF LinkStep

\* A step in which records stay where they are and connections are neither made
\* nor ended.
LEMMA Steady ==
    ASSUME ManagerInv, IInv', BookStep, NEW ab, Change({}, ab), ability' = ab,
           UNCHANGED <<serviceMap, connList, raced>>, terminating' \subseteq terminating,
           client' \in [Callbacks -> {"alive", "dying", "dead"}],
           reqs' \in [Keys -> Nat], restartTasks' \subseteq Keys,
           \A r \in Recs : ability[r].state = "none" => cleaning'[r] = cleaning[r],
           \A c \in Conns : conn'[c].state = conn[c].state,
           \A r \in Recs : InService(r) /\ ab[r].isConnected =>
                              ability[r].isConnected \/ connList[r] # {},
           \A r \in Recs : ab[r].state = "ACTIVE" => ability[r].state = "ACTIVE",
           \A k \in Keys : reqs'[k] > 0 => reqs[k] > 0,
           "reportFails" \notin Faults =>
              \A r \in Recs : InService(r) /\ Watch(r) => Watch(r)'
    PROVE  SInv' /\ LInv' /\ WInv'
<1>1. ServiceStep({}, NoRec, ab)
  <2>1. serviceMap' = Erased({})
    BY ErasedNone DEF ManagerInv, SInv
  <2>2. raced' \subseteq Recs
    BY DEF ManagerInv, SInv, ServicesTyped
  <2> QED
    BY <2>1, <2>2, LeaveStep DEF ManagerInv
<1>2. SInv'
  BY <1>1, ServiceStepSInv DEF ManagerInv, IInv
<1>3. LinkStep({}, NoRec)
  BY SameService, SteadyLinks DEF ManagerInv
<1>4. LInv'
  BY <1>1, <1>2, <1>3, LinkStepLInv, RequestsKept DEF ManagerInv, LInv
<1>5. NoRec \notin Recs
  BY DEF NoRec, Recs
<1>6. WInv'
  BY <1>1, <1>5, WatchInv DEF ManagerInv
<1> QED
  BY <1>2, <1>4, <1>6

\* A connection is armed after a step that takes no CONNECT_TIMEOUT away.
LEMMA ArmedKept ==
    ASSUME NEW r \in Recs, Armed(r),
           \A c \in Conns : conn'[c].svc = conn[c].svc,
           \A c \in Conns : conn[c].tasks \cap {"connect", "running"} # {} =>
                               conn'[c].tasks \cap {"connect", "running"} # {}
    PROVE  Armed(r)'
  BY DEF Armed

\* What is asked of a step that changes the record r only.
LEMMA RecordStep ==
    ASSUME ManagerInv, IInv', NEW r \in Recs, NEW b \in AbilityRec, ability[r].state # "none",
           ability' = [ability EXCEPT ![r] = b], Moves(ability[r], b, InService(r)),
           b.isConnected => ability[r].isConnected,
           b.state = "ACTIVE" => ability[r].state = "ACTIVE",
           UNCHANGED <<serviceMap, conn, books, client, reqs, restartTasks, raced>>,
           terminating' \subseteq terminating,
           cleaning' \in [Recs -> SUBSET NoCopy],
           \A q \in Recs : q # r => cleaning'[q] = cleaning[q],
           cleaning'[r] \in {cleaning[r], connList[r]},
           "reportFails" \notin Faults /\ InService(r) /\ Watch(r) => Watch(r)'
    PROVE  SInv' /\ LInv' /\ WInv'
<1> DEFINE ab == [ability EXCEPT ![r] = b]
<1>1. Change({}, ab)
  BY ChangeOne DEF ManagerInv
<1>2. ab[r] = b /\ \A q \in Recs : q # r => ab[q] = ability[q]
  BY DEF ManagerInv, SInv, ServicesTyped
<1>3. ability' = ab
  OBVIOUS
<1> HIDE DEF ab
<1>4. BookStep
  <2>1. CleaningStep
    BY DEF CleaningStep
  <2> QED
    BY <2>1, ConnSame, NothingRemoved DEF BookStep, ManagerInv
<1>5. UNCHANGED <<connList, conn>>
  BY DEF books
<1>6. ASSUME NEW q \in Recs, InService(q), Watch(q), q # r
      PROVE  Watch(q)'
  <2>1. ability'[q] = ability[q] /\ cleaning'[q] = cleaning[q]
    BY <1>2, <1>3, <1>6
  <2> QED
    BY <1>5, <1>6, <2>1 DEF Watch, Tended, Armed, SomeoneWaits
<1>7. "reportFails" \notin Faults => \A q \in Recs : InService(q) /\ Watch(q) => Watch(q)'
  BY <1>6
<1>8. /\ client' \in [Callbacks -> {"alive", "dying", "dead"}]
      /\ reqs' \in [Keys -> Nat] /\ restartTasks' \subseteq Keys
  BY DEF ManagerInv, SInv, ServicesTyped
<1>9. \A q \in Recs : ability[q].state = "none" => cleaning'[q] = cleaning[q]
  OBVIOUS
<1>10. \A q \in Recs : InService(q) /\ ab[q].isConnected => ability[q].isConnected \/ connList[q] # {}
  BY <1>2
<1>11. \A q \in Recs : ab[q].state = "ACTIVE" => ability[q].state = "ACTIVE"
  BY <1>2
<1> QED
  BY <1>1, <1>3, <1>4, <1>5, <1>7, <1>8, <1>9, <1>10, <1>11, Steady
-------------------------------------------------------------------------------
(* Steps that touch one record.                                            *)

\* A record with something to do was made.
LEMMA Made ==
    ASSUME SInv, NEW r \in Recs,
           \/ ability[r].proc # "none" \/ ability[r].timers # {} \/ ability[r].tasks # {}
           \/ ability[r].cmdTimers # {} \/ \E m \in Msgs : ability[r].todo[m] > 0
           \/ cleaning[r] # NoCopy \/ InService(r)
    PROVE  ability[r].state # "none"
<1>1. ability[r].state = "none" => ability[r] = Unborn /\ cleaning[r] = NoCopy
  BY DEF SInv, Born
<1>2. \A m \in Msgs : ~(Unborn.todo[m] > 0)
  BY DEF Unborn, NoMsgs
<1>3. Unborn.proc = "none" /\ Unborn.timers = {} /\ Unborn.tasks = {} /\ Unborn.cmdTimers = {}
  BY DEF Unborn
<1>4. InService(r) => ability[r].state # "none"
  BY ServedUnderKey
<1> QED
  BY <1>1, <1>2, <1>3, <1>4

\* The types of a record.
LEMMA RecTyped ==
    ASSUME SInv, NEW r \in Recs
    PROVE  ability[r] \in AbilityRec
  BY DEF SInv, ServicesTyped

\* The process of the service has loaded it.
LEMMA AttachKeeps ==
    ASSUME ManagerInv, IInv', NEW r \in Recs, AttachAbilityThread(r)
    PROVE  SInv' /\ LInv' /\ WInv'
<1> DEFINE a == ability[r]
<1>1. a \in AbilityRec /\ a.proc = "loading" /\ a.state # "none"
  BY Made, RecTyped DEF ManagerInv, AttachAbilityThread
<1>2. ability \in [Recs -> AbilityRec] /\ cleaning \in [Recs -> SUBSET NoCopy]
  BY DEF ManagerInv, SInv, ServicesTyped, IInv, CleaningOK
<1>3. UNCHANGED <<serviceMap, terminating, conn, books, client, reqs, restartTasks, cleaning,
                  raced>>
  BY DEF AttachAbilityThread
<1>4. CASE InService(r)
  <2> DEFINE p == [a EXCEPT !.proc = "up", !.state = "INACTIVATING",
                            !.timers = (a.timers \ {"load"}) \cup {"inactive"}]
             b == Sent(p, "inactive", 1)
  <2>1. a.state = "INITIAL" /\ a.startId = 0
    BY <1>1, <1>4 DEF ManagerInv, SInv, AnswersOK
  <2>2. (a.timers \ {"load"}) \cup {"inactive"} \in SUBSET Timers
    BY <1>1 DEF AbilityRec, Timers
  <2>3. /\ p \in AbilityRec /\ p.state = "INACTIVATING" /\ p.proc = "up" /\ p.key = a.key
        /\ p.byConnect = a.byConnect /\ p.startId = a.startId /\ p.todo = a.todo
        /\ p.isConnected = a.isConnected /\ "inactive" \in p.timers
    BY <1>1, <2>2 DEF AbilityRec, States
  <2>4. ability' = [ability EXCEPT ![r] = b]
    <3>1. ability' = [ability EXCEPT ![r] = IF InService(r) THEN b ELSE [a EXCEPT !.proc = "dead"]]
      BY DEF AttachAbilityThread
    <3> HIDE DEF b
    <3> QED
      BY <1>4, <3>1
  <2> HIDE DEF p
  <2>5. /\ SameBut(p, b) /\ b.todo["connect"] = p.todo["connect"]
        /\ b.todo["command"] = p.todo["command"]
    BY <2>3, SentFacts DEF Msgs
  <2> HIDE DEF a, b
  <2>6. Moves(a, b, InService(r))
    BY <1>1, <2>1, <2>3, <2>5 DEF Moves, SameBut, Expected
  <2>7. ability'[r] = b
    BY <1>2, <2>4
  <2>8. Watch(r)'
    BY <2>3, <2>5, <2>7 DEF Watch, SameBut
  <2>9. b \in AbilityRec /\ (b.isConnected => a.isConnected) /\ b.state # "ACTIVE"
    BY <2>3, <2>5 DEF SameBut
  <2> USE DEF a
  <2> QED
    BY <1>1, <1>2, <1>3, <2>4, <2>6, <2>8, <2>9, RecordStep
<1>5. CASE ~InService(r)
  <2> DEFINE b == [a EXCEPT !.proc = "dead"]
  <2>1. ability' = [ability EXCEPT ![r] = b]
    BY <1>5 DEF AttachAbilityThread
  <2>2. b \in AbilityRec
    BY <1>1 DEF AbilityRec
  <2>3. Moves(a, b, InService(r)) /\ b.isConnected = a.isConnected /\ b.state = a.state
    BY <1>1 DEF AbilityRec, Moves, Expected
  <2> HIDE DEF b
  <2> QED
    BY <1>1, <1>2, <1>3, <1>5, <2>1, <2>2, <2>3, RecordStep
<1> QED
  BY <1>4, <1>5

\* Changes of timers, tasks and the process of a record.
LEMMA TendStep ==
    ASSUME ManagerInv, IInv', NEW r \in Recs, ability[r].state # "none",
           NEW b \in AbilityRec, ability' = [ability EXCEPT ![r] = b],
           b.key = ability[r].key, b.byConnect = ability[r].byConnect,
           b.startId = ability[r].startId, b.state = ability[r].state,
           b.proc = "loading" => ability[r].proc = "loading",
           b.isConnected = ability[r].isConnected,
           b.todo["connect"] > 0 => ability[r].todo["connect"] > 0,
           b.todo["command"] > 0 => ability[r].todo["command"] > 0,
           UNCHANGED <<serviceMap, conn, books, client, reqs, restartTasks, raced>>,
           terminating' \subseteq terminating,
           cleaning' \in [Recs -> SUBSET NoCopy],
           \A q \in Recs : q # r => cleaning'[q] = cleaning[q],
           cleaning'[r] \in {cleaning[r], connList[r]},
           InService(r) =>
              \/ b.tasks # {} \/ cleaning'[r] # NoCopy
              \/ /\ ability[r].timers \cap {"load", "inactive"} \subseteq b.timers
                 /\ ability[r].cmdTimers \subseteq b.cmdTimers
                 /\ ability[r].tasks = {} /\ cleaning[r] = NoCopy
              \/ ability[r].state \in {"ACTIVE", "TERMINATING"} /\ ability[r].tasks = {} /\ cleaning[r] = NoCopy
    PROVE  SInv' /\ LInv' /\ WInv'
<1>1. ability \in [Recs -> AbilityRec]
  BY DEF ManagerInv, SInv, ServicesTyped
<1>2. ability[r].startId \in Nat
  BY <1>1 DEF AbilityRec
<1>3. Moves(ability[r], b, InService(r))
  BY <1>2 DEF Moves, Expected
<1>4. ability'[r] = b
  BY <1>1
<1>5. ASSUME InService(r), Watch(r)
      PROVE  Watch(r)'
  <2>1. UNCHANGED <<conn, connList>>
    BY DEF books
  <2>2. (Armed(r)' <=> Armed(r)) /\ (SomeoneWaits(r)' <=> SomeoneWaits(r))
    BY <2>1 DEF Armed, SomeoneWaits
  <2>3. Tended(r)' <=> b.tasks # {} \/ cleaning'[r] # NoCopy
    BY <1>4 DEF Tended
  <2>4. Tended(r) <=> ability[r].tasks # {} \/ cleaning[r] # NoCopy
    BY DEF Tended
  <2> QED
    BY <1>4, <1>5, <2>2, <2>3, <2>4 DEF Watch
<1> QED
  BY <1>3, <1>5, RecordStep

\* LOAD_TIMEOUT fires.
LEMMA LoadTimeoutKeeps ==
    ASSUME ManagerInv, IInv', NEW r \in Recs, LoadTimeout(r)
    PROVE  SInv' /\ LInv' /\ WInv'
<1> DEFINE a == ability[r]
           b == [a EXCEPT !.timers = a.timers \ {"load"}, !.tasks = a.tasks \cup {"startTimeout"}]
<1>1. a \in AbilityRec /\ a.state # "none"
  BY Made, RecTyped DEF ManagerInv, LoadTimeout
<1>2. ability \in [Recs -> AbilityRec] /\ cleaning \in [Recs -> SUBSET NoCopy]
  BY DEF ManagerInv, SInv, ServicesTyped, IInv, CleaningOK
<1>3. /\ ability' = [ability EXCEPT ![r] = b]
      /\ UNCHANGED <<serviceMap, terminating, conn, books, client, reqs, restartTasks, cleaning,
                     raced>>
  BY <1>2 DEF LoadTimeout
<1>4. b \in AbilityRec
  BY <1>1 DEF AbilityRec, Tasks
<1>5. /\ b.key = a.key /\ b.byConnect = a.byConnect /\ b.startId = a.startId /\ b.state = a.state
      /\ b.proc = a.proc /\ b.isConnected = a.isConnected /\ b.todo = a.todo /\ b.tasks # {}
  BY <1>1 DEF AbilityRec
<1> HIDE DEF b
<1> QED
  BY <1>1, <1>2, <1>3, <1>4, <1>5, TendStep

\* The list that a clean-up copies.
LEMMA CopyFacts ==
    ASSUME IInv, NEW r \in Recs, CopyIfNotActive(r)
    PROVE  /\ cleaning' \in [Recs -> SUBSET NoCopy]
           /\ \A q \in Recs : q # r => cleaning'[q] = cleaning[q]
           /\ cleaning'[r] \in {cleaning[r], connList[r]} /\ cleaning[r] = NoCopy
           /\ ability[r].state # "ACTIVE" => cleaning'[r] # NoCopy
<1>1. cleaning \in [Recs -> SUBSET NoCopy] /\ connList[r] \subseteq Conns
  BY ListedIsLive DEF IInv, CleaningOK
<1>2. 0 \notin Conns /\ 0 \in NoCopy /\ connList[r] \subseteq NoCopy
  BY <1>1 DEF Conns, NoCopy
<1>3. connList[r] # NoCopy
  BY <1>1, <1>2
<1> HIDE DEF NoCopy
<1> QED
  BY <1>1, <1>2, <1>3 DEF CopyIfNotActive

\* INACTIVE_TIMEOUT fires.
LEMMA InactiveTimeoutKeeps ==
    ASSUME ManagerInv, IInv', NEW r \in Recs, InactiveTimeout(r)
    PROVE  SInv' /\ LInv' /\ WInv'
<1> DEFINE a == ability[r]
           b == [a EXCEPT !.timers = a.timers \ {"inactive"}]
<1>1. a \in AbilityRec /\ a.state # "none"
  BY Made, RecTyped DEF ManagerInv, InactiveTimeout
<1>2. ability \in [Recs -> AbilityRec]
  BY DEF ManagerInv, SInv, ServicesTyped
<1>3. /\ ability' = [ability EXCEPT ![r] = b] /\ CopyIfNotActive(r)
      /\ UNCHANGED <<serviceMap, terminating, conn, books, client, reqs, restartTasks, raced>>
  BY <1>2 DEF InactiveTimeout
<1>4. b \in AbilityRec
  BY <1>1 DEF AbilityRec
<1>5. /\ b.key = a.key /\ b.byConnect = a.byConnect /\ b.startId = a.startId /\ b.state = a.state
      /\ b.proc = a.proc /\ b.isConnected = a.isConnected /\ b.todo = a.todo /\ b.tasks = a.tasks
  BY <1>1 DEF AbilityRec
<1>6. /\ cleaning' \in [Recs -> SUBSET NoCopy]
      /\ \A q \in Recs : q # r => cleaning'[q] = cleaning[q]
      /\ cleaning'[r] \in {cleaning[r], connList[r]} /\ cleaning[r] = NoCopy
      /\ ability[r].state # "ACTIVE" => cleaning'[r] # NoCopy
  BY <1>3, CopyFacts DEF ManagerInv
<1> HIDE DEF b, NoCopy
<1> QED
  BY <1>1, <1>2, <1>3, <1>4, <1>5, <1>6, TendStep

\* A COMMAND_TIMEOUT fires.
LEMMA CommandTimeoutKeeps ==
    ASSUME ManagerInv, IInv', NEW r \in Recs, NEW i, HandleCommandTimeoutTask(r, i)
    PROVE  SInv' /\ LInv' /\ WInv'
<1> DEFINE a == ability[r]
           b == [a EXCEPT !.cmdTimers = a.cmdTimers \ {i}]
<1>1. a \in AbilityRec /\ a.state # "none"
  BY Made, RecTyped DEF ManagerInv, HandleCommandTimeoutTask
<1>2. ability \in [Recs -> AbilityRec]
  BY DEF ManagerInv, SInv, ServicesTyped
<1>3. /\ ability' = [ability EXCEPT ![r] = b] /\ CopyIfNotActive(r)
      /\ UNCHANGED <<serviceMap, terminating, conn, books, client, reqs, restartTasks, raced>>
  BY <1>2 DEF HandleCommandTimeoutTask
<1>4. b \in AbilityRec
  <2>1. a.cmdTimers \ {i} \in SUBSET Nat
    BY <1>1 DEF AbilityRec
  <2> QED
    BY <1>1, <2>1 DEF AbilityRec
<1>5. /\ b.key = a.key /\ b.byConnect = a.byConnect /\ b.startId = a.startId /\ b.state = a.state
      /\ b.proc = a.proc /\ b.isConnected = a.isConnected /\ b.todo = a.todo /\ b.tasks = a.tasks
  BY <1>1 DEF AbilityRec
<1>6. /\ cleaning' \in [Recs -> SUBSET NoCopy]
      /\ \A q \in Recs : q # r => cleaning'[q] = cleaning[q]
      /\ cleaning'[r] \in {cleaning[r], connList[r]} /\ cleaning[r] = NoCopy
      /\ ability[r].state # "ACTIVE" => cleaning'[r] # NoCopy
  BY <1>3, CopyFacts DEF ManagerInv
<1> HIDE DEF b, NoCopy
<1> QED
  BY <1>1, <1>2, <1>3, <1>4, <1>5, <1>6, TendStep

\* The process of the service dies.
LEMMA ServiceDiesKeeps ==
    ASSUME ManagerInv, IInv', NEW r \in Recs, ServiceDies(r)
    PROVE  SInv' /\ LInv' /\ WInv'
<1> DEFINE a == ability[r]
           b == Killed(a)
<1>1. a \in AbilityRec /\ a.state # "none" /\ a.proc = "up"
  BY Made, RecTyped DEF ManagerInv, ServiceDies
<1>2. ability \in [Recs -> AbilityRec] /\ cleaning \in [Recs -> SUBSET NoCopy]
  BY DEF ManagerInv, SInv, ServicesTyped, IInv, CleaningOK
<1>3. /\ ability' = [ability EXCEPT ![r] = b]
      /\ UNCHANGED <<serviceMap, terminating, conn, books, client, reqs, restartTasks, cleaning,
                     raced>>
  BY <1>2 DEF ServiceDies
<1>4. /\ b \in AbilityRec /\ b.proc = "dead"
      /\ b.key = a.key /\ b.byConnect = a.byConnect /\ b.startId = a.startId /\ b.state = a.state
      /\ b.isConnected = a.isConnected
  BY <1>1, KilledFacts
<1>5. /\ b.tasks # {} /\ ~(b.todo["connect"] > 0) /\ ~(b.todo["command"] > 0)
  BY <1>1 DEF Killed, AbilityRec, NoMsgs, Msgs
<1> HIDE DEF b
<1> QED
  BY <1>1, <1>2, <1>3, <1>4, <1>5, TendStep

\* OnAbilityDied passes the death on.
LEMMA DiedKeeps ==
    ASSUME ManagerInv, IInv', NEW r \in Recs, OnAbilityDied(r)
    PROVE  SInv' /\ LInv' /\ WInv'
<1> DEFINE a == ability[r]
           x == a.timers \ (IF a.state = "TERMINATING" THEN {"terminate"}
                            ELSE IF a.state = "INITIAL" THEN {"load"} ELSE {})
           b == [a EXCEPT !.tasks = (a.tasks \ {"schedulerDied"}) \cup {"abilityDied"}, !.timers = x]
<1>1. a \in AbilityRec /\ a.state # "none"
  BY Made, RecTyped DEF ManagerInv, OnAbilityDied
<1>2. ability \in [Recs -> AbilityRec] /\ cleaning \in [Recs -> SUBSET NoCopy]
  BY DEF ManagerInv, SInv, ServicesTyped, IInv, CleaningOK
<1>3. /\ ability' = [ability EXCEPT ![r] = b]
      /\ UNCHANGED <<serviceMap, terminating, conn, books, client, reqs, restartTasks, cleaning,
                     raced>>
  BY DEF OnAbilityDied
<1>4. x \in SUBSET Timers
  BY <1>1 DEF AbilityRec
<1> HIDE DEF x
<1>5. b \in AbilityRec
  BY <1>1, <1>4 DEF AbilityRec, Tasks
<1>6. /\ b.key = a.key /\ b.byConnect = a.byConnect /\ b.startId = a.startId /\ b.state = a.state
      /\ b.proc = a.proc /\ b.isConnected = a.isConnected /\ b.todo = a.todo /\ b.tasks # {}
  BY <1>1 DEF AbilityRec
<1> HIDE DEF b
<1> QED
  BY <1>1, <1>2, <1>3, <1>5, <1>6, TendStep

\* A frozen process submits its task.
LEMMA FreezeKeeps ==
    ASSUME ManagerInv, IInv', NEW r \in Recs, HandleProcessFrozen(r)
    PROVE  SInv' /\ LInv' /\ WInv'
<1> DEFINE a == ability[r]
           b == [a EXCEPT !.tasks = a.tasks \cup {"frozen"}]
<1>1. a \in AbilityRec /\ a.state # "none"
  BY Made, RecTyped DEF ManagerInv, HandleProcessFrozen
<1>2. ability \in [Recs -> AbilityRec] /\ cleaning \in [Recs -> SUBSET NoCopy]
  BY DEF ManagerInv, SInv, ServicesTyped, IInv, CleaningOK
<1>3. /\ ability' = [ability EXCEPT ![r] = b]
      /\ UNCHANGED <<serviceMap, terminating, conn, books, client, reqs, restartTasks, cleaning,
                     raced>>
  BY <1>2 DEF HandleProcessFrozen
<1>4. b \in AbilityRec
  BY <1>1 DEF AbilityRec, Tasks
<1>5. /\ b.key = a.key /\ b.byConnect = a.byConnect /\ b.startId = a.startId /\ b.state = a.state
      /\ b.proc = a.proc /\ b.isConnected = a.isConnected /\ b.todo = a.todo /\ b.tasks # {}
  BY <1>1 DEF AbilityRec
<1> HIDE DEF b
<1> QED
  BY <1>1, <1>2, <1>3, <1>4, <1>5, TendStep

\* The record in ab is the one in ability, less a "terminate" timer or call.
LEMMA TerminateDoneKeeps ==
    ASSUME ManagerInv, IInv', NEW r \in Recs, NEW x \in AbilityRec, ability[r].state # "none",
           x.key = ability[r].key, x.byConnect = ability[r].byConnect,
           x.startId = ability[r].startId, x.state = ability[r].state,
           x.proc = ability[r].proc, x.isConnected = ability[r].isConnected,
           x.tasks = ability[r].tasks, x.cmdTimers = ability[r].cmdTimers,
           ability[r].timers \cap {"load", "inactive"} \subseteq x.timers,
           x.todo["connect"] = ability[r].todo["connect"],
           x.todo["command"] = ability[r].todo["command"],
           TerminateDone(r, [ability EXCEPT ![r] = x])
    PROVE  SInv' /\ LInv' /\ WInv'
<1> DEFINE ab == [ability EXCEPT ![r] = x]
<1>1. ability \in [Recs -> AbilityRec] /\ cleaning \in [Recs -> SUBSET NoCopy]
  BY DEF ManagerInv, SInv, ServicesTyped, IInv, CleaningOK
<1>2. ab[r] = x
  BY <1>1
<1>3. UNCHANGED <<serviceMap, conn, books, client, reqs, restartTasks, cleaning, raced>>
  BY DEF TerminateDone
<1>4. CASE x.state = "TERMINATING"
  <2> DEFINE b == [x EXCEPT !.proc = "dead", !.todo = NoMsgs]
  <2>1. ability' = [ab EXCEPT ![r].proc = "dead", ![r].todo = NoMsgs]
        /\ terminating' = terminating \ {r}
    BY <1>2, <1>4 DEF TerminateDone
  <2>2. ability' = [ability EXCEPT ![r] = b]
    BY <1>1, <2>1
  <2>3. b \in AbilityRec
    BY DEF AbilityRec, NoMsgs
  <2>4. /\ b.key = x.key /\ b.byConnect = x.byConnect /\ b.startId = x.startId /\ b.state = x.state
        /\ b.proc = "dead" /\ b.isConnected = x.isConnected /\ b.todo = NoMsgs
    BY DEF AbilityRec
  <2>5. ~(NoMsgs["connect"] > 0) /\ ~(NoMsgs["command"] > 0)
    BY DEF NoMsgs, Msgs
  <2>6. ~InService(r)
    BY <1>4, ServedUnderKey DEF ManagerInv
  <2>7. ~(b.todo["connect"] > 0) /\ ~(b.todo["command"] > 0) /\ terminating' \subseteq terminating
    BY <2>1, <2>4, <2>5
  <2> HIDE DEF b
  <2> QED
    BY <1>1, <1>3, <2>2, <2>3, <2>4, <2>6, <2>7, TendStep
<1>5. CASE x.state # "TERMINATING"
  <2>1. ability' = ab /\ UNCHANGED terminating
    BY <1>2, <1>5 DEF TerminateDone
  <2> QED
    BY <1>1, <1>3, <2>1, TendStep
<1> QED
  BY <1>4, <1>5

\* The service has terminated.
LEMMA DispatchTerminateKeeps ==
    ASSUME ManagerInv, IInv', NEW r \in Recs, DispatchTerminate(r)
    PROVE  SInv' /\ LInv' /\ WInv'
<1> DEFINE a == ability[r]
           t == [a.todo EXCEPT !["terminate"] = @ - 1]
           x == [a EXCEPT !.todo = t, !.timers = a.timers \ {"terminate"}]
<1>1. a \in AbilityRec /\ a.state # "none" /\ a.todo["terminate"] > 0
  <2>1. ability[r].todo["terminate"] > 0
    BY DEF DispatchTerminate
  <2> QED
    BY <2>1, Made, RecTyped DEF ManagerInv, Msgs
<1>2. ability \in [Recs -> AbilityRec]
  BY DEF ManagerInv, SInv, ServicesTyped
<1>3. a.todo \in [Msgs -> Nat]
  BY <1>1 DEF AbilityRec
<1>4. t \in [Msgs -> Nat] /\ t["connect"] = a.todo["connect"] /\ t["command"] = a.todo["command"]
  BY <1>1, <1>3 DEF Msgs
<1>5. [Took(r, "terminate") EXCEPT ![r].timers = @ \ {"terminate"}] = [ability EXCEPT ![r] = x]
  <2>1. Took(r, "terminate") = [ability EXCEPT ![r] = [a EXCEPT !.todo = t]]
    BY <1>2 DEF Took
  <2> HIDE DEF t
  <2> DEFINE y == [a EXCEPT !.todo = t]
  <2>2. [y EXCEPT !.timers = @ \ {"terminate"}] = x /\ y.timers = a.timers
    BY <1>1 DEF AbilityRec
  <2> HIDE DEF x, y
  <2>3. [[ability EXCEPT ![r] = y] EXCEPT ![r].timers = @ \ {"terminate"}] = [ability EXCEPT ![r] = x]
    BY <1>2, <2>2
  <2> QED
    BY <2>1, <2>3 DEF y
<1>6. TerminateDone(r, [ability EXCEPT ![r] = x])
  BY <1>5 DEF DispatchTerminate
<1> HIDE DEF t
<1>7. x \in AbilityRec
  BY <1>1, <1>4 DEF AbilityRec
<1>8. /\ x.key = a.key /\ x.byConnect = a.byConnect /\ x.startId = a.startId /\ x.state = a.state
      /\ x.proc = a.proc /\ x.isConnected = a.isConnected /\ x.todo = t /\ x.tasks = a.tasks
      /\ x.cmdTimers = a.cmdTimers /\ x.timers = a.timers \ {"terminate"}
  BY <1>1 DEF AbilityRec
<1> HIDE DEF x
<1> QED
  BY <1>1, <1>4, <1>6, <1>7, <1>8, TerminateDoneKeeps

\* STOP_TIMEOUT fires.
LEMMA StopTimeoutKeeps ==
    ASSUME ManagerInv, IInv', NEW r \in Recs, HandleStopTimeoutTask(r)
    PROVE  SInv' /\ LInv' /\ WInv'
<1> DEFINE a == ability[r]
           x == [a EXCEPT !.timers = a.timers \ {"terminate"}]
<1>1. a \in AbilityRec /\ a.state # "none"
  BY Made, RecTyped DEF ManagerInv, HandleStopTimeoutTask
<1>2. ability \in [Recs -> AbilityRec]
  BY DEF ManagerInv, SInv, ServicesTyped
<1>3. [ability EXCEPT ![r].timers = @ \ {"terminate"}] = [ability EXCEPT ![r] = x]
  BY <1>2
<1>4. TerminateDone(r, [ability EXCEPT ![r] = x])
  BY <1>3 DEF HandleStopTimeoutTask
<1>5. x \in AbilityRec
  BY <1>1 DEF AbilityRec
<1>6. /\ x.key = a.key /\ x.byConnect = a.byConnect /\ x.startId = a.startId /\ x.state = a.state
      /\ x.proc = a.proc /\ x.isConnected = a.isConnected /\ x.todo = a.todo /\ x.tasks = a.tasks
      /\ x.cmdTimers = a.cmdTimers /\ x.timers = a.timers \ {"terminate"}
  BY <1>1 DEF AbilityRec
<1> HIDE DEF x
<1> QED
  BY <1>1, <1>4, <1>5, <1>6, TerminateDoneKeeps

\* Nobody waits who did not wait before.
LEMMA NobodyWaitsMore ==
    ASSUME IInv, BookStep
    PROVE  /\ \A c \in Conns : conn'[c].state = "CONNECTING" => conn[c].state = "CONNECTING"
           /\ \A r \in Recs : SomeoneWaits(r)' => SomeoneWaits(r)
<1>1. PICK S : Advance(S) /\ Remove(S)
  BY DEF BookStep
<1>2. \A c \in Conns : conn'[c].state = "CONNECTING" => conn[c].state = "CONNECTING"
  BY <1>1 DEF Advance, Forward
<1>3. \A r \in Recs : connList'[r] \subseteq connList[r] /\ connList[r] \subseteq Conns
  BY SameService, ListedIsLive
<1> QED
  BY <1>2, <1>3 DEF SomeoneWaits

\* A record whose timers, tasks and connections' timers stay is still watched.
LEMMA StaysWatched ==
    ASSUME IInv, BookStep, NEW r \in Recs, Watch(r),
           ability'[r].state = ability[r].state,
           ability'[r].state = "INACTIVE" => ability'[r].startId = ability[r].startId,
           ability'[r].isConnected => ability[r].isConnected,
           ability[r].timers \subseteq ability'[r].timers,
           ability[r].cmdTimers \subseteq ability'[r].cmdTimers,
           ability[r].tasks \subseteq ability'[r].tasks, cleaning'[r] = cleaning[r],
           \A c \in Conns : conn[c].svc = r /\ conn[c].tasks \cap {"connect", "running"} # {} =>
                               conn'[c].tasks \cap {"connect", "running"} # {}
    PROVE  Watch(r)'
<1>1. Armed(r) => Armed(r)'
  BY SameService DEF Armed
<1>2. Tended(r) => Tended(r)'
  BY DEF Tended
<1> QED
  BY <1>1, <1>2, NobodyWaitsMore, WatchKept DEF StillWatched

\* A step in which the records in T leave service, connections end and none is made
\* or answered, and no service becomes ACTIVE.
LEMMA Shrinks ==
    ASSUME ManagerInv, IInv', BookStep, NEW T, NEW ab, Change(T, ab), ability' = ab,
           serviceMap' = Erased(T),
           \A r \in terminating' : r \in terminating \/ (r \in T /\ ab[r].state = "TERMINATING"),
           \A r \in Recs : ability[r].state = "none" => cleaning'[r] = cleaning[r],
           raced \subseteq raced', raced' \subseteq Recs,
           client' \in [Callbacks -> {"alive", "dying", "dead"}],
           reqs' \in [Keys -> Nat], \A k \in Keys : reqs'[k] > 0 => reqs[k] > 0,
           restartTasks' \subseteq Keys,
           \A c \in Conns : conn'[c].state \in {"CONNECTED", "DISCONNECTING"} =>
                               conn[c].state \in {"CONNECTED", "DISCONNECTING"},
           \A r \in T : connList'[r] = {} \/ r \in raced',
           \A r \in Recs : r \notin T /\ InService(r) /\ ab[r].isConnected => ability[r].isConnected,
           \A r \in Recs : r \notin T /\ InService(r) /\ connList[r] # {} /\ connList'[r] = {} =>
              ~ab[r].isConnected /\ (ab[r].startId # 0 \/ ~ab[r].byConnect),
           \A r \in Recs : ab[r].state = "ACTIVE" => ability[r].state = "ACTIVE",
           "reportFails" \notin Faults =>
              \A r \in Recs : r \notin T /\ InService(r) /\ Watch(r) => Watch(r)'
    PROVE  SInv' /\ LInv' /\ WInv'
<1>1. ServiceStep(T, NoRec, ab)
  BY LeaveStep DEF ManagerInv
<1>2. SInv'
  BY <1>1, ServiceStepSInv DEF ManagerInv, IInv
<1>3. NoRec \notin Recs
  BY DEF NoRec, Recs
<1>4. LinkStep(T, NoRec)
  <2>1. ASSUME NEW r \in Recs, r \notin T, InService(r), connList'[r] = {}
        PROVE  ~ability'[r].isConnected /\ (ability'[r].startId # 0 \/ ~ability'[r].byConnect)
    <3>1. CASE connList[r] = {}
      <4>1. ~ability[r].isConnected /\ (ability[r].startId # 0 \/ ~ability[r].byConnect)
        BY <2>1, <3>1 DEF ManagerInv, LInv, Linked, NoOrphanService
      <4>2. Moves(ability[r], ab[r], InService(r)) /\ ab[r] \in AbilityRec
            /\ ability[r] \in AbilityRec
        BY <2>1, RecTyped DEF Change, ManagerInv
      <4>3. ab[r].startId >= ability[r].startId /\ ab[r].byConnect = ability[r].byConnect
            /\ ab[r].startId \in Nat /\ ability[r].startId \in Nat
        BY <4>2 DEF Moves, AbilityRec
      <4> QED
        BY <2>1, <4>1, <4>3
    <3> QED
      BY <2>1, <3>1
  <2> QED
    BY <1>3, <2>1, SameService DEF LinkStep, ManagerInv
<1>5. LInv'
  BY <1>1, <1>2, <1>4, LinkStepLInv, RequestsKept DEF ManagerInv, LInv
<1>6. WInv'
  BY <1>1, <1>3, WatchInv DEF ManagerInv
<1> QED
  BY <1>2, <1>5, <1>6
-------------------------------------------------------------------------------
\* A client dies.
LEMMA ClientDiesKeeps ==
    ASSUME ManagerInv, IInv', NEW cb \in Callbacks, CallbackDies(cb)
    PROVE  SInv' /\ LInv' /\ WInv'
<1>1. /\ UNCHANGED <<serviceMap, terminating, ability, conn, books, reqs, restartTasks,
                     cleaning, raced>>
      /\ client' = [client EXCEPT ![cb] = IF cb \in recipients THEN "dying" ELSE "dead"]
  BY DEF CallbackDies
<1>2. BookStep
  BY <1>1, QuietStep DEF ManagerInv
<1>3. ServicesTyped
  BY DEF ManagerInv, SInv
<1>4. client' \in [Callbacks -> {"alive", "dying", "dead"}]
  BY <1>1, <1>3 DEF ServicesTyped
<1>5. UNCHANGED connList
  BY <1>1 DEF books
<1>6. \A r \in Recs : Watch(r) => Watch(r)'
  BY <1>1, <1>5 DEF Watch, Tended, Armed, SomeoneWaits
<1>7. Change({}, ability)
  BY ChangeNone DEF ManagerInv
<1>8. reqs \in [Keys -> Nat] /\ restartTasks \subseteq Keys
  BY <1>3 DEF ServicesTyped
<1> QED
  BY <1>1, <1>2, <1>4, <1>5, <1>6, <1>7, <1>8, Steady

\* The requests that wait for a key time out.
LEMMA RequestsTimeOutKeeps ==
    ASSUME ManagerInv, IInv', NEW k \in Keys, StartServiceTimeout(k)
    PROVE  SInv' /\ LInv' /\ WInv'
<1>1. /\ UNCHANGED <<serviceMap, terminating, ability, conn, books, client, restartTasks,
                     cleaning, raced>>
      /\ reqs' = [reqs EXCEPT ![k] = 0]
  BY DEF StartServiceTimeout
<1>2. BookStep
  BY <1>1, QuietStep DEF ManagerInv
<1>3. ServicesTyped
  BY DEF ManagerInv, SInv
<1>4. reqs' \in [Keys -> Nat] /\ \A j \in Keys : reqs'[j] > 0 => reqs[j] > 0
  BY <1>1, <1>3 DEF ServicesTyped
<1>5. UNCHANGED connList
  BY <1>1 DEF books
<1>6. \A r \in Recs : Watch(r) => Watch(r)'
  BY <1>1, <1>5 DEF Watch, Tended, Armed, SomeoneWaits
<1>7. Change({}, ability)
  BY ChangeNone DEF ManagerInv
<1>8. client \in [Callbacks -> {"alive", "dying", "dead"}] /\ restartTasks \subseteq Keys
  BY <1>3 DEF ServicesTyped
<1> QED
  BY <1>1, <1>2, <1>4, <1>5, <1>6, <1>7, <1>8, Steady

\* CONNECT_TIMEOUT fires.
LEMMA ConnectTimeoutKeeps ==
    ASSUME ManagerInv, IInv', NEW c \in Conns, ConnectTimeout(c)
    PROVE  SInv' /\ LInv' /\ WInv'
<1>1. /\ UNCHANGED <<serviceMap, terminating, ability, books, client, reqs, restartTasks,
                     cleaning, raced>>
      /\ conn' = [conn EXCEPT ![c].tasks = (@ \ {"connect"}) \cup {"running"}]
  BY DEF ConnectTimeout
<1>2. BookStep
  BY ConnectTimeoutStep DEF ManagerInv
<1>3. ServicesTyped /\ conn \in [Conns -> ConnRec]
  BY DEF ManagerInv, SInv, IInv, ConnOK
<1>4. /\ \A d \in Conns : conn'[d].state = conn[d].state
      /\ \A d \in Conns : d # c => conn'[d] = conn[d]
      /\ "running" \in conn'[c].tasks
  BY <1>1, <1>3 DEF ConnRec
<1>5. UNCHANGED connList
  BY <1>1 DEF books
<1>6. \A r \in Recs : Watch(r) => Watch(r)'
  BY <1>1, <1>2, <1>4, StaysWatched DEF ManagerInv
<1>7. Change({}, ability)
  BY ChangeNone DEF ManagerInv
<1>8. /\ client \in [Callbacks -> {"alive", "dying", "dead"}] /\ restartTasks \subseteq Keys
      /\ reqs \in [Keys -> Nat]
  BY <1>3 DEF ServicesTyped
<1> QED
  BY <1>1, <1>2, <1>4, <1>5, <1>6, <1>7, <1>8, Steady

\* Manager's ConnectAbility arms a timer when someone waits, and takes none away.
LEMMA ConnectTimerFacts ==
    ASSUME IInv, NEW r \in Recs, conn' = ConnectTimer(conn, connList[r])
    PROVE  /\ \A c \in Conns : conn'[c].state = conn[c].state /\ conn[c].tasks \subseteq conn'[c].tasks
           /\ SomeoneWaits(r) => Armed(r)'
<1> DEFINE W == {c \in connList[r] : conn[c].state = "CONNECTING"}
<1>1. conn \in [Conns -> ConnRec] /\ W \subseteq Conns
  BY ListedIsLive DEF IInv, ConnOK
<1>2. CASE W = {}
  BY <1>2 DEF ConnectTimer, SomeoneWaits
<1>3. CASE W # {}
  <2> DEFINE f == First(W)
  <2>1. f \in W
    BY <1>1, <1>3, FirstIn
  <2>2. conn' = [conn EXCEPT ![f].tasks = @ \cup {"connect"}]
    BY <1>3 DEF ConnectTimer
  <2>3. f \in Conns /\ conn[f].svc = r
    BY <1>1, <2>1, ListedIsLive
  <2> HIDE DEF f
  <2>4. \A c \in Conns : c # f => conn'[c] = conn[c]
    BY <1>1, <2>2, <2>3
  <2>5. conn'[f].state = conn[f].state /\ conn'[f].svc = r
        /\ conn'[f].tasks = conn[f].tasks \cup {"connect"}
    BY <1>1, <2>2, <2>3 DEF ConnRec
  <2>6. Armed(r)'
    BY <2>3, <2>5 DEF Armed
  <2> QED
    BY <2>4, <2>5, <2>6
<1> QED
  BY <1>2, <1>3
-------------------------------------------------------------------------------
(* Answers, disconnects and clients that die.                              *)

\* A call was answered.
LEMMA TookFacts ==
    ASSUME SInv, NEW r \in Recs, NEW m \in Msgs, ability[r].todo[m] > 0
    PROVE  \E a \in AbilityRec :
              /\ Took(r, m) = [ability EXCEPT ![r] = a] /\ Took(r, m)[r] = a
              /\ a.key = ability[r].key /\ a.state = ability[r].state
              /\ a.byConnect = ability[r].byConnect /\ a.startId = ability[r].startId
              /\ a.proc = ability[r].proc /\ a.isConnected = ability[r].isConnected
              /\ a.timers = ability[r].timers /\ a.tasks = ability[r].tasks
              /\ a.cmdTimers = ability[r].cmdTimers /\ (Expected(a) => Expected(ability[r]))
<1> DEFINE x == ability[r]
           t == [x.todo EXCEPT ![m] = @ - 1]
           a == [x EXCEPT !.todo = t]
<1>1. x \in AbilityRec /\ ability \in [Recs -> AbilityRec]
  BY RecTyped DEF SInv, ServicesTyped
<1>2. x.todo \in [Msgs -> Nat]
  BY <1>1 DEF AbilityRec
<1>3. t \in [Msgs -> Nat] /\ \A q \in Msgs : t[q] > 0 => x.todo[q] > 0
  BY <1>2
<1>4. Took(r, m) = [ability EXCEPT ![r] = a]
  BY <1>1 DEF Took
<1> HIDE DEF t
<1>5. a \in AbilityRec
  BY <1>1, <1>3 DEF AbilityRec
<1>6. /\ a.key = x.key /\ a.state = x.state /\ a.byConnect = x.byConnect /\ a.startId = x.startId
      /\ a.proc = x.proc /\ a.isConnected = x.isConnected /\ a.timers = x.timers /\ a.tasks = x.tasks
      /\ a.cmdTimers = x.cmdTimers /\ a.todo = t
  BY <1>1 DEF AbilityRec
<1> HIDE DEF a
<1>7. Expected(a) => Expected(x)
  BY <1>3, <1>6 DEF Expected, Msgs
<1>8. Took(r, m)[r] = a
  BY <1>1, <1>4
<1> QED
  BY <1>4, <1>5, <1>6, <1>7, <1>8

\* The connections of a service that is not ACTIVE wait.
LEMMA AllWait ==
    ASSUME ManagerInv, NEW r \in Recs, InService(r), ability[r].state # "ACTIVE", connList[r] # {}
    PROVE  SomeoneWaits(r)
<1>1. PICK c \in connList[r] : TRUE
  OBVIOUS
<1>2. c \in Conns /\ conn[c].svc = r
      /\ conn[c].state \in {"CONNECTING", "CONNECTED", "DISCONNECTING"}
  BY ListedIsLive DEF ManagerInv
<1>3. conn[c].state \notin {"CONNECTED", "DISCONNECTING"}
  BY <1>2 DEF ManagerInv, LInv, ConnectedIsActive
<1> QED
  BY <1>2, <1>3 DEF SomeoneWaits

\* The service reports that it is INACTIVE, and is started or connected.
LEMMA InactiveKeeps ==
    ASSUME ManagerInv, IInv', NEW r \in Recs, DispatchInactive(r)
    PROVE  SInv' /\ LInv' /\ WInv'
<1> DEFINE x == ability[r]
<1>1. x.todo["inactive"] > 0 /\ InService(r) /\ "inactive" \in Msgs
  BY DEF DispatchInactive, Msgs
<1>2. PICK a \in AbilityRec :
              /\ Took(r, "inactive") = [ability EXCEPT ![r] = a] /\ Took(r, "inactive")[r] = a
              /\ a.key = ability[r].key /\ a.state = ability[r].state
              /\ a.byConnect = ability[r].byConnect /\ a.startId = ability[r].startId
              /\ a.proc = ability[r].proc /\ a.isConnected = ability[r].isConnected
              /\ a.timers = ability[r].timers /\ a.tasks = ability[r].tasks
              /\ a.cmdTimers = ability[r].cmdTimers /\ (Expected(a) => Expected(ability[r]))
  BY <1>1, TookFacts DEF ManagerInv
<1> DEFINE ready == [a EXCEPT !.timers = a.timers \ {"inactive"}, !.state = "INACTIVE"]
           started == IF a.byConnect THEN ready ELSE CommandSent(ready, 1)
           connect == a.byConnect \/ connList[r] # {}
           b == IF connect THEN ConnectSent(started) ELSE started
<1>3. /\ a.state = "INACTIVATING"
      /\ ability' = [ability EXCEPT ![r] = b]
      /\ conn' = IF connect THEN ConnectTimer(conn, connList[r]) ELSE conn
      /\ UNCHANGED <<serviceMap, terminating, books, client, reqs, restartTasks, cleaning, raced>>
  BY <1>2 DEF DispatchInactive
<1>4. ServicesTyped /\ conn \in [Conns -> ConnRec]
  BY DEF ManagerInv, SInv, IInv, ConnOK
<1>5. x.startId = 0 /\ x.proc # "loading"
  BY <1>1, <1>2, <1>3 DEF ManagerInv, SInv, AnswersOK
<1>6. connect => connList[r] # {}
  BY <1>1, <1>2, <1>5 DEF ManagerInv, LInv, NoOrphanService
<1>7. x.isConnected => connList[r] # {}
  BY <1>1 DEF ManagerInv, LInv, Linked
<1>8. /\ ready \in AbilityRec /\ ready.state = "INACTIVE" /\ ready.key = x.key /\ ready.byConnect = x.byConnect
      /\ ready.startId = 0 /\ ready.proc = x.proc /\ ready.isConnected = x.isConnected
  <2>1. a.timers \ {"inactive"} \in SUBSET Timers
    BY DEF AbilityRec
  <2> QED
    BY <1>2, <1>5, <2>1 DEF AbilityRec, States
<1> HIDE DEF ready
<1>9. /\ started \in AbilityRec /\ started.state = "INACTIVE" /\ started.key = x.key
      /\ started.byConnect = x.byConnect /\ started.startId \in Nat
      /\ started.proc = x.proc /\ started.isConnected = x.isConnected
      /\ started.startId # 0 => started.cmdTimers # {}
      /\ started.startId = 0 => a.byConnect
  <2>1. CASE a.byConnect
    BY <1>8, <2>1
  <2>2. CASE ~a.byConnect
    <3>1. started = CommandSent(ready, 1)
      BY <2>2
    <3>2. PICK y : y = CommandSent(ready, 1)
      OBVIOUS
    <3>3. 1 \in Nat /\ 1 > 0
      OBVIOUS
    <3>4. /\ y \in AbilityRec /\ y.startId = ready.startId + 1 /\ y.state = "INACTIVE" /\ y.key = x.key
          /\ y.byConnect = x.byConnect /\ y.proc = x.proc /\ y.isConnected = x.isConnected
          /\ y.cmdTimers # {}
      BY <1>8, <3>2, <3>3, CommandSentFacts
    <3>5. y.startId = 1
      BY <1>8, <3>4
    <3> HIDE DEF started
    <3> QED
      BY <3>1, <3>2, <3>4, <3>5
  <2> QED
    BY <2>1, <2>2
<1> HIDE DEF started
<1>10. /\ b \in AbilityRec /\ b.state = "INACTIVE" /\ b.key = x.key
       /\ b.byConnect = x.byConnect /\ b.startId = started.startId /\ b.proc = x.proc
       /\ b.cmdTimers = started.cmdTimers
       /\ b.isConnected => connList[r] # {}
  <2>1. CASE connect
    BY <1>6, <1>9, <2>1, ConnectSentFacts
  <2>2. CASE ~connect
    BY <1>7, <1>9, <2>2
  <2> QED
    BY <2>1, <2>2
<1>11. (b.startId = 0 \/ b.isConnected) => connList[r] # {}
  BY <1>6, <1>9, <1>10
<1> HIDE DEF b
<1>12. Moves(x, b, InService(r))
  BY <1>1, <1>2, <1>3, <1>5, <1>9, <1>10 DEF Moves
<1>13. x.state # "none"
  BY <1>2, <1>3
<1> DEFINE ab == [ability EXCEPT ![r] = b]
<1>14. Change({}, ab)
  BY <1>10, <1>12, <1>13, ChangeOne DEF ManagerInv
<1>15. ab[r] = b /\ \A q \in Recs : q # r => ab[q] = ability[q]
  BY <1>4 DEF ServicesTyped
<1>16. BookStep
  <2>1. Advance({})
    BY <1>3, ConnSame, ConnectTimerAdvance DEF ManagerInv
  <2> QED
    BY <1>3, <2>1, TasksStep DEF ManagerInv
<1>17. /\ \A c \in Conns : conn'[c].state = conn[c].state /\ conn[c].tasks \subseteq conn'[c].tasks
       /\ connect /\ SomeoneWaits(r) => Armed(r)'
  <2>1. CASE connect
    BY <1>3, <2>1, ConnectTimerFacts DEF ManagerInv
  <2>2. CASE ~connect
    BY <1>3, <2>2
  <2> QED
    BY <2>1, <2>2
<1>18. ASSUME NEW q \in Recs, InService(q), Watch(q)
       PROVE  Watch(q)'
  <2>1. CASE q # r
    <3>1. ability'[q] = ability[q] /\ cleaning'[q] = cleaning[q]
      BY <1>3, <1>15, <2>1
    <3> QED
      BY <1>16, <1>17, <1>18, <3>1, StaysWatched DEF ManagerInv
  <2>2. CASE q = r
    <3>1. connList[r] # {} => Armed(r)'
      BY <1>1, <1>2, <1>3, <1>17, AllWait
    <3>2. ability'[r] = b
      BY <1>3, <1>15
    <3> QED
      BY <1>9, <1>10, <1>11, <2>2, <3>1, <3>2 DEF Watch
  <2> QED
    BY <2>1, <2>2
<1>19. ability' = ab /\ UNCHANGED connList
  BY <1>3 DEF books
<1> HIDE DEF ab
<1>20. \A q \in Recs : InService(q) /\ ab[q].isConnected => ability[q].isConnected \/ connList[q] # {}
  BY <1>10, <1>15
<1>21. \A q \in Recs : ab[q].state = "ACTIVE" => ability[q].state = "ACTIVE"
  BY <1>10, <1>15
<1>22. /\ client' \in [Callbacks -> {"alive", "dying", "dead"}] /\ restartTasks' \subseteq Keys
       /\ reqs' \in [Keys -> Nat]
  BY <1>3, <1>4 DEF ServicesTyped
<1> QED
  BY <1>3, <1>14, <1>16, <1>17, <1>18, <1>19, <1>20, <1>21, <1>22, Steady
-------------------------------------------------------------------------------
\* The last connection of a service is not dropped but disconnected through the
\* service, so no list becomes empty.
LEMMA NoneEmptied ==
    ASSUME IInv, NEW P, NEW cb, P \subseteq Live, \A c \in P : conn[c].cb = cb,
           NEW r \in Recs, connList[r] \subseteq P \ LastOnes(P)
    PROVE  connList[r] = {}
<1> SUFFICES ASSUME NEW d \in connList[r] PROVE FALSE
  OBVIOUS
<1>1. conn[d].svc = r /\ d \in P /\ d \notin LastOnes(P)
  BY ListedIsLive
<1>2. \A c \in connList[r] : c = d
  <2> TAKE c \in connList[r]
  <2>1. c \in Live /\ d \in Live /\ conn[c].svc = conn[d].svc /\ conn[c].cb = conn[d].cb
    BY ListedIsLive
  <2> QED
    BY <2>1 DEF IInv, OneConnPerTarget
<1>3. connList[r] = {d}
  BY <1>2
<1>4. Cardinality({d}) = 1
  BY FS_Singleton
<1> QED
  BY <1>1, <1>3, <1>4 DEF LastOnes

\* Connections of one callback are disconnected.
LEMMA DisconnectingKeeps ==
    ASSUME ManagerInv, IInv', BookStep, NEW P, NEW cb, P \subseteq Live, \A c \in P : conn[c].cb = cb,
           \A c \in P : conn[c].state = "CONNECTED",
           \A c \in Conns : conn'[c].state = Disconnecting(P)[c].state,
           \A c \in Conns : conn[c].tasks \cap {"connect", "running"} # {} =>
                               conn'[c].tasks \cap {"connect", "running"} # {},
           ability' = [r \in Recs |-> IF r \in ToldToDisconnect(P) THEN DisconnectSent(ability[r])
                                                                   ELSE ability[r]],
           Remove(P \ LastOnes(P)),
           UNCHANGED <<serviceMap, terminating, client, reqs, restartTasks, cleaning, raced>>
    PROVE  SInv' /\ LInv' /\ WInv'
<1>1. ServicesTyped
  BY DEF ManagerInv, SInv
<1>2. P \subseteq Conns
  BY DEF Live
<1>3. \A c \in Conns : conn'[c].state \in {"CONNECTED", "DISCONNECTING"} =>
                         conn[c].state \in {"CONNECTED", "DISCONNECTING"}
  BY <1>2, DisconnectingFacts DEF ManagerInv
<1>4. \A r \in Recs : connList'[r] = connList[r] \ (P \ LastOnes(P))
  BY DEF Remove
<1>5. \A r \in Recs : connList'[r] = {} => connList[r] = {}
  <2> SUFFICES ASSUME NEW r \in Recs, connList'[r] = {} PROVE connList[r] = {}
    OBVIOUS
  <2>1. connList[r] \subseteq P \ LastOnes(P)
    BY <1>4
  <2> QED
    BY <2>1, NoneEmptied DEF ManagerInv
<1>6. \A r \in Recs : ability'[r] = IF r \in ToldToDisconnect(P) THEN DisconnectSent(ability[r])
                                                                ELSE ability[r]
  OBVIOUS
<1>7. ASSUME NEW r \in Recs
      PROVE  /\ ability'[r] \in AbilityRec /\ ability'[r].key = ability[r].key
             /\ ability'[r].state = ability[r].state /\ ability'[r].byConnect = ability[r].byConnect
             /\ ability'[r].startId = ability[r].startId /\ ability'[r].proc = ability[r].proc
             /\ ability'[r].timers = ability[r].timers /\ ability'[r].tasks = ability[r].tasks
             /\ ability'[r].cmdTimers = ability[r].cmdTimers
             /\ ability'[r].isConnected => ability[r].isConnected
             /\ Expected(ability'[r]) => Expected(ability[r])
  BY <1>6, <1>7, RecTyped, DisconnectSentFacts DEF Expected, ManagerInv
<1>8. ASSUME NEW r \in Recs, ability[r].state = "none"
      PROVE  ability'[r] = ability[r]
  <2>1. \A c \in P : conn[c].state # "INIT"
    BY DEF Live
  <2>2. r \notin ToldToDisconnect(P)
    BY <1>2, <1>8, <2>1 DEF ToldToDisconnect, LastOnes, ManagerInv, SInv, Born
  <2> QED
    BY <1>6, <2>2
<1>9. PICK ab : ab = ability'
  OBVIOUS
<1>10. Change({}, ab)
  <2>1. ab \in [Recs -> AbilityRec]
    BY <1>7, <1>9
  <2>2. \A r \in Recs : Moves(ability[r], ab[r], InService(r))
    <3> TAKE r \in Recs
    <3>1. ability[r].startId \in Nat
      BY RecTyped DEF ManagerInv, AbilityRec
    <3> QED
      BY <1>7, <1>9, <3>1 DEF Moves
  <2> QED
    BY <1>8, <1>9, <2>1, <2>2 DEF Change
<1>11. \A r \in Recs : Watch(r) => Watch(r)'
  BY <1>7, StaysWatched DEF ManagerInv
<1>12. serviceMap' = Erased({})
  BY <1>1, ErasedNone
<1>13. /\ client' \in [Callbacks -> {"alive", "dying", "dead"}] /\ restartTasks' \subseteq Keys
       /\ reqs' \in [Keys -> Nat] /\ raced' \subseteq Recs
  BY <1>1 DEF ServicesTyped
<1>14. \A r \in Recs : ab[r].isConnected => ability[r].isConnected
  BY <1>7, <1>9
<1>15. \A r \in Recs : ab[r].state = "ACTIVE" => ability[r].state = "ACTIVE"
  BY <1>7, <1>9
<1> QED
  BY <1>3, <1>5, <1>9, <1>10, <1>11, <1>12, <1>13, <1>14, <1>15, Shrinks

\* Disconnecting takes no CONNECT_TIMEOUT away.
LEMMA DisconnectingTasks ==
    ASSUME IInv, NEW P
    PROVE  \A c \in Conns : conn[c].tasks \cap {"connect", "running"} # {} =>
                              Disconnecting(P)[c].tasks \cap {"connect", "running"} # {}
<1> TAKE c \in Conns
<1>1. conn[c] \in ConnRec
  BY DEF IInv, ConnOK
<1>2. CASE c \in LastOnes(P)
  BY <1>1, <1>2 DEF Disconnecting, ConnRec
<1>3. CASE c \notin LastOnes(P) /\ c \in P
  BY <1>1, <1>3 DEF Disconnecting, ConnRec, Dropped
<1>4. CASE c \notin LastOnes(P) /\ c \notin P
  BY <1>1, <1>4 DEF Disconnecting
<1> QED
  BY <1>2, <1>3, <1>4

\* A client disconnects.
LEMMA DisconnectKeeps ==
    ASSUME ManagerInv, IInv', NEW cb \in Callbacks, DisconnectAbilityLocked(cb)
    PROVE  SInv' /\ LInv' /\ WInv'
<1> DEFINE L == connectMap[cb]
           P == {c \in L : \A d \in L : d <= c => conn[d].state = "CONNECTED"}
<1>1. /\ conn' = Disconnecting(P)
      /\ ability' = [r \in Recs |-> IF r \in ToldToDisconnect(P) THEN DisconnectSent(ability[r])
                                                                 ELSE ability[r]]
      /\ Remove(P \ LastOnes(P))
      /\ UNCHANGED <<serviceMap, terminating, client, reqs, restartTasks, cleaning, raced>>
  BY DEF DisconnectAbilityLocked
<1>2. BookStep
  BY DisconnectStep DEF ManagerInv
<1>3. P \subseteq Live /\ (\A c \in P : conn[c].cb = cb) /\ P \subseteq Conns
  BY DEF ManagerInv, IInv, ListsAgree, Live
<1>4. \A c \in P : conn[c].state = "CONNECTED"
  BY <1>3 DEF Conns
<1> HIDE DEF P
<1>5. \A c \in Conns : conn[c].tasks \cap {"connect", "running"} # {} =>
                           conn'[c].tasks \cap {"connect", "running"} # {}
  BY <1>1, DisconnectingTasks DEF ManagerInv
<1> QED
  BY <1>1, <1>2, <1>3, <1>4, <1>5, DisconnectingKeeps

\* A client could not be told.
LEMMA RefusedKeeps ==
    ASSUME ManagerInv, IInv', NEW c \in Conns, HandleExtensionDisconnectTask(c)
    PROVE  SInv' /\ LInv' /\ WInv'
<1> DEFINE P == IF conn[c].state = "CONNECTED" THEN {c} ELSE {}
           cn == Disconnecting(P)
<1>1. /\ conn' = [cn EXCEPT ![c].tasks = @ \ {"fail"}]
      /\ ability' = [r \in Recs |-> IF r \in ToldToDisconnect(P) THEN DisconnectSent(ability[r])
                                                                 ELSE ability[r]]
      /\ Remove(P \ LastOnes(P))
      /\ UNCHANGED <<serviceMap, terminating, client, reqs, restartTasks, cleaning, raced>>
  BY DEF HandleExtensionDisconnectTask
<1>2. BookStep
  BY RefusedStep DEF ManagerInv
<1>3. P \subseteq Live /\ (\A d \in P : conn[d].cb = conn[c].cb) /\ P \subseteq Conns
      /\ (\A d \in P : conn[d].state = "CONNECTED")
  BY DEF Live
<1> HIDE DEF P
<1>4. cn \in [Conns -> ConnRec]
  BY <1>3, DisconnectingFacts DEF ManagerInv
<1>5. \A d \in Conns : conn[d].tasks \cap {"connect", "running"} # {} =>
                           cn[d].tasks \cap {"connect", "running"} # {}
  BY DisconnectingTasks DEF ManagerInv
<1>6. \A d \in Conns : conn'[d].state = cn[d].state
  <2> HIDE DEF cn
  <2> QED
    BY <1>1, <1>4 DEF ConnRec
<1>7. \A d \in Conns : conn'[d].tasks = IF d = c THEN cn[d].tasks \ {"fail"} ELSE cn[d].tasks
  <2> HIDE DEF cn
  <2> QED
    BY <1>1, <1>4 DEF ConnRec
<1>8. \A d \in Conns : conn[d].tasks \cap {"connect", "running"} # {} =>
                           conn'[d].tasks \cap {"connect", "running"} # {}
  <2> HIDE DEF cn
  <2> QED
    BY <1>5, <1>7
<1> QED
  BY <1>1, <1>2, <1>3, <1>6, <1>8, DisconnectingKeeps
-------------------------------------------------------------------------------
\* Only connections of the record r are touched: the other lists stay.
LEMMA OthersStay ==
    ASSUME IInv, NEW r \in Recs, NEW S, \A c \in S : c \in Conns => conn[c].svc = r,
           Remove(S)
    PROVE  \A q \in Recs : q # r => connList'[q] = connList[q]
<1> SUFFICES ASSUME NEW q \in Recs, q # r PROVE connList'[q] = connList[q]
  OBVIOUS
<1>1. \A c \in connList[q] : c \in Conns /\ conn[c].svc = q
  BY ListedIsLive
<1>2. \A c \in connList[q] : c \notin S
  BY <1>1
<1>3. connList'[q] = connList[q] \ S
  BY DEF Remove
<1> QED
  BY <1>2, <1>3

\* The record r leaves service, alone.
LEMMA OneLeaves ==
    ASSUME ManagerInv, IInv', BookStep, NEW r \in Recs, InService(r), NEW b \in AbilityRec,
           Leaves(ability[r], b), ability' = [ability EXCEPT ![r] = b],
           serviceMap' = Erased({r}),
           terminating' \subseteq terminating \cup {r}, r \in terminating' => b.state = "TERMINATING",
           \A q \in Recs : q # r => cleaning'[q] = cleaning[q],
           raced \subseteq raced', raced' \subseteq Recs,
           connList'[r] = {} \/ r \in raced',
           \A c \in Conns : conn'[c].state \in {"CONNECTED", "DISCONNECTING"} =>
                               conn[c].state \in {"CONNECTED", "DISCONNECTING"},
           \A c \in Conns : conn[c].svc # r => conn'[c] = conn[c],
           \A q \in Recs : q # r => connList'[q] = connList[q],
           UNCHANGED <<client, reqs, restartTasks>>
    PROVE  SInv' /\ LInv' /\ WInv'
<1> DEFINE ab == [ability EXCEPT ![r] = b]
<1>1. ServicesTyped
  BY DEF ManagerInv, SInv
<1>2. Change({r}, ab)
  BY ChangeLeave DEF ManagerInv
<1>3. ab[r] = b /\ \A q \in Recs : q # r => ab[q] = ability[q]
  BY <1>1 DEF ServicesTyped
<1>4. ability' = ab
  OBVIOUS
<1> HIDE DEF ab
<1>5. \A q \in Recs : q # r /\ Watch(q) => Watch(q)'
  <2> SUFFICES ASSUME NEW q \in Recs, q # r, Watch(q) PROVE Watch(q)'
    OBVIOUS
  <2>1. ability'[q] = ability[q] /\ cleaning'[q] = cleaning[q]
    BY <1>3, <1>4
  <2> QED
    BY <2>1, StaysWatched DEF ManagerInv
<1>6. /\ client' \in [Callbacks -> {"alive", "dying", "dead"}] /\ restartTasks' \subseteq Keys
      /\ reqs' \in [Keys -> Nat]
  BY <1>1 DEF ServicesTyped
<1>7. ability[r].state # "none"
  BY ServedUnderKey DEF ManagerInv
<1>8. \A q \in terminating' : q \in terminating \/ (q \in {r} /\ ab[q].state = "TERMINATING")
  BY <1>3
<1>9. \A q \in Recs : q \notin {r} /\ ab[q].isConnected => ability[q].isConnected
  BY <1>3
<1>10. \A q \in Recs : ab[q].state = "ACTIVE" => ability[q].state = "ACTIVE"
  BY <1>3 DEF Leaves
<1>11. \A q \in Recs : q \notin {r} => connList'[q] = connList[q]
  OBVIOUS
<1>12. \A q \in Recs : ability[q].state = "none" => cleaning'[q] = cleaning[q]
  BY <1>7
<1>13. \A q \in {r} : connList'[q] = {} \/ q \in raced'
  OBVIOUS
<1>14. \A q \in Recs : q \notin {r} /\ InService(q) /\ connList[q] # {} /\ connList'[q] = {} =>
         ~ab[q].isConnected /\ (ab[q].startId # 0 \/ ~ab[q].byConnect)
  BY <1>11
<1>15. \A q \in Recs : q \notin {r} /\ InService(q) /\ Watch(q) => Watch(q)'
  BY <1>5
<1> QED
  BY <1>2, <1>4, <1>6, <1>8, <1>9, <1>10, <1>12, <1>13, <1>14, <1>15, Shrinks

\* The record r loses connections but stays where it is.
LEMMA OneStays ==
    ASSUME ManagerInv, IInv', BookStep, NEW r \in Recs, ability[r].state # "none", NEW b \in AbilityRec,
           Moves(ability[r], b, InService(r)), ability' = [ability EXCEPT ![r] = b],
           b.state = ability[r].state,
           UNCHANGED <<serviceMap, terminating, client, reqs, restartTasks, raced>>,
           \A q \in Recs : q # r => cleaning'[q] = cleaning[q],
           \A c \in Conns : conn'[c].state \in {"CONNECTED", "DISCONNECTING"} =>
                               conn[c].state \in {"CONNECTED", "DISCONNECTING"},
           \A c \in Conns : conn[c].svc # r => conn'[c] = conn[c],
           \A q \in Recs : q # r => connList'[q] = connList[q],
           b.isConnected => ability[r].isConnected,
           InService(r) /\ connList[r] # {} /\ connList'[r] = {} =>
              ~b.isConnected /\ (b.startId # 0 \/ ~b.byConnect),
           InService(r) /\ Watch(r) => Watch(r)'
    PROVE  SInv' /\ LInv' /\ WInv'
<1> DEFINE ab == [ability EXCEPT ![r] = b]
<1>1. ServicesTyped
  BY DEF ManagerInv, SInv
<1>2. Change({}, ab)
  BY ChangeOne DEF ManagerInv
<1>3. ab[r] = b /\ \A q \in Recs : q # r => ab[q] = ability[q]
  BY <1>1 DEF ServicesTyped
<1>4. ability' = ab
  OBVIOUS
<1> HIDE DEF ab
<1>5. \A q \in Recs : InService(q) /\ Watch(q) => Watch(q)'
  <2> SUFFICES ASSUME NEW q \in Recs, q # r, Watch(q) PROVE Watch(q)'
    OBVIOUS
  <2>1. ability'[q] = ability[q] /\ cleaning'[q] = cleaning[q]
    BY <1>3, <1>4
  <2> QED
    BY <2>1, StaysWatched DEF ManagerInv
<1>6. /\ client' \in [Callbacks -> {"alive", "dying", "dead"}] /\ restartTasks' \subseteq Keys
      /\ reqs' \in [Keys -> Nat] /\ raced' \subseteq Recs
  BY <1>1 DEF ServicesTyped
<1>7. serviceMap' = Erased({})
  BY <1>1, ErasedNone
<1>8. \A q \in Recs : InService(q) /\ connList[q] # {} /\ connList'[q] = {} =>
         ~ab[q].isConnected /\ (ab[q].startId # 0 \/ ~ab[q].byConnect)
  BY <1>3
<1>9. \A q \in Recs : ab[q].isConnected => ability[q].isConnected
  BY <1>3
<1>10. \A q \in Recs : ab[q].state = "ACTIVE" => ability[q].state = "ACTIVE"
  BY <1>3
<1>11. \A q \in Recs : ability[q].state = "none" => cleaning'[q] = cleaning[q]
  OBVIOUS
<1>12. /\ \A q \in {} : connList'[q] = {} \/ q \in raced'
       /\ \A q \in Recs : q \notin {} /\ InService(q) /\ Watch(q) => Watch(q)'
       /\ \A q \in Recs : q \notin {} /\ InService(q) /\ connList[q] # {} /\ connList'[q] = {} =>
            ~ab[q].isConnected /\ (ab[q].startId # 0 \/ ~ab[q].byConnect)
       /\ \A q \in Recs : q \notin {} /\ InService(q) /\ ab[q].isConnected => ability[q].isConnected
  BY <1>5, <1>8, <1>9
<1>13. \A q \in terminating' : q \in terminating \/ (q \in {} /\ ab[q].state = "TERMINATING")
  OBVIOUS
<1> QED
  <2> DEFINE T == {}
  <2>1. /\ Change(T, ab) /\ serviceMap' = Erased(T)
        /\ \A q \in T : connList'[q] = {} \/ q \in raced'
        /\ \A q \in Recs : q \notin T /\ InService(q) /\ Watch(q) => Watch(q)'
        /\ \A q \in Recs : q \notin T /\ InService(q) /\ connList[q] # {} /\ connList'[q] = {} =>
             ~ab[q].isConnected /\ (ab[q].startId # 0 \/ ~ab[q].byConnect)
        /\ \A q \in Recs : q \notin T /\ InService(q) /\ ab[q].isConnected => ability[q].isConnected
        /\ \A q \in terminating' : q \in terminating \/ (q \in T /\ ab[q].state = "TERMINATING")
    BY <1>2, <1>7, <1>12, <1>13
  <2> HIDE DEF T
  <2>2. raced \subseteq raced' /\ \A k \in Keys : reqs'[k] > 0 => reqs[k] > 0
    OBVIOUS
  <2> QED
    BY <1>4, <1>6, <1>10, <1>11, <2>1, <2>2, Shrinks

\* Nothing is erased for a record that is out of service.
LEMMA ErasedAbsent ==
    ASSUME SInv, NEW r, ~InService(r)
    PROVE  Erased({r}) = serviceMap
  BY DEF Erased, InService, SInv, ServicesTyped

\* A record that is told to terminate, after it lost its connections.
LEMMA TerminatedFacts ==
    ASSUME SInv, NEW r \in Recs, NEW S, NEW x \in AbilityRec, x.key = ability[r].key
    PROVE  LET b == TerminateSent(Unlinked(x, r, S))
           IN  b \in AbilityRec /\ Leaves(ability[r], b) /\ b.state = "TERMINATING"
<1>0. Unlinked(x, r, S) \in AbilityRec /\ Unlinked(x, r, S).key = x.key
  BY UnlinkedFacts
<1>1. PICK u \in AbilityRec : u = Unlinked(x, r, S) /\ u.key = x.key
  BY <1>0
<1>2. PICK b : b = TerminateSent(u)
  OBVIOUS
<1>3. /\ b \in AbilityRec /\ b.startId = 0 /\ b.key = ability[r].key /\ b.state = "TERMINATING"
      /\ b.todo["connect"] = 0 /\ b.todo["command"] = 0
  BY <1>1, <1>2, TerminateSentFacts
<1>4. ~Expected(b)
  BY <1>3 DEF Expected
<1> QED
  BY <1>1, <1>2, <1>3, <1>4 DEF Leaves

\* Only connections in S change when they are dropped.
LEMMA DropConnsFacts ==
    ASSUME IInv, NEW S, S \subseteq Conns, conn' = DropConns(S)
    PROVE  /\ \A c \in Conns : c \notin S => conn'[c] = conn[c]
           /\ \A c \in Conns : c \in S => conn'[c].state = "DISCONNECTED"
<1>1. \A c \in Conns : c \notin S => conn'[c] = conn[c]
  BY DEF DropConns
<1>2. \A c \in Conns : c \in S => conn'[c].state = "DISCONNECTED"
  BY DEF DropConns, Dropped, IInv, ConnOK, ConnRec
<1> QED
  BY <1>1, <1>2

\* A service is stopped.
LEMMA TerminateKeeps ==
    ASSUME ManagerInv, IInv', NEW r \in Recs, Terminate(r)
    PROVE  SInv' /\ LInv' /\ WInv'
<1> DEFINE S == connList[r]
           b == TerminateSent(Unlinked(ability[r], r, S))
<1>1. /\ InService(r) /\ conn' = DropConns(S) /\ Remove(S)
      /\ ability' = [ability EXCEPT ![r] = b]
      /\ serviceMap' = Erased({r}) /\ terminating' = terminating \cup {r}
      /\ UNCHANGED <<client, reqs, restartTasks, cleaning, raced>>
  BY DEF Terminate
<1>2. S \subseteq Conns /\ \A c \in S : conn[c].svc = r
  BY ListedIsLive DEF ManagerInv
<1>3. b \in AbilityRec /\ Leaves(ability[r], b) /\ b.state = "TERMINATING"
  BY RecTyped, TerminatedFacts DEF ManagerInv
<1> HIDE DEF b, S
<1>4. /\ \A c \in Conns : conn[c].svc # r => conn'[c] = conn[c]
      /\ \A c \in Conns : conn'[c].state \in {"CONNECTED", "DISCONNECTING"} =>
                               conn[c].state \in {"CONNECTED", "DISCONNECTING"}
  BY <1>1, <1>2, DropConnsFacts DEF ManagerInv
<1>5. \A q \in Recs : q # r => connList'[q] = connList[q]
  BY <1>1, <1>2, OthersStay DEF ManagerInv
<1>6. connList'[r] = {}
  BY <1>1 DEF Remove, S
<1>7. BookStep
  BY TerminateStep DEF ManagerInv
<1>8. raced' \subseteq Recs
  BY <1>1 DEF ManagerInv, SInv, ServicesTyped
<1> QED
  BY <1>1, <1>3, <1>4, <1>5, <1>6, <1>7, <1>8, OneLeaves

\* The record x differs from a at most in the calls that were answered.
Answered(a, x) ==
    /\ x \in AbilityRec
    /\ x.key = a.key /\ x.state = a.state /\ x.byConnect = a.byConnect /\ x.startId = a.startId
    /\ x.proc = a.proc /\ x.isConnected = a.isConnected /\ x.timers = a.timers
    /\ x.tasks = a.tasks /\ x.cmdTimers = a.cmdTimers /\ (Expected(x) => Expected(a))

\* A disconnect is complete.
LEMMA DisconnectDoneKeeps ==
    ASSUME ManagerInv, IInv', BookStep, NEW r \in Recs, ability[r].state # "none",
           NEW x, Answered(ability[r], x), NEW cn, ButForTasks(cn),
           \A d \in Conns : conn[d].svc # r => cn[d] = conn[d],
           \A d \in Conns : conn[d].tasks \cap {"connect", "running"} # {} =>
                               cn[d].tasks \cap {"connect", "running"} # {},
           DisconnectDone(r, [ability EXCEPT ![r] = x], cn),
           UNCHANGED <<client, reqs, restartTasks, cleaning, raced>>
    PROVE  SInv' /\ LInv' /\ WInv'
<1> DEFINE ab == [ability EXCEPT ![r] = x]
           D == InState(connList[r], "DISCONNECTING")
           f == First(D)
<1>1. ServicesTyped /\ x \in AbilityRec
  BY DEF ManagerInv, SInv, Answered
<1>2. ab[r] = x /\ ab \in [Recs -> AbilityRec]
  BY <1>1 DEF ServicesTyped
<1>3. ability[r].startId \in Nat
  BY RecTyped DEF ManagerInv, AbilityRec
<1>4. Moves(ability[r], x, InService(r))
  BY <1>3 DEF Moves, Answered
<1>5. CASE ~(InService(r) /\ D # {} /\ ab[r].state = "ACTIVE")
  <2>1. ability' = ab /\ conn' = cn /\ UNCHANGED <<serviceMap, terminating, books>>
    BY <1>5 DEF DisconnectDone
  <2>2. UNCHANGED connList
    BY <2>1 DEF books
  <2>3. ability'[r] = x
    BY <1>2, <2>1
  <2>4. Watch(r) => Watch(r)'
    BY <2>1, <2>3, StaysWatched DEF Answered, ManagerInv
  <2>5. \A c \in Conns : conn'[c].state = conn[c].state
    BY <2>1 DEF ButForTasks
  <2> QED
    BY <1>1, <1>4, <2>1, <2>2, <2>4, <2>5, OneStays DEF Answered
<1>6. CASE InService(r) /\ D # {} /\ ab[r].state = "ACTIVE"
  <2> DEFINE done == [x EXCEPT !.isConnected = IF connList[r] = {f} THEN FALSE ELSE x.isConnected]
             last == connList[r] = {f} /\ x.startId = 0
  <2>1. /\ Remove({f}) /\ conn' = [cn EXCEPT ![f] = Dropped(cn[f])]
        /\ ability' = [ab EXCEPT ![r] = IF last THEN TerminateSent(done) ELSE done]
        /\ serviceMap' = Erased(IF last THEN {r} ELSE {})
        /\ terminating' = terminating \cup (IF last THEN {r} ELSE {})
    BY <1>2, <1>6 DEF DisconnectDone, NoneLeft
  <2>2. D \subseteq Conns /\ \A c \in D : c \in connList[r] /\ conn[c].svc = r
    BY ListedIsLive DEF InState, ManagerInv
  <2>3. f \in D
    BY <1>6, <2>2, FirstIn
  <2> HIDE DEF D, f
  <2>4. cn \in [Conns -> ConnRec] /\ f \in Conns /\ conn[f].svc = r /\ f \in connList[r]
    BY <2>2, <2>3 DEF ButForTasks
  <2>5. \A c \in Conns : conn'[c] = IF c = f THEN Dropped(cn[f]) ELSE cn[c]
    BY <2>1, <2>4
  <2>6. /\ Dropped(cn[f]).state = "DISCONNECTED"
        /\ Dropped(cn[f]).tasks = cn[f].tasks \cap {"connect", "running", "null"}
    BY <2>4 DEF Dropped, ConnRec
  <2>7. /\ \A c \in Conns : conn[c].svc # r => conn'[c] = conn[c]
        /\ \A c \in Conns : conn'[c].state \in {"CONNECTED", "DISCONNECTING"} =>
                               conn[c].state \in {"CONNECTED", "DISCONNECTING"}
    BY <2>4, <2>5, <2>6 DEF ButForTasks
  <2>8. \A c \in Conns : conn[c].tasks \cap {"connect", "running"} # {} =>
                               conn'[c].tasks \cap {"connect", "running"} # {}
    <3> TAKE c \in Conns
    <3>1. CASE c = f
      BY <2>5, <2>6, <3>1
    <3>2. CASE c # f
      BY <2>5, <3>2
    <3> QED
      BY <3>1, <3>2
  <2>9. \A q \in Recs : q # r => connList'[q] = connList[q]
    BY <2>1, <2>4, OthersStay DEF ManagerInv
  <2>10. connList'[r] = connList[r] \ {f}
    BY <2>1 DEF Remove
  <2>11. done \in AbilityRec
    BY <1>1 DEF AbilityRec
  <2>12. /\ done.key = x.key /\ done.state = x.state /\ done.byConnect = x.byConnect
         /\ done.startId = x.startId /\ done.proc = x.proc /\ done.todo = x.todo
         /\ done.timers = x.timers /\ done.tasks = x.tasks /\ done.cmdTimers = x.cmdTimers
    BY <1>1 DEF AbilityRec
  <2>13. done.isConnected => x.isConnected /\ connList[r] # {f}
    BY <1>1 DEF AbilityRec
  <2> HIDE DEF done
  <2>14. CASE last
    <3> DEFINE b == TerminateSent(done)
    <3>1. /\ b \in AbilityRec /\ b.startId = 0 /\ b.key = x.key /\ b.state = "TERMINATING"
          /\ b.todo["connect"] = 0 /\ b.todo["command"] = 0
      BY <2>11, <2>12, TerminateSentFacts
    <3>2. ability' = [ability EXCEPT ![r] = b]
      BY <1>1, <2>1, <2>14
    <3> HIDE DEF b
    <3>3. Leaves(ability[r], b)
      BY <3>1 DEF Leaves, Expected, Answered
    <3>4. /\ serviceMap' = Erased({r}) /\ terminating' = terminating \cup {r} /\ connList'[r] = {}
          /\ raced' \subseteq Recs
      BY <1>1, <2>1, <2>10, <2>14 DEF ServicesTyped
    <3> QED
      BY <1>6, <2>7, <2>9, <3>1, <3>2, <3>3, <3>4, OneLeaves
  <2>15. CASE ~last
    <3>1. ability' = [ability EXCEPT ![r] = done]
      BY <1>1, <2>1, <2>15
    <3>2. UNCHANGED <<serviceMap, terminating>>
      BY <1>1, <2>1, <2>15, ErasedNone
    <3>3. Moves(ability[r], done, InService(r))
      BY <1>4, <2>12 DEF Moves, Expected
    <3>4. connList'[r] = {} => ~done.isConnected /\ done.startId # 0
      <4>1. connList'[r] = {} => connList[r] = {f}
        BY <2>4, <2>10
      <4> QED
        BY <2>12, <2>13, <2>15, <4>1
    <3>5. done.state = ability[r].state /\ (done.isConnected => ability[r].isConnected)
      BY <2>12, <2>13 DEF Answered
    <3>6. ability'[r] = done
      BY <1>1, <3>1 DEF ServicesTyped
    <3>7. Watch(r) => Watch(r)'
      BY <2>8, <2>12, <3>5, <3>6, StaysWatched DEF Answered, ManagerInv
    <3> QED
      BY <2>7, <2>9, <2>11, <3>1, <3>2, <3>3, <3>4, <3>5, <3>7, OneStays
  <2> QED
    BY <2>14, <2>15
<1> QED
  BY <1>5, <1>6

\* The service's answer to onDisconnect.
LEMMA DisconnectAnswerKeeps ==
    ASSUME ManagerInv, IInv', NEW r \in Recs, ScheduleDisconnectAbilityDone(r)
    PROVE  SInv' /\ LInv' /\ WInv'
<1>1. /\ ability[r].todo["disconnect"] > 0
      /\ DisconnectDone(r, Took(r, "disconnect"), conn)
      /\ UNCHANGED <<client, reqs, restartTasks, cleaning, raced>>
  BY DEF ScheduleDisconnectAbilityDone
<1>2. PICK x : Answered(ability[r], x) /\ Took(r, "disconnect") = [ability EXCEPT ![r] = x]
  <2>1. "disconnect" \in Msgs
    BY DEF Msgs
  <2> QED
    BY <1>1, <2>1, TookFacts DEF ManagerInv, Answered
<1>3. DisconnectDone(r, [ability EXCEPT ![r] = x], conn)
  BY <1>1, <1>2
<1>4. ability[r].state # "none"
  BY <1>1, Made DEF ManagerInv, Msgs
<1>5. ButForTasks(conn)
  BY DEF ButForTasks, ManagerInv, IInv, ConnOK
<1>6. BookStep
  BY DisconnectAnswerStep DEF ManagerInv
<1> QED
  BY <1>1, <1>2, <1>3, <1>4, <1>5, <1>6, DisconnectDoneKeeps

\* The timer of a disconnect, and the task for a null remote object.
LEMMA DisconnectTaskKeeps ==
    ASSUME ManagerInv, IInv', NEW c \in Conns, NEW task \in {"disconnect", "null"}, DisconnectTask(c, task)
    PROVE  SInv' /\ LInv' /\ WInv'
<1> DEFINE cn == [conn EXCEPT ![c].tasks = @ \ {task}]
<1>1. /\ task \in conn[c].tasks /\ DisconnectDone(conn[c].svc, ability, cn)
      /\ UNCHANGED <<client, reqs, restartTasks, cleaning, raced>>
  BY DEF DisconnectTask
<1>2. conn[c].state # "INIT" /\ conn \in [Conns -> ConnRec]
  BY <1>1 DEF ManagerInv, IInv, ConnOK
<1>3. PICK r \in Recs : r = conn[c].svc
  BY <1>2 DEF ManagerInv, IInv, ConnOK
<1>4. \A d \in Conns : d # c => cn[d] = conn[d]
  BY <1>2
<1>5. cn \in [Conns -> ConnRec]
  BY <1>2 DEF ConnRec
<1>6. cn[c].cb = conn[c].cb /\ cn[c].svc = conn[c].svc /\ cn[c].state = conn[c].state
      /\ cn[c].tasks = conn[c].tasks \ {task}
  BY <1>2 DEF ConnRec
<1>7. DisconnectDone(r, ability, cn)
  BY <1>1, <1>3
<1> HIDE DEF cn
<1>8. ButForTasks(cn)
  BY <1>2, <1>4, <1>5, <1>6 DEF ButForTasks, ManagerInv, IInv, ConnOK
<1>9. ability[r].state # "none"
  BY <1>2, <1>3 DEF ManagerInv, SInv, Born
<1>10. ability = [ability EXCEPT ![r] = ability[r]] /\ Answered(ability[r], ability[r])
  <2>1. ability[r] \in AbilityRec
    BY RecTyped DEF ManagerInv
  <2> QED
    BY <2>1 DEF ManagerInv, SInv, ServicesTyped, Answered
<1>11. BookStep
  BY DisconnectTaskStep DEF ManagerInv
<1>12. \A d \in Conns : conn[d].tasks \cap {"connect", "running"} # {} =>
                               cn[d].tasks \cap {"connect", "running"} # {}
  BY <1>4, <1>6
<1>13. PICK x : x = ability[r]
  OBVIOUS
<1>14. DisconnectDone(r, [ability EXCEPT ![r] = x], cn) /\ Answered(ability[r], x)
  BY <1>7, <1>10, <1>13
<1> QED
  BY <1>1, <1>3, <1>4, <1>8, <1>9, <1>11, <1>12, <1>14, DisconnectDoneKeeps

\* The task of CONNECT_TIMEOUT: all connections of the service end.
LEMMA ConnectTimeoutTaskKeeps ==
    ASSUME ManagerInv, IInv', NEW c \in Conns, HandleConnectTimeoutTask(c)
    PROVE  SInv' /\ LInv' /\ WInv'
<1>1. "running" \in conn[c].tasks
  BY DEF HandleConnectTimeoutTask
<1>2. conn[c].state # "INIT" /\ conn \in [Conns -> ConnRec]
  BY <1>1 DEF ManagerInv, IInv, ConnOK
<1>3. PICK r \in Recs : r = conn[c].svc
  BY <1>2 DEF ManagerInv, IInv, ConnOK
<1> DEFINE S == connList[r]
           ends == InService(r) /\ ability[r].startId = 0
           u == Unlinked(ability[r], r, S)
           y(d) == IF d \in S THEN [Dropped(conn[d]) EXCEPT !.tasks = @ \ {"connect"}] ELSE conn[d]
           z(d) == IF d = c THEN [y(d) EXCEPT !.tasks = @ \ {"running"}] ELSE y(d)
<1>4. /\ conn' = [d \in Conns |-> z(d)]
      /\ Remove(S)
      /\ ability' = [ability EXCEPT ![r] = IF ends THEN TerminateSent(u) ELSE u]
      /\ serviceMap' = Erased(IF ends THEN {r} ELSE {})
      /\ terminating' = terminating \cup (IF ends THEN {r} ELSE {})
      /\ UNCHANGED <<client, reqs, restartTasks, cleaning, raced>>
  BY <1>3 DEF HandleConnectTimeoutTask
<1>5. S \subseteq Conns /\ \A d \in S : conn[d].svc = r
  BY ListedIsLive DEF ManagerInv
<1>6. \A d \in Conns : y(d) \in ConnRec /\ (d \in S => y(d).state = "DISCONNECTED")
                       /\ (d \notin S => y(d) = conn[d])
  BY <1>2, <1>5 DEF Dropped, ConnRec, ConnStates, ConnTasks
<1> HIDE DEF y
<1>7. \A d \in Conns : z(d).state = y(d).state /\ (d # c => z(d) = y(d))
  BY <1>6 DEF ConnRec
<1>8. \A d \in Conns : conn'[d] = z(d)
  BY <1>4
<1> HIDE DEF z
<1>9. /\ \A d \in Conns : conn[d].svc # r => conn'[d] = conn[d]
      /\ \A d \in Conns : conn'[d].state \in {"CONNECTED", "DISCONNECTING"} =>
                               conn[d].state \in {"CONNECTED", "DISCONNECTING"}
  BY <1>3, <1>5, <1>6, <1>7, <1>8
<1>10. BookStep
  BY ConnectTimeoutTaskStep DEF ManagerInv
<1>11. \A q \in Recs : q # r => connList'[q] = connList[q]
  BY <1>4, <1>5, OthersStay DEF ManagerInv
<1>12. connList'[r] = {}
  BY <1>4 DEF Remove
<1>13. ServicesTyped /\ ability[r] \in AbilityRec
  BY RecTyped DEF ManagerInv, SInv
<1>14. CASE ends
  <2> DEFINE b == TerminateSent(u)
  <2>1. b \in AbilityRec /\ Leaves(ability[r], b) /\ b.state = "TERMINATING"
    BY <1>13, TerminatedFacts DEF ManagerInv
  <2> HIDE DEF b
  <2>2. /\ ability' = [ability EXCEPT ![r] = b] /\ serviceMap' = Erased({r})
        /\ terminating' = terminating \cup {r} /\ raced' \subseteq Recs
    BY <1>4, <1>13, <1>14 DEF b, ServicesTyped
  <2> QED
    BY <1>4, <1>9, <1>10, <1>11, <1>12, <1>14, <2>1, <2>2, OneLeaves
<1>15. CASE ~ends
  <2>1. /\ u \in AbilityRec /\ (u.isConnected => ability[r].isConnected /\ ~Emptied(r, S))
        /\ u.key = ability[r].key /\ u.state = ability[r].state /\ u.byConnect = ability[r].byConnect
        /\ u.startId = ability[r].startId /\ u.proc = ability[r].proc /\ u.timers = ability[r].timers
        /\ u.tasks = ability[r].tasks /\ u.cmdTimers = ability[r].cmdTimers /\ u.todo = ability[r].todo
    BY <1>13, UnlinkedFacts
  <2> HIDE DEF u
  <2>2. ability' = [ability EXCEPT ![r] = u] /\ UNCHANGED <<serviceMap, terminating>>
    BY <1>4, <1>13, <1>15, ErasedNone
  <2>3. ability[r].state # "none"
    BY <1>2, <1>3 DEF ManagerInv, SInv, Born
  <2>4. Moves(ability[r], u, InService(r))
    BY <1>13, <2>1 DEF Moves, Expected, AbilityRec
  <2>5. InService(r) => ~u.isConnected
    BY <2>1 DEF ManagerInv, LInv, Linked, Emptied
  <2>6. InService(r) => u.startId # 0
    BY <1>15, <2>1
  <2>7. ability'[r] = u
    BY <1>13, <2>2 DEF ServicesTyped
  <2>8. ASSUME InService(r), Watch(r) PROVE Watch(r)'
    <3>1. ability[r].state \notin {"INITIAL", "INACTIVATING"}
      BY <1>15, <2>8 DEF ManagerInv, SInv, AnswersOK
    <3>2. ~SomeoneWaits(r)'
      BY <1>12 DEF SomeoneWaits
    <3>3. Tended(r) => Tended(r)'
      BY <1>4, <2>1, <2>7 DEF Tended
    <3> QED
      BY <2>1, <2>5, <2>6, <2>7, <2>8, <3>1, <3>2, <3>3 DEF Watch
  <2> QED
    BY <1>4, <1>9, <1>10, <1>11, <2>1, <2>2, <2>3, <2>4, <2>5, <2>6, <2>8, OneStays
<1> QED
  BY <1>14, <1>15

\* The task of a frozen process terminates its service.
LEMMA FrozenKeeps ==
    ASSUME ManagerInv, IInv', NEW r \in Recs, FrozenTask(r)
    PROVE  SInv' /\ LInv' /\ WInv'
<1> DEFINE x == ability[r]
           a == [x EXCEPT !.tasks = x.tasks \ {"frozen"}]
<1>1. /\ "frozen" \in x.tasks
      /\ ability' = [ability EXCEPT ![r] = IF InService(r) THEN TerminateSent(a) ELSE a]
      /\ serviceMap' = Erased({r})
      /\ terminating' = IF InService(r) THEN terminating \cup {r} ELSE terminating
      /\ raced' = IF InService(r) /\ connList[r] # {} THEN raced \cup {r} ELSE raced
      /\ UNCHANGED <<conn, books, client, reqs, restartTasks, cleaning>>
  BY DEF FrozenTask
<1>2. x \in AbilityRec /\ x.state # "none" /\ ServicesTyped
  BY <1>1, Made, RecTyped DEF ManagerInv, SInv
<1>3. a \in AbilityRec
  BY <1>2 DEF AbilityRec
<1>4. /\ a.key = x.key /\ a.byConnect = x.byConnect /\ a.startId = x.startId /\ a.state = x.state
      /\ a.proc = x.proc /\ a.isConnected = x.isConnected /\ a.todo = x.todo
  BY <1>2 DEF AbilityRec
<1> HIDE DEF a
<1>5. BookStep /\ UNCHANGED connList
  BY <1>1, QuietStep DEF ManagerInv, books
<1>6. CASE InService(r)
  <2> DEFINE b == TerminateSent(a)
  <2>1. /\ b \in AbilityRec /\ b.startId = 0 /\ b.key = x.key /\ b.state = "TERMINATING"
        /\ b.todo["connect"] = 0 /\ b.todo["command"] = 0
    BY <1>3, <1>4, TerminateSentFacts
  <2> HIDE DEF b
  <2>2. Leaves(ability[r], b)
    BY <2>1 DEF Leaves, Expected
  <2>3. /\ ability' = [ability EXCEPT ![r] = b] /\ terminating' = terminating \cup {r}
        /\ raced \subseteq raced' /\ raced' \subseteq Recs /\ (connList[r] = {} \/ r \in raced')
    BY <1>1, <1>2, <1>6 DEF b, ServicesTyped
  <2> QED
    BY <1>1, <1>5, <1>6, <2>1, <2>2, <2>3, OneLeaves
<1>7. CASE ~InService(r)
  <2>1. /\ ability' = [ability EXCEPT ![r] = a]
        /\ UNCHANGED <<serviceMap, terminating, raced>>
    BY <1>1, <1>7, ErasedAbsent DEF ManagerInv
  <2>2. cleaning' \in [Recs -> SUBSET NoCopy]
    BY <1>1 DEF ManagerInv, IInv, CleaningOK
  <2> QED
    BY <1>1, <1>2, <1>3, <1>4, <1>7, <2>1, <2>2, TendStep
<1> QED
  BY <1>6, <1>7

\* The task for a client that died.
LEMMA CallbackDiedKeeps ==
    ASSUME ManagerInv, IInv', NEW cb \in Callbacks, HandleCallBackDiedTask(cb)
    PROVE  SInv' /\ LInv' /\ WInv'
<1> DEFINE L      == connectMap[cb]
           P      == InState(L, "CONNECTED")
           F      == L \ P
           gone   == F \cup (P \ LastOnes(P))
           empty  == {r \in Recs : Emptied(r, F)}
           never  == {r \in empty : ability[r].startId = 0 /\ ability[r].byConnect}
           ended  == {r \in never : InService(r)}
           idle   == {r \in empty \ never : ability[r].state = "ACTIVE"}
           calm   == {c \in F : conn[c].svc \in idle}
           told   == ToldToDisconnect(P)
<1>1. /\ client' = [client EXCEPT ![cb] = "dead"]
      /\ conn' = [c \in Conns |->
                      IF c \in calm THEN [Dropped(conn[c]) EXCEPT !.tasks = @ \ {"connect"}]
                      ELSE IF c \in F THEN Dropped(conn[c]) ELSE Disconnecting(P)[c]]
      /\ ability' = [r \in Recs |->
                         IF r \in ended THEN TerminateSent(Unlinked(ability[r], r, F))
                         ELSE IF r \in idle \cup told THEN DisconnectSent(ability[r])
                         ELSE Unlinked(ability[r], r, F)]
      /\ serviceMap' = Erased(ended)
      /\ terminating' = terminating \cup ended
      /\ Remove(gone)
      /\ UNCHANGED <<reqs, restartTasks, cleaning, raced>>
  BY DEF HandleCallBackDiedTask
<1>2. BookStep
  BY CallbackDiedStep DEF ManagerInv
<1>3. /\ L \subseteq Live /\ L \subseteq Conns /\ \A c \in L : conn[c].cb = cb
      /\ P \subseteq L /\ \A c \in P : conn[c].state = "CONNECTED"
  BY DEF ManagerInv, IInv, ListsAgree, Live, InState
<1>4. ServicesTyped /\ conn \in [Conns -> ConnRec]
  BY DEF ManagerInv, SInv, IInv, ConnOK
<1>5. /\ \A r \in ended : r \in Recs /\ Emptied(r, F) /\ InService(r)
      /\ \A r \in Recs : Emptied(r, F) /\ InService(r) /\ r \notin ended =>
            ability[r].startId # 0 \/ ~ability[r].byConnect
      /\ \A r \in idle : r \in Recs /\ Emptied(r, F) /\ ability[r].state = "ACTIVE"
      /\ calm \subseteq F /\ \A c \in calm : conn[c].svc \in idle
  OBVIOUS
<1> HIDE DEF P, ended, idle, calm
<1>6. \A c \in Conns : conn'[c] = IF c \in calm THEN [Dropped(conn[c]) EXCEPT !.tasks = @ \ {"connect"}]
                      ELSE IF c \in F THEN Dropped(conn[c]) ELSE Disconnecting(P)[c]
  BY <1>1
<1>7. \A c \in Conns : c \in F => conn'[c].state = "DISCONNECTED"
  BY <1>4, <1>6 DEF Dropped, ConnRec
<1>8. \A c \in Conns : c \notin F => conn'[c] = Disconnecting(P)[c]
  BY <1>5, <1>6
<1>9. \A c \in Conns : conn'[c].state \in {"CONNECTED", "DISCONNECTING"} =>
                         conn[c].state \in {"CONNECTED", "DISCONNECTING"}
  BY <1>3, <1>7, <1>8, DisconnectingFacts DEF ManagerInv
<1>10. \A c \in Conns : c \notin calm /\ conn[c].tasks \cap {"connect", "running"} # {} =>
                         conn'[c].tasks \cap {"connect", "running"} # {}
  <2> SUFFICES ASSUME NEW c \in Conns, c \notin calm, conn[c].tasks \cap {"connect", "running"} # {}
               PROVE  conn'[c].tasks \cap {"connect", "running"} # {}
    OBVIOUS
  <2>1. CASE c \in F
    <3>1. conn'[c] = Dropped(conn[c])
      BY <1>6, <2>1
    <3>2. Dropped(conn[c]).tasks = conn[c].tasks \cap {"connect", "running", "null"}
      BY <1>4 DEF Dropped, ConnRec
    <3> QED
      BY <3>1, <3>2
  <2>2. CASE c \notin F
    BY <1>8, <2>2, DisconnectingTasks DEF ManagerInv
  <2> QED
    BY <2>1, <2>2
<1>11. \A r \in Recs : connList'[r] = connList[r] \ gone
  BY <1>1 DEF Remove
<1>12. ASSUME NEW r \in Recs, connList[r] # {}, connList'[r] = {}
       PROVE  Emptied(r, F)
  <2>1. connList[r] \subseteq gone
    BY <1>11, <1>12
  <2>2. PICK d \in connList[r] : TRUE
    BY <1>12
  <2>3. \A c \in connList[r] : c \in Live /\ conn[c].svc = r /\ conn[c].cb = cb
    BY <1>3, <2>1 DEF ManagerInv, IInv, ListsAgree
  <2>4. \A c \in connList[r] : c = d
    BY <2>2, <2>3 DEF ManagerInv, IInv, OneConnPerTarget
  <2>5. connList[r] = {d} /\ Cardinality({d}) = 1 /\ conn[d].svc = r
    BY <2>2, <2>3, <2>4, FS_Singleton
  <2>6. d \in P => d \in LastOnes(P)
    BY <2>5 DEF LastOnes
  <2>7. d \in F
    BY <2>1, <2>2, <2>6
  <2> QED
    BY <2>5, <2>7 DEF Emptied
<1>13. \A r \in Recs : ability'[r] = IF r \in ended THEN TerminateSent(Unlinked(ability[r], r, F))
                         ELSE IF r \in idle \cup told THEN DisconnectSent(ability[r])
                         ELSE Unlinked(ability[r], r, F)
  BY <1>1
<1>14. ASSUME NEW r \in Recs, r \in ended
       PROVE  ability'[r] \in AbilityRec /\ Leaves(ability[r], ability'[r])
              /\ ability'[r].state = "TERMINATING" /\ connList'[r] = {}
  <2>1. PICK b : b = TerminateSent(Unlinked(ability[r], r, F))
    OBVIOUS
  <2>2. b \in AbilityRec /\ Leaves(ability[r], b) /\ b.state = "TERMINATING"
    BY <2>1, RecTyped, TerminatedFacts DEF ManagerInv
  <2>3. connList'[r] = {}
    BY <1>5, <1>11, <1>14 DEF Emptied
  <2> QED
    BY <1>13, <1>14, <2>1, <2>2, <2>3
<1>15. ASSUME NEW r \in Recs, r \notin ended
       PROVE  /\ ability'[r] \in AbilityRec /\ ability'[r].key = ability[r].key
              /\ ability'[r].state = ability[r].state /\ ability'[r].byConnect = ability[r].byConnect
              /\ ability'[r].startId = ability[r].startId /\ ability'[r].proc = ability[r].proc
              /\ ability'[r].timers = ability[r].timers /\ ability'[r].tasks = ability[r].tasks
              /\ ability'[r].cmdTimers = ability[r].cmdTimers
              /\ ability'[r].isConnected => ability[r].isConnected /\ ~Emptied(r, F)
              /\ Expected(ability'[r]) => Expected(ability[r])
  <2>1. ability[r] \in AbilityRec
    BY RecTyped DEF ManagerInv
  <2>2. CASE r \in idle \cup told
    <3>1. ability'[r] = DisconnectSent(ability[r])
      BY <1>13, <1>15, <2>2
    <3>2. PICK b : b = DisconnectSent(ability[r])
      OBVIOUS
    <3>3. /\ b \in AbilityRec /\ ~b.isConnected /\ b.key = ability[r].key /\ b.state = ability[r].state
          /\ b.byConnect = ability[r].byConnect /\ b.startId = ability[r].startId
          /\ b.proc = ability[r].proc /\ b.timers = ability[r].timers /\ b.tasks = ability[r].tasks
          /\ b.cmdTimers = ability[r].cmdTimers /\ b.todo["connect"] = ability[r].todo["connect"]
          /\ b.todo["command"] = ability[r].todo["command"]
      BY <2>1, <3>2, DisconnectSentFacts
    <3> QED
      BY <3>1, <3>2, <3>3 DEF Expected
  <2>3. CASE r \notin idle \cup told
    <3>1. ability'[r] = Unlinked(ability[r], r, F)
      BY <1>13, <1>15, <2>3
    <3> QED
      BY <2>1, <3>1, UnlinkedFacts DEF Expected
  <2> QED
    BY <2>2, <2>3
<1>16. ASSUME NEW r \in Recs, ability[r].state = "none"
       PROVE  ability'[r] = ability[r]
  <2>1. connList[r] = {}
    BY <1>16, ListedIsLive DEF ManagerInv, SInv, Born
  <2>2. ~Emptied(r, F) /\ r \notin ended /\ r \notin idle
    BY <1>5, <2>1 DEF Emptied
  <2>3. r \notin told
    <3>1. \A c \in P : c \in Conns /\ conn[c].state # "INIT"
      BY <1>3
    <3> QED
      BY <1>16, <3>1 DEF ToldToDisconnect, LastOnes, ManagerInv, SInv, Born
  <2> QED
    BY <1>13, <2>2, <2>3 DEF Unlinked
<1>17. PICK ab : ab = ability'
  OBVIOUS
<1>18. Change(ended, ab)
  <2>1. ab \in [Recs -> AbilityRec]
    BY <1>1, <1>14, <1>15, <1>17
  <2>2. \A r \in Recs : r \notin ended => Moves(ability[r], ab[r], InService(r))
    <3> SUFFICES ASSUME NEW r \in Recs, r \notin ended PROVE Moves(ability[r], ab[r], InService(r))
      OBVIOUS
    <3>1. ability[r].startId \in Nat
      BY RecTyped DEF ManagerInv, AbilityRec
    <3> QED
      BY <1>15, <1>17, <3>1 DEF Moves
  <2> QED
    BY <1>5, <1>14, <1>16, <1>17, <2>1, <2>2 DEF Change
<1>19. ASSUME NEW r \in Recs, r \notin ended, Watch(r)
       PROVE  Watch(r)'
  <2>1. CASE r \in idle
    <3>1. ability'[r].state = "ACTIVE"
      BY <1>5, <1>15, <1>19, <2>1
    <3>2. connList'[r] = {}
      BY <1>5, <1>11, <2>1 DEF Emptied
    <3>3. ~SomeoneWaits(r)'
      BY <3>2 DEF SomeoneWaits
    <3> QED
      BY <3>1, <3>3 DEF Watch
  <2>2. CASE r \notin idle
    <3>1. \A c \in Conns : conn[c].svc = r => c \notin calm
      BY <1>5, <2>2
    <3> QED
      BY <1>1, <1>2, <1>10, <1>15, <1>19, <3>1, StaysWatched DEF ManagerInv
  <2> QED
    BY <2>1, <2>2
<1>20. /\ client' \in [Callbacks -> {"alive", "dying", "dead"}] /\ restartTasks' \subseteq Keys
       /\ reqs' \in [Keys -> Nat] /\ raced' \subseteq Recs
  BY <1>1, <1>4 DEF ServicesTyped
<1>21. \A r \in terminating' : r \in terminating \/ (r \in ended /\ ab[r].state = "TERMINATING")
  BY <1>1, <1>5, <1>14, <1>17
<1>22. \A r \in Recs : r \notin ended /\ ab[r].isConnected => ability[r].isConnected
  BY <1>15, <1>17
<1>23. \A r \in Recs : r \notin ended /\ InService(r) /\ connList[r] # {} /\ connList'[r] = {} =>
              ~ab[r].isConnected /\ (ab[r].startId # 0 \/ ~ab[r].byConnect)
  BY <1>5, <1>12, <1>15, <1>17
<1>24. \A r \in Recs : ab[r].state = "ACTIVE" => ability[r].state = "ACTIVE"
  BY <1>14, <1>15, <1>17
<1>25. \A r \in ended : connList'[r] = {} \/ r \in raced'
  BY <1>5, <1>14
<1>26. serviceMap' = Erased(ended) /\ UNCHANGED <<reqs, restartTasks, cleaning, raced>>
  BY <1>1
<1>27. ability' = ab
  BY <1>17
<1> QED
  BY <1>2, <1>9, <1>18, <1>19, <1>20, <1>21, <1>22, <1>23, <1>24, <1>25, <1>26, <1>27, Shrinks
-------------------------------------------------------------------------------
(* Start requests, and what takes a service down or starts it again.       *)

\* The record b is a, or an ACTIVE record a that was started again.
Like(a, b) ==
    \/ b = a
    \/ /\ a.state = "ACTIVE" /\ b.state = "ACTIVE" /\ b.isConnected = a.isConnected
       /\ b.byConnect = a.byConnect /\ b.startId >= a.startId
       /\ b.timers = a.timers /\ b.tasks = a.tasks /\ a.cmdTimers \subseteq b.cmdTimers

\* The record s is started again.
LEMMA CommandKeepsChange ==
    ASSUME SInv, NEW T, NEW ab, Change(T, ab), NEW s \in Recs, s \notin T, InService(s),
           ab[s].state = "ACTIVE", NEW q \in Nat
    PROVE  LET ab2 == [ab EXCEPT ![s] = CommandSent(ab[s], q)]
           IN  /\ Change(T, ab2) /\ \A r \in Recs : Like(ab[r], ab2[r])
               /\ \A r \in Recs : ab2[r].state = ab[r].state
<1> DEFINE a == ab[s]
           b == CommandSent(a, q)
           ab2 == [ab EXCEPT ![s] = b]
<1>1. a \in AbilityRec /\ a.startId \in Nat /\ ab \in [Recs -> AbilityRec]
  BY DEF Change, AbilityRec
<1>2. /\ b \in AbilityRec /\ b.startId = a.startId + q
      /\ b.key = a.key /\ b.state = a.state /\ b.byConnect = a.byConnect
      /\ b.isConnected = a.isConnected /\ b.proc = a.proc /\ b.timers = a.timers
      /\ b.tasks = a.tasks /\ a.cmdTimers \subseteq b.cmdTimers
  BY <1>1, CommandSentFacts
<1>3. b.startId >= a.startId
  BY <1>1, <1>2
<1> HIDE DEF b
<1>4. ab2 \in [Recs -> AbilityRec] /\ ab2[s] = b /\ \A r \in Recs : r # s => ab2[r] = ab[r]
  BY <1>1, <1>2
<1> HIDE DEF ab2
<1>5. Moves(ability[s], b, InService(s))
  <2>1. Moves(ability[s], a, InService(s))
    BY DEF Change
  <2>2. ability[s].startId \in Nat /\ b.startId \in Nat
    BY <1>2, RecTyped DEF AbilityRec
  <2>3. b.startId >= ability[s].startId
    BY <1>1, <1>3, <2>1, <2>2 DEF Moves
  <2> QED
    BY <1>2, <2>1, <2>3 DEF Moves
<1>6. ability[s].state # "none"
  BY ServedUnderKey
<1>7. Change(T, ab2)
  BY <1>4, <1>5, <1>6 DEF Change
<1>8. \A r \in Recs : Like(ab[r], ab2[r])
  BY <1>2, <1>3, <1>4 DEF Like
<1> QED
  BY <1>2, <1>4, <1>7, <1>8 DEF ab2, b

\* What serving start requests does to the records.
LEMMA ServeFacts ==
    ASSUME SInv, NEW T, NEW ab, Change(T, ab), NEW k \in Keys, NEW q \in Nat, NEW w \in Nat,
           Serve(k, q, w, Erased(T), ab),
           w > 0 /\ Erased(T)[k] # NoRec => ab[Erased(T)[k]].state # "ACTIVE"
    PROVE  \E m, ab2 :
              /\ Change(T, ab2) /\ Makes(T, m, ab2)
              /\ \A r \in Recs : Like(ab[r], ab2[r]) /\ ab2[r].state = ab[r].state
              /\ m \in Recs => ability'[m] = Loading(k, FALSE)
              /\ reqs' \in [Keys -> Nat] /\ \A j \in Keys : j # k => reqs'[j] = reqs[j]
              /\ reqs'[k] > 0 /\ serviceMap'[k] # NoRec => ability'[serviceMap'[k]].state # "ACTIVE"
<1> DEFINE s == Erased(T)[k]
<1>1. reqs \in [Keys -> Nat] /\ Erased(T) \in [Keys -> Recs \cup {NoRec}]
      /\ ab \in [Recs -> AbilityRec]
  BY ErasedFacts DEF SInv, ServicesTyped, Change
<1>2. \A r \in Recs : Like(ab[r], ab[r])
  BY DEF Like
<1>3. ASSUME serviceMap' = Erased(T), ability' = ab, NEW v \in Nat, reqs' = [reqs EXCEPT ![k] = v],
             v > 0 /\ s # NoRec => ab[s].state # "ACTIVE"
      PROVE  \E m, ab2 :
              /\ Change(T, ab2) /\ Makes(T, m, ab2)
              /\ \A r \in Recs : Like(ab[r], ab2[r]) /\ ab2[r].state = ab[r].state
              /\ m \in Recs => ability'[m] = Loading(k, FALSE)
              /\ reqs' \in [Keys -> Nat] /\ \A j \in Keys : j # k => reqs'[j] = reqs[j]
              /\ reqs'[k] > 0 /\ serviceMap'[k] # NoRec => ability'[serviceMap'[k]].state # "ACTIVE"
  <2>1. Makes(T, NoRec, ab)
    BY <1>3 DEF Makes
  <2>2. NoRec \notin Recs
    BY DEF NoRec, Recs
  <2>3. reqs' \in [Keys -> Nat] /\ reqs'[k] = v /\ \A j \in Keys : j # k => reqs'[j] = reqs[j]
    BY <1>1, <1>3
  <2> QED
    BY <1>2, <1>3, <2>1, <2>2, <2>3
<1>4. CASE serviceMap' = Erased(T) /\ ability' = ab /\ reqs' = [reqs EXCEPT ![k] = w]
  BY <1>3, <1>4
<1>5. CASE /\ q > 0 /\ s = NoRec /\ NextRec \in Recs
           /\ serviceMap' = [Erased(T) EXCEPT ![k] = NextRec]
           /\ ability' = [ab EXCEPT ![NextRec] = Loading(k, FALSE)]
           /\ reqs' = [reqs EXCEPT ![k] = w + q - 1]
  <2> DEFINE m == NextRec
             l == Loading(k, FALSE)
  <2>1. /\ m \in Recs /\ serviceMap' = [Erased(T) EXCEPT ![k] = m]
        /\ ability' = [ab EXCEPT ![m] = l] /\ reqs' = [reqs EXCEPT ![k] = w + q - 1]
    BY <1>5
  <2>2. /\ l \in AbilityRec /\ l.key = k /\ l.state = "INITIAL" /\ l.startId = 0 /\ l.todo = NoMsgs
    BY LoadingFacts
  <2>3. ~Expected(l)
    <3>1. NoMsgs["connect"] = 0 /\ NoMsgs["command"] = 0
      BY DEF NoMsgs, Msgs
    <3> HIDE DEF l
    <3> QED
      BY <2>2, <3>1 DEF Expected
  <2> HIDE DEF m, l
  <2>4. Makes(T, m, ab)
    BY <1>5, <2>1, <2>2, <2>3 DEF Makes, m
  <2>5. ability'[m] = l /\ serviceMap'[k] = m
    BY <1>1, <2>1, <2>2
  <2>6. w + q - 1 \in Nat
    BY <1>5
  <2>7. reqs' \in [Keys -> Nat] /\ \A j \in Keys : j # k => reqs'[j] = reqs[j]
    BY <1>1, <2>1, <2>6
  <2> QED
    BY <1>2, <2>2, <2>4, <2>5, <2>7 DEF l
<1>6. CASE /\ q > 0 /\ s # NoRec /\ ab[s].state = "ACTIVE" /\ serviceMap' = Erased(T)
           /\ ability' = [ab EXCEPT ![s] = CommandSent(ab[s], q)] /\ reqs' = [reqs EXCEPT ![k] = w]
  <2> DEFINE ab2 == [ab EXCEPT ![s] = CommandSent(ab[s], q)]
  <2>1. /\ serviceMap' = Erased(T) /\ ability' = ab2 /\ reqs' = [reqs EXCEPT ![k] = w]
    BY <1>6
  <2>2. s \in Recs /\ s = serviceMap[k] /\ s \notin T
    BY <1>1, <1>6, ErasedFacts DEF SInv
  <2>3. InService(s)
    BY <2>2 DEF InService
  <2>4. /\ Change(T, ab2) /\ \A r \in Recs : Like(ab[r], ab2[r])
        /\ \A r \in Recs : ab2[r].state = ab[r].state
    <3>1. ab[s].state = "ACTIVE"
      BY <1>6
    <3> HIDE DEF s
    <3> QED
      BY <2>2, <2>3, <3>1, CommandKeepsChange
  <2> HIDE DEF ab2, s
  <2>5. Makes(T, NoRec, ab2)
    BY <2>1 DEF Makes
  <2>6. NoRec \notin Recs
    BY DEF NoRec, Recs
  <2>7. w = 0
    BY <1>6 DEF s
  <2>8. reqs' \in [Keys -> Nat] /\ ~(reqs'[k] > 0) /\ \A j \in Keys : j # k => reqs'[j] = reqs[j]
    BY <1>1, <2>1, <2>7
  <2> QED
    BY <2>4, <2>5, <2>6, <2>8
<1>7. CASE /\ q > 0 /\ s # NoRec /\ ab[s].state # "ACTIVE" /\ serviceMap' = Erased(T)
           /\ ability' = ab /\ reqs' = [reqs EXCEPT ![k] = w + q]
  <2>1. w + q \in Nat
    OBVIOUS
  <2> QED
    BY <1>3, <1>7, <2>1
<1> QED
  BY <1>4, <1>5, <1>6, <1>7, Zenon DEF Serve

\* The queue of k is served, and no other service becomes ACTIVE.
LEMMA RequestsServedBy ==
    ASSUME SInv, LInv, NEW T, NEW n, NEW ab, ServiceStep(T, n, ab), NEW k \in Keys,
           \A j \in Keys : j # k => reqs'[j] = reqs[j],
           reqs'[k] > 0 /\ serviceMap'[k] # NoRec => ability'[serviceMap'[k]].state # "ACTIVE",
           \A r \in Recs : ability[r].key # k /\ ab[r].state = "ACTIVE" => ability[r].state = "ACTIVE"
    PROVE  RequestsServed'
<1>1. Change(T, ab) /\ Makes(T, n, ab)
  BY DEF ServiceStep
<1> SUFFICES ASSUME NEW j \in Keys, j # k, reqs'[j] > 0, serviceMap'[j] # NoRec
             PROVE  ability'[serviceMap'[j]].state # "ACTIVE"
  BY DEF RequestsServed
<1>2. Erased(T)[j] = IF serviceMap[j] \in T THEN NoRec ELSE serviceMap[j]
  BY ErasedFacts DEF SInv
<1>3. Erased(T) \in [Keys -> Recs \cup {NoRec}]
  BY ErasedFacts DEF SInv
<1>4. CASE serviceMap'[j] = Erased(T)[j]
  <2>1. serviceMap'[j] = serviceMap[j] /\ serviceMap[j] \in Recs
    BY <1>2, <1>4 DEF SInv, ServicesTyped
  <2>2. ability[serviceMap[j]].state # "ACTIVE" /\ ability[serviceMap[j]].key = j
    BY <2>1 DEF LInv, RequestsServed, SInv, PlacedOnce
  <2>3. ab[serviceMap[j]].state # "ACTIVE"
    BY <2>1, <2>2
  <2> QED
    BY <1>1, <2>1, <2>3 DEF Makes, Change
<1>5. CASE serviceMap'[j] # Erased(T)[j]
  BY <1>1, <1>3, <1>5 DEF Makes, Change
<1> QED
  BY <1>4, <1>5

\* A step in which the records in T leave service, connections end, and start
\* requests for the key k are served, w of them left over from before.
ServingStep(T, ab, k, q, w) ==
    /\ Change(T, ab) /\ Serve(k, q, w, Erased(T), ab)
    /\ w > 0 /\ Erased(T)[k] # NoRec => ab[Erased(T)[k]].state # "ACTIVE"
    /\ \A r \in terminating' : r \in terminating \/ (r \in T /\ ab[r].state = "TERMINATING")
    /\ \A r \in Recs : ability[r].state = "none" => cleaning'[r] = cleaning[r]
    /\ raced \subseteq raced' /\ raced' \subseteq Recs
    /\ client' \in [Callbacks -> {"alive", "dying", "dead"}] /\ restartTasks' \subseteq Keys
    /\ \A c \in Conns : conn'[c].state \in {"CONNECTED", "DISCONNECTING"} =>
          conn[c].state \in {"CONNECTED", "DISCONNECTING"} \/ ab[conn[c].svc].state = "ACTIVE"
    /\ \A r \in T : connList'[r] = {} \/ r \in raced'
    /\ \A r \in Recs : r \notin T /\ InService(r) /\ connList'[r] = {} =>
          ~ab[r].isConnected /\ (ab[r].startId # 0 \/ ~ab[r].byConnect)
    /\ \A r \in Recs : ability[r].key # k /\ ab[r].state = "ACTIVE" => ability[r].state = "ACTIVE"
    /\ "reportFails" \notin Faults =>
          \A r \in Recs : r \notin T /\ InService(r) /\ Watch(r) /\ Like(ab[r], ability'[r]) =>
                             Watch(r)'

\* Such a step keeps the services placed, linked and watched.
LEMMA Serving ==
    ASSUME ManagerInv, IInv', BookStep, NEW T, NEW ab, NEW k \in Keys, NEW q \in Nat, NEW w \in Nat,
           ServingStep(T, ab, k, q, w)
    PROVE  SInv' /\ LInv' /\ WInv'
<1>0. /\ Change(T, ab) /\ Serve(k, q, w, Erased(T), ab)
      /\ w > 0 /\ Erased(T)[k] # NoRec => ab[Erased(T)[k]].state # "ACTIVE"
      /\ \A r \in Recs : ability[r].state = "none" => cleaning'[r] = cleaning[r]
      /\ raced \subseteq raced' /\ raced' \subseteq Recs
      /\ client' \in [Callbacks -> {"alive", "dying", "dead"}] /\ restartTasks' \subseteq Keys
  BY DEF ServingStep
<1>a. /\ \A r \in terminating' : r \in terminating \/ (r \in T /\ ab[r].state = "TERMINATING")
      /\ \A c \in Conns : conn'[c].state \in {"CONNECTED", "DISCONNECTING"} =>
            conn[c].state \in {"CONNECTED", "DISCONNECTING"} \/ ab[conn[c].svc].state = "ACTIVE"
      /\ \A r \in T : connList'[r] = {} \/ r \in raced'
      /\ \A r \in Recs : r \notin T /\ InService(r) /\ connList'[r] = {} =>
            ~ab[r].isConnected /\ (ab[r].startId # 0 \/ ~ab[r].byConnect)
      /\ \A r \in Recs : ability[r].key # k /\ ab[r].state = "ACTIVE" => ability[r].state = "ACTIVE"
      /\ "reportFails" \notin Faults =>
            \A r \in Recs : r \notin T /\ InService(r) /\ Watch(r) /\ Like(ab[r], ability'[r]) =>
                               Watch(r)'
  BY DEF ServingStep
<1> USE <1>0, <1>a
<1>1. PICK m, ab2 :
              /\ Change(T, ab2) /\ Makes(T, m, ab2)
              /\ \A r \in Recs : Like(ab[r], ab2[r]) /\ ab2[r].state = ab[r].state
              /\ m \in Recs => ability'[m] = Loading(k, FALSE)
              /\ reqs' \in [Keys -> Nat] /\ \A j \in Keys : j # k => reqs'[j] = reqs[j]
              /\ reqs'[k] > 0 /\ serviceMap'[k] # NoRec => ability'[serviceMap'[k]].state # "ACTIVE"
  BY ServeFacts DEF ManagerInv
<1>2. NoRec \notin Recs /\ (m = NoRec \/ m \in Recs)
  BY <1>1 DEF NoRec, Recs, Makes
<1>3. \A r \in Recs : r # m => ability'[r] = ab2[r]
  BY <1>1 DEF Makes, Change
<1>4. m \in Recs => ability[m].state = "none" /\ m \notin T
  BY <1>1, InServiceAfter DEF ManagerInv
<1>5. /\ \A c \in Conns : conn'[c].svc = conn[c].svc
      /\ \A c \in Conns : conn'[c].state # "INIT" => conn[c].state # "INIT"
      /\ \A r \in Recs : connList'[r] \subseteq connList[r]
  BY SameService DEF ManagerInv
<1>6. ServiceStep(T, m, ab2)
  <2>1. terminating' \subseteq Recs
    BY DEF ManagerInv, SInv, ServicesTyped, Change
  <2>2. \A r \in terminating' : r \in terminating \/ (r \in T /\ ab2[r].state = "TERMINATING")
    BY <1>1, <2>1
  <2> QED
    BY <1>1, <1>5, <2>1, <2>2 DEF ServiceStep
<1>7. SInv'
  BY <1>6, ServiceStepSInv DEF ManagerInv, IInv
<1>8. LinkStep(T, m)
  <2>1. ASSUME NEW c \in Conns, conn'[c].state \in {"CONNECTED", "DISCONNECTING"}
        PROVE  \/ conn[c].state \in {"CONNECTED", "DISCONNECTING"} /\ conn'[c].svc = conn[c].svc
               \/ ability'[conn'[c].svc].state = "ACTIVE"
    <3>1. conn[c].state # "INIT"
      BY <1>5, <2>1
    <3>2. PICK s \in Recs : s = conn[c].svc /\ ability[s].state # "none"
      BY <3>1 DEF ManagerInv, SInv, Born, IInv, ConnOK
    <3>3. ability'[s] = ab2[s] /\ ab2[s].state = ab[s].state
      BY <1>1, <1>2, <1>3, <1>4, <3>2
    <3>4. CASE ab[conn[c].svc].state = "ACTIVE"
      BY <1>5, <3>2, <3>3, <3>4
    <3>5. CASE conn[c].state \in {"CONNECTED", "DISCONNECTING"}
      BY <1>5, <3>5
    <3> QED
      BY <2>1, <3>4, <3>5
  <2>2. ASSUME NEW r \in Recs, r \notin T, r # m, InService(r), connList'[r] = {}
        PROVE  ~ability'[r].isConnected /\ (ability'[r].startId # 0 \/ ~ability'[r].byConnect)
    <3>1. ability'[r] = ab2[r] /\ Like(ab[r], ab2[r])
      BY <1>1, <1>3, <2>2
    <3>2. ~ab[r].isConnected /\ (ab[r].startId # 0 \/ ~ab[r].byConnect)
      BY <2>2
    <3>3. ab[r].startId \in Nat /\ ab2[r].startId \in Nat
      BY <1>1 DEF Change, AbilityRec
    <3> QED
      BY <3>1, <3>2, <3>3 DEF Like
  <2>3. m \in Recs => ~ability'[m].isConnected /\ ~ability'[m].byConnect
    <3>1. ~Loading(k, FALSE).isConnected /\ ~Loading(k, FALSE).byConnect
      BY LoadingFacts
    <3> QED
      BY <1>1, <3>1
  <2> QED
    BY <1>5, <2>1, <2>2, <2>3 DEF LinkStep
<1>9. RequestsServed'
  <2>1. \A r \in Recs : ability[r].key # k /\ ab2[r].state = "ACTIVE" => ability[r].state = "ACTIVE"
    BY <1>1
  <2> QED
    BY <1>1, <1>6, <2>1, RequestsServedBy DEF ManagerInv
<1>10. LInv'
  BY <1>6, <1>7, <1>8, <1>9, LinkStepLInv DEF ManagerInv, LInv
<1>11. WInv'
  <2>1. m \in Recs => Watch(m)'
    <3>1. Loading(k, FALSE).state = "INITIAL" /\ Loading(k, FALSE).timers = {"load"}
      BY LoadingFacts
    <3> QED
      BY <1>1, <3>1 DEF Watch
  <2>2. \A r \in Recs : r # m => Like(ab[r], ability'[r])
    BY <1>1, <1>3
  <2> QED
    BY <1>6, <2>1, <2>2, WatchInv DEF ManagerInv
<1> QED
  BY <1>7, <1>10, <1>11

\* A record is watched as before when it is the same, or an ACTIVE one that was
\* started again.
LEMMA LikeWatched ==
    ASSUME IInv, BookStep, NEW r \in Recs, NEW a, a = ability[r], Watch(r), Like(a, ability'[r]),
           a.state = "INACTIVE" => ability'[r] = a,
           cleaning'[r] = cleaning[r],
           \A c \in Conns : conn[c].svc = r /\ conn[c].tasks \cap {"connect", "running"} # {} =>
                               conn'[c].tasks \cap {"connect", "running"} # {}
    PROVE  Watch(r)'
  BY StaysWatched DEF Like

\* A queue waits for no ACTIVE service.
LEMMA QueueWaits ==
    ASSUME SInv, LInv, NEW k \in Keys, NEW T, NEW ab,
           \A r \in Recs : ab[r].state = "ACTIVE" => ability[r].state = "ACTIVE"
    PROVE  reqs[k] \in Nat /\
           (reqs[k] > 0 /\ Erased(T)[k] # NoRec => ab[Erased(T)[k]].state # "ACTIVE")
<1>1. reqs[k] \in Nat
  BY DEF SInv, ServicesTyped
<1>2. ASSUME reqs[k] > 0, Erased(T)[k] # NoRec
      PROVE  ab[Erased(T)[k]].state # "ACTIVE"
  <2>1. Erased(T)[k] = serviceMap[k] /\ serviceMap[k] \in Recs
    BY <1>2, ErasedFacts DEF SInv, ServicesTyped
  <2>2. ability[serviceMap[k]].state # "ACTIVE"
    BY <1>2, <2>1 DEF LInv, RequestsServed
  <2> QED
    BY <2>1, <2>2
<1> QED
  BY <1>1, <1>2

\* A start request, of a client or of the manager itself.
LEMMA StartKeeps ==
    ASSUME ManagerInv, IInv', NEW k \in Keys, Serve(k, 1, reqs[k], serviceMap, ability),
           restartTasks' \subseteq Keys,
           UNCHANGED <<terminating, conn, books, client, cleaning, raced>>
    PROVE  SInv' /\ LInv' /\ WInv'
<1>1. ServicesTyped /\ BookStep /\ UNCHANGED connList
  BY QuietStep DEF ManagerInv, SInv, books
<1>2. Erased({}) = serviceMap
  BY <1>1, ErasedNone
<1>3. Change({}, ability)
  BY ChangeNone DEF ManagerInv
<1>4. PICK T, ab, w : T = {} /\ ab = ability /\ w = reqs[k]
  OBVIOUS
<1>5. Serve(k, 1, w, Erased(T), ab) /\ Change(T, ab)
  BY <1>2, <1>3, <1>4
<1>6. w \in Nat /\ (w > 0 /\ Erased(T)[k] # NoRec => ab[Erased(T)[k]].state # "ACTIVE")
  BY <1>4, QueueWaits DEF ManagerInv
<1>7. \A r \in Recs : InService(r) /\ connList'[r] = {} =>
              ~ab[r].isConnected /\ (ab[r].startId # 0 \/ ~ab[r].byConnect)
  BY <1>1, <1>4 DEF ManagerInv, LInv, Linked, NoOrphanService
<1>8. ASSUME NEW r \in Recs, Watch(r), Like(ab[r], ability'[r])
      PROVE  Watch(r)'
  BY <1>1, <1>4, <1>8, LikeWatched DEF ManagerInv, Like
<1>9. client' \in [Callbacks -> {"alive", "dying", "dead"}] /\ raced' \subseteq Recs
  BY <1>1 DEF ServicesTyped
<1>10. \A r \in Recs : ab[r].state = "ACTIVE" => ability[r].state = "ACTIVE"
  BY <1>4
<1>11. \A r \in T : connList'[r] = {} \/ r \in raced'
  BY <1>4
<1>12. 1 \in Nat
  OBVIOUS
<1> QED
  <2>1. ServingStep(T, ab, k, 1, w)
    BY <1>1, <1>4, <1>5, <1>6, <1>7, <1>8, <1>9, <1>10, <1>11 DEF ServingStep
  <2> QED
    BY <1>1, <1>6, <1>12, <2>1, Serving

\* The record r leaves service, alone, and may be started again.
LEMMA ServingLeaves ==
    ASSUME ManagerInv, IInv', BookStep, NEW r \in Recs, InService(r), NEW b \in AbilityRec,
           Leaves(ability[r], b), NEW q \in Nat,
           Serve(ability[r].key, q, reqs[ability[r].key], Erased({r}), [ability EXCEPT ![r] = b]),
           terminating' \subseteq terminating \cup {r}, r \in terminating' => b.state = "TERMINATING",
           \A p \in Recs : p # r => cleaning'[p] = cleaning[p],
           raced \subseteq raced', raced' \subseteq Recs, restartTasks' \subseteq Keys,
           connList'[r] = {} \/ r \in raced',
           \A c \in Conns : conn'[c].state \in {"CONNECTED", "DISCONNECTING"} =>
                               conn[c].state \in {"CONNECTED", "DISCONNECTING"},
           \A c \in Conns : conn[c].svc # r => conn'[c] = conn[c],
           \A p \in Recs : p # r => connList'[p] = connList[p],
           UNCHANGED client
    PROVE  SInv' /\ LInv' /\ WInv'
<1>0. PICK T, ab : T = {r} /\ ab = [ability EXCEPT ![r] = b]
  OBVIOUS
<1>1. ServicesTyped
  BY DEF ManagerInv, SInv
<1>2. Change(T, ab)
  BY <1>0, ChangeLeave DEF ManagerInv
<1>3. ab[r] = b /\ \A p \in Recs : p # r => ab[p] = ability[p]
  BY <1>0, <1>1 DEF ServicesTyped
<1>4. PICK k \in Keys : k = ability[r].key
  BY ServedUnderKey DEF ManagerInv
<1>5. PICK w : w = reqs[k]
  OBVIOUS
<1>6. Serve(k, q, w, Erased(T), ab)
  BY <1>0, <1>4, <1>5
<1>7. \A p \in Recs : ab[p].state = "ACTIVE" => ability[p].state = "ACTIVE"
  BY <1>3 DEF Leaves
<1>8. w \in Nat /\ (w > 0 /\ Erased(T)[k] # NoRec => ab[Erased(T)[k]].state # "ACTIVE")
  BY <1>5, <1>7, QueueWaits DEF ManagerInv
<1>9. ability[r].state # "none"
  BY ServedUnderKey DEF ManagerInv
<1>10. \A p \in Recs : p \notin T /\ InService(p) /\ connList'[p] = {} =>
              ~ab[p].isConnected /\ (ab[p].startId # 0 \/ ~ab[p].byConnect)
  BY <1>0, <1>3 DEF ManagerInv, LInv, Linked, NoOrphanService
<1>11. ASSUME NEW p \in Recs, p # r, Watch(p), Like(ab[p], ability'[p])
       PROVE  Watch(p)'
  BY <1>3, <1>11, LikeWatched DEF ManagerInv, Like
<1>12. client' \in [Callbacks -> {"alive", "dying", "dead"}]
  BY <1>1 DEF ServicesTyped
<1>13. \A p \in terminating' : p \in terminating \/ (p \in T /\ ab[p].state = "TERMINATING")
  BY <1>0, <1>3
<1>14. \A p \in T : connList'[p] = {} \/ p \in raced'
  BY <1>0
<1>15. \A p \in Recs : ability[p].state = "none" => cleaning'[p] = cleaning[p]
  BY <1>9
<1>16. \A p \in Recs : p \notin T /\ InService(p) /\ Watch(p) /\ Like(ab[p], ability'[p]) => Watch(p)'
  BY <1>0, <1>11
<1>17. \A p \in Recs : ability[p].key # k /\ ab[p].state = "ACTIVE" => ability[p].state = "ACTIVE"
  BY <1>7
<1>18. \A c \in Conns : conn'[c].state \in {"CONNECTED", "DISCONNECTING"} =>
              conn[c].state \in {"CONNECTED", "DISCONNECTING"} \/ ab[conn[c].svc].state = "ACTIVE"
  OBVIOUS
<1>19. ManagerInv /\ IInv' /\ BookStep /\ raced \subseteq raced' /\ raced' \subseteq Recs
         /\ restartTasks' \subseteq Keys
  OBVIOUS
<1> QED
  <2>1. ServingStep(T, ab, k, q, w)
    BY <1>2, <1>6, <1>8, <1>10, <1>12, <1>13, <1>14, <1>15, <1>16, <1>17, <1>18, <1>19 DEF
       ServingStep
  <2> QED
    BY <1>4, <1>8, <2>1, Serving

\* A resident service is started again, or a task to do so is posted.
LEMMA RestartFacts ==
    ASSUME SInv, NEW k \in Keys, NEW sm, NEW ab, RestartIfKeepAlive(k, sm, ab)
    PROVE  \E q \in Nat : Serve(k, q, reqs[k], sm, ab) /\ restartTasks' \subseteq Keys
<1>1. reqs \in [Keys -> Nat] /\ restartTasks \subseteq Keys
  BY DEF SInv, ServicesTyped
<1>2. CASE Serve(k, 1, reqs[k], sm, ab) /\ UNCHANGED restartTasks
  BY <1>1, <1>2
<1>3. CASE serviceMap' = sm /\ ability' = ab /\ UNCHANGED reqs /\ restartTasks' \subseteq Keys
  <2>1. reqs' = [reqs EXCEPT ![k] = reqs[k]]
    BY <1>1, <1>3
  <2>2. Serve(k, 0, reqs[k], sm, ab)
    BY <1>3, <2>1 DEF Serve
  <2> QED
    BY <1>3, <2>2
<1> QED
  BY <1>1, <1>2, <1>3 DEF RestartIfKeepAlive, RestartAbility

\* The connections S of the record r, or some of them, end and no other.
LEMMA DropsOwn ==
    ASSUME IInv, NEW r \in Recs, NEW S, S \subseteq Conns, \A c \in S : conn[c].svc = r,
           conn' = DropConns(S), Remove(S)
    PROVE  /\ \A c \in Conns : conn[c].svc # r => conn'[c] = conn[c]
           /\ \A c \in Conns : conn'[c].state \in {"CONNECTED", "DISCONNECTING"} =>
                               conn[c].state \in {"CONNECTED", "DISCONNECTING"}
           /\ \A q \in Recs : q # r => connList'[q] = connList[q]
           /\ connList'[r] = connList[r] \ S
<1>1. /\ \A c \in Conns : c \notin S => conn'[c] = conn[c]
      /\ \A c \in Conns : c \in S => conn'[c].state = "DISCONNECTED"
  BY DropConnsFacts
<1>2. \A q \in Recs : q # r => connList'[q] = connList[q]
  BY OthersStay
<1>3. connList'[r] = connList[r] \ S
  BY DEF Remove
<1> QED
  BY <1>1, <1>2, <1>3

\* The start of the record r failed.
LEMMA StartTimeoutKeeps ==
    ASSUME ManagerInv, IInv', NEW r \in Recs, ability[r].state # "none", NEW x \in AbilityRec,
           x.key = ability[r].key, x.byConnect = ability[r].byConnect,
           x.startId = ability[r].startId, x.state = ability[r].state,
           x.proc = "loading" => ability[r].proc = "loading",
           x.isConnected = ability[r].isConnected, x.todo = ability[r].todo,
           StartTimeout(r, [ability EXCEPT ![r] = x])
    PROVE  SInv' /\ LInv' /\ WInv'
<1> DEFINE S == GetConnectingRecordList(r)
           u == Unlinked(x, r, S)
           b == Killed(Forgotten(u))
<1>1. ServicesTyped
  BY DEF ManagerInv, SInv
<1>2. /\ conn' = DropConns(S) /\ Remove(S) /\ UNCHANGED <<terminating, client, cleaning>>
      /\ IF InService(r)
           THEN /\ RestartIfKeepAlive(ability[r].key, Erased({r}), [ability EXCEPT ![r] = b])
                /\ raced' = IF connList[r] \subseteq S THEN raced ELSE raced \cup {r}
           ELSE /\ ability' = [ability EXCEPT ![r] = u]
                /\ UNCHANGED <<serviceMap, reqs, restartTasks, raced>>
  <2> DEFINE ab == [ability EXCEPT ![r] = x]
  <2>1. ab[r] = x /\ ability \in [Recs -> AbilityRec]
    BY <1>1 DEF ServicesTyped
  <2>2. [ab EXCEPT ![r] = Unlinked(ab[r], r, S)] = [ability EXCEPT ![r] = u]
    BY <2>1
  <2>3. [[ability EXCEPT ![r] = u] EXCEPT ![r] = Killed(Forgotten([ability EXCEPT ![r] = u][r]))]
          = [ability EXCEPT ![r] = b]
    <3>1. [ability EXCEPT ![r] = u][r] = u
      BY <2>1
    <3> QED
      BY <2>1, <3>1
  <2>4. StartTimeout(r, ab)
    OBVIOUS
  <2> HIDE DEF ab
  <2> QED
    BY <2>1, <2>2, <2>3, <2>4 DEF StartTimeout
<1>3. S \subseteq Conns /\ S \subseteq connList[r] /\ \A c \in S : conn[c].svc = r
  BY ListedIsLive DEF ManagerInv, GetConnectingRecordList, InState
<1>4. /\ u \in AbilityRec /\ (u.isConnected => x.isConnected)
      /\ u.key = x.key /\ u.state = x.state /\ u.byConnect = x.byConnect
      /\ u.startId = x.startId /\ u.proc = x.proc /\ u.todo = x.todo
  <2> HIDE DEF S
  <2> QED
    BY UnlinkedFacts
<1> HIDE DEF S, u
<1>5. /\ \A c \in Conns : conn[c].svc # r => conn'[c] = conn[c]
      /\ \A c \in Conns : conn'[c].state \in {"CONNECTED", "DISCONNECTING"} =>
                               conn[c].state \in {"CONNECTED", "DISCONNECTING"}
      /\ \A q \in Recs : q # r => connList'[q] = connList[q]
      /\ connList'[r] = connList[r] \ S
  BY <1>2, <1>3, DropsOwn DEF ManagerInv
<1>6. BookStep
  BY StartTimeoutStep DEF ManagerInv
<1>7. CASE InService(r)
  <2>1. PICK v : v = Forgotten(u)
    OBVIOUS
  <2>2. v \in AbilityRec /\ v.startId = 0 /\ v.key = x.key /\ v.state = x.state /\ v.todo = NoMsgs
    BY <1>4, <2>1, ForgottenFacts
  <2>3. b = Killed(v)
    BY <2>1
  <2> HIDE DEF b
  <2>4. /\ b \in AbilityRec /\ b.startId = 0 /\ b.key = x.key /\ b.state = x.state /\ b.todo = NoMsgs
    BY <2>2, <2>3, KilledFacts
  <2>5. Leaves(ability[r], b)
    <3>1. NoMsgs["connect"] = 0 /\ NoMsgs["command"] = 0
      BY DEF NoMsgs, Msgs
    <3> QED
      BY <2>4, <3>1 DEF Leaves, Expected
  <2>6. ability[r].key \in Keys
    BY <1>7, ServedUnderKey DEF ManagerInv
  <2>7. PICK q \in Nat : /\ Serve(ability[r].key, q, reqs[ability[r].key], Erased({r}),
                                  [ability EXCEPT ![r] = b])
                         /\ restartTasks' \subseteq Keys
    BY <1>2, <1>7, <2>6, RestartFacts DEF ManagerInv
  <2>8. r \notin terminating
    BY <1>7, ServedUnderKey DEF ManagerInv, SInv, PlacedOnce
  <2>9. /\ raced \subseteq raced' /\ raced' \subseteq Recs /\ (connList'[r] = {} \/ r \in raced')
    BY <1>1, <1>2, <1>5, <1>7 DEF ServicesTyped
  <2>10. /\ terminating' \subseteq terminating \cup {r} /\ (r \in terminating' => b.state = "TERMINATING")
         /\ (\A p \in Recs : p # r => cleaning'[p] = cleaning[p]) /\ UNCHANGED client
    BY <1>2, <2>8
  <2> QED
    BY <1>5, <1>6, <1>7, <2>4, <2>5, <2>7, <2>9, <2>10, ServingLeaves
<1>8. CASE ~InService(r)
  <2>1. Moves(ability[r], u, InService(r))
    BY <1>4, RecTyped DEF Moves, Expected, AbilityRec, ManagerInv
  <2>2. /\ ability' = [ability EXCEPT ![r] = u]
        /\ UNCHANGED <<serviceMap, terminating, client, reqs, restartTasks, raced>>
        /\ \A q \in Recs : q # r => cleaning'[q] = cleaning[q]
    BY <1>2, <1>8
  <2>3. u.state = ability[r].state /\ (u.isConnected => ability[r].isConnected)
    BY <1>4
  <2> QED
    BY <1>4, <1>5, <1>6, <1>8, <2>1, <2>2, <2>3, OneStays
<1> QED
  BY <1>7, <1>8

\* The load timer ran out and its task runs.
LEMMA HandleStartTimeoutKeeps ==
    ASSUME ManagerInv, IInv', NEW r \in Recs, HandleStartTimeoutTask(r)
    PROVE  SInv' /\ LInv' /\ WInv'
<1> DEFINE a == ability[r]
           x == [a EXCEPT !.tasks = a.tasks \ {"startTimeout"}]
<1>1. "startTimeout" \in a.tasks /\ StartTimeout(r, [ability EXCEPT ![r] = x])
  BY DEF HandleStartTimeoutTask
<1>2. a \in AbilityRec /\ a.state # "none"
  BY <1>1, Made, RecTyped DEF ManagerInv
<1>3. x \in AbilityRec
  BY <1>2 DEF AbilityRec
<1>4. /\ x.key = a.key /\ x.byConnect = a.byConnect /\ x.startId = a.startId /\ x.state = a.state
      /\ x.proc = a.proc /\ x.isConnected = a.isConnected /\ x.todo = a.todo
  BY <1>2 DEF AbilityRec
<1> HIDE DEF x
<1> QED
  BY <1>1, <1>2, <1>3, <1>4, StartTimeoutKeeps

\* AppMgr reports that the process could not be started.
LEMMA LoadFailedKeeps ==
    ASSUME ManagerInv, IInv', NEW r \in Recs, OnLoadAbilityFailed(r)
    PROVE  SInv' /\ LInv' /\ WInv'
<1> DEFINE a == ability[r]
           x == [a EXCEPT !.timers = a.timers \ {"load"}, !.proc = "dead"]
<1>1. a.proc = "loading" /\ StartTimeout(r, [ability EXCEPT ![r].timers = a.timers \ {"load"},
                                                            ![r].proc = "dead"])
  BY DEF OnLoadAbilityFailed
<1>2. a \in AbilityRec /\ a.state # "none" /\ ability \in [Recs -> AbilityRec]
  BY <1>1, Made, RecTyped DEF ManagerInv, SInv, ServicesTyped
<1>3. x \in AbilityRec
  BY <1>2 DEF AbilityRec
<1>4. /\ x.key = a.key /\ x.byConnect = a.byConnect /\ x.startId = a.startId /\ x.state = a.state
      /\ x.proc = "dead" /\ x.isConnected = a.isConnected /\ x.todo = a.todo
  BY <1>2 DEF AbilityRec
<1>5. [ability EXCEPT ![r].timers = a.timers \ {"load"}, ![r].proc = "dead"] = [ability EXCEPT ![r] = x]
  BY <1>2
<1> HIDE DEF x
<1>6. StartTimeout(r, [ability EXCEPT ![r] = x])
  BY <1>1, <1>5
<1> QED
  BY <1>2, <1>3, <1>4, <1>6, StartTimeoutKeeps

\* The record r stays where it is, and start requests for its key are served.
LEMMA ServingStays ==
    ASSUME ManagerInv, IInv', BookStep, NEW r \in Recs, ability[r].state # "none", NEW b \in AbilityRec,
           Moves(ability[r], b, InService(r)), NEW q \in Nat, NEW w \in Nat,
           Serve(ability[r].key, q, w, serviceMap, [ability EXCEPT ![r] = b]),
           w = 0 \/ (w = reqs[ability[r].key] /\ b.state = ability[r].state),
           \A p \in Recs : p # r => cleaning'[p] = cleaning[p],
           restartTasks' \subseteq Keys, UNCHANGED <<terminating, raced, client>>,
           \A c \in Conns : conn'[c].state \in {"CONNECTED", "DISCONNECTING"} =>
              \/ conn[c].state \in {"CONNECTED", "DISCONNECTING"}
              \/ conn[c].svc = r /\ b.state = "ACTIVE",
           \A c \in Conns : conn[c].svc # r => conn'[c] = conn[c],
           \A p \in Recs : p # r => connList'[p] = connList[p],
           InService(r) /\ connList'[r] = {} => ~b.isConnected /\ (b.startId # 0 \/ ~b.byConnect),
           "reportFails" \notin Faults /\ InService(r) /\ Watch(r) /\ Like(b, ability'[r]) => Watch(r)'
    PROVE  SInv' /\ LInv' /\ WInv'
<1>0. PICK T, ab : T = {} /\ ab = [ability EXCEPT ![r] = b]
  OBVIOUS
<1>1. ServicesTyped
  BY DEF ManagerInv, SInv
<1>2. Change(T, ab)
  BY <1>0, ChangeOne DEF ManagerInv
<1>3. ab[r] = b /\ \A p \in Recs : p # r => ab[p] = ability[p]
  BY <1>0, <1>1 DEF ServicesTyped
<1>4. PICK k \in Keys : k = ability[r].key
  BY DEF ManagerInv, SInv, Born
<1>5. Erased(T) = serviceMap
  BY <1>0, <1>1, ErasedNone
<1>6. Serve(k, q, w, Erased(T), ab)
  BY <1>0, <1>4, <1>5
<1>7. w > 0 /\ Erased(T)[k] # NoRec => ab[Erased(T)[k]].state # "ACTIVE"
  <2>1. CASE w = 0
    BY <2>1
  <2>2. CASE w = reqs[k] /\ b.state = ability[r].state
    <3>1. \A p \in Recs : ab[p].state = "ACTIVE" => ability[p].state = "ACTIVE"
      BY <1>3, <2>2
    <3> QED
      BY <2>2, <3>1, QueueWaits DEF ManagerInv
  <2> QED
    BY <1>4, <2>1, <2>2
<1>8. \A p \in Recs : ability[p].key # k /\ ab[p].state = "ACTIVE" => ability[p].state = "ACTIVE"
  BY <1>3, <1>4
<1>9. \A p \in Recs : p \notin T /\ InService(p) /\ connList'[p] = {} =>
              ~ab[p].isConnected /\ (ab[p].startId # 0 \/ ~ab[p].byConnect)
  BY <1>0, <1>3 DEF ManagerInv, LInv, Linked, NoOrphanService
<1>10. ASSUME NEW p \in Recs, p # r, Watch(p), Like(ab[p], ability'[p])
       PROVE  Watch(p)'
  BY <1>3, <1>10, LikeWatched DEF ManagerInv, Like
<1>11. client' \in [Callbacks -> {"alive", "dying", "dead"}] /\ raced' \subseteq Recs
  BY <1>1 DEF ServicesTyped
<1>12. \A p \in T : connList'[p] = {} \/ p \in raced'
  BY <1>0
<1>13. \A p \in Recs : ability[p].state = "none" => cleaning'[p] = cleaning[p]
  OBVIOUS
<1>14. "reportFails" \notin Faults =>
          \A p \in Recs : p \notin T /\ InService(p) /\ Watch(p) /\ Like(ab[p], ability'[p]) => Watch(p)'
  BY <1>3, <1>10
<1>15. \A c \in Conns : conn'[c].state \in {"CONNECTED", "DISCONNECTING"} =>
              conn[c].state \in {"CONNECTED", "DISCONNECTING"} \/ ab[conn[c].svc].state = "ACTIVE"
  BY <1>3
<1>16. ServingStep(T, ab, k, q, w)
  BY <1>2, <1>6, <1>7, <1>8, <1>9, <1>11, <1>12, <1>13, <1>14, <1>15 DEF ServingStep
<1> QED
  BY <1>4, <1>16, Serving

\* The clean-up of a start that took too long, once it holds the lock.
LEMMA CleanKeeps ==
    ASSUME ManagerInv, IInv', NEW r \in Recs, CleanActivatingTimeoutAbilityInner(r)
    PROVE  SInv' /\ LInv' /\ WInv'
<1> DEFINE S == cleaning[r]
           x == ability[r]
           u == Unlinked(x, r, S)
           b == TerminateSent(u)
<1>1. /\ S # NoCopy /\ conn' = DropConns(S) /\ Remove(S)
      /\ terminating' = IF InService(r) THEN terminating \cup {r} ELSE terminating
      /\ RestartIfKeepAlive(x.key, Erased({r}), [ability EXCEPT ![r] = IF InService(r) THEN b ELSE u])
      /\ raced' = IF InService(r) /\ ~ connList[r] \subseteq S THEN raced \cup {r} ELSE raced
      /\ cleaning' = [cleaning EXCEPT ![r] = NoCopy] /\ UNCHANGED client
  BY DEF CleanActivatingTimeoutAbilityInner
<1>2. ServicesTyped /\ x \in AbilityRec /\ x.state # "none" /\ x.key \in Keys
  BY <1>1, Made, RecTyped DEF ManagerInv, SInv, Born
<1>3. /\ S \subseteq Conns /\ (\A c \in S : conn[c].svc = r) /\ BookStep
      /\ \A p \in Recs : p # r => cleaning'[p] = cleaning[p]
  BY <1>1, CleanStep DEF ManagerInv, IInv, CleaningOK
<1>4. /\ u \in AbilityRec /\ (u.isConnected => x.isConnected)
      /\ u.key = x.key /\ u.state = x.state /\ u.byConnect = x.byConnect
      /\ u.startId = x.startId /\ u.proc = x.proc /\ u.todo = x.todo
  <2> HIDE DEF S
  <2> QED
    BY <1>2, UnlinkedFacts
<1>5. b \in AbilityRec /\ Leaves(ability[r], b) /\ b.state = "TERMINATING"
  <2> HIDE DEF S
  <2> QED
    BY <1>2, TerminatedFacts DEF ManagerInv
<1> HIDE DEF S, u, b
<1>6. /\ \A c \in Conns : conn[c].svc # r => conn'[c] = conn[c]
      /\ \A c \in Conns : conn'[c].state \in {"CONNECTED", "DISCONNECTING"} =>
                               conn[c].state \in {"CONNECTED", "DISCONNECTING"}
      /\ \A q \in Recs : q # r => connList'[q] = connList[q]
      /\ connList'[r] = connList[r] \ S
  BY <1>1, <1>3, DropsOwn DEF ManagerInv
<1>7. CASE InService(r)
  <2>1. PICK q \in Nat : /\ Serve(x.key, q, reqs[x.key], Erased({r}), [ability EXCEPT ![r] = b])
                         /\ restartTasks' \subseteq Keys
    BY <1>1, <1>2, <1>7, RestartFacts DEF ManagerInv
  <2>2. raced \subseteq raced' /\ raced' \subseteq Recs /\ (connList'[r] = {} \/ r \in raced')
    BY <1>1, <1>2, <1>6, <1>7 DEF ServicesTyped
  <2>3. terminating' \subseteq terminating \cup {r} /\ UNCHANGED client
    BY <1>1, <1>7
  <2> QED
    BY <1>3, <1>5, <1>6, <1>7, <2>1, <2>2, <2>3, ServingLeaves
<1>8. CASE ~InService(r)
  <2>1. Erased({r}) = serviceMap
    BY <1>8, ErasedAbsent DEF ManagerInv
  <2>2. PICK q \in Nat : /\ Serve(x.key, q, reqs[x.key], serviceMap, [ability EXCEPT ![r] = u])
                         /\ restartTasks' \subseteq Keys
    BY <1>1, <1>2, <1>8, <2>1, RestartFacts DEF ManagerInv
  <2>3. PICK w \in Nat : w = reqs[x.key]
    BY <1>2 DEF ServicesTyped
  <2>4. Moves(ability[r], u, InService(r))
    BY <1>2, <1>4 DEF Moves, Expected, AbilityRec
  <2>5. Serve(ability[r].key, q, w, serviceMap, [ability EXCEPT ![r] = u])
    BY <2>2, <2>3
  <2>6. w = reqs[ability[r].key] /\ u.state = ability[r].state
    BY <1>4, <2>3
  <2>7. UNCHANGED <<terminating, raced, client>>
    BY <1>1, <1>8
  <2> QED
    BY <1>2, <1>3, <1>4, <1>6, <1>8, <2>2, <2>4, <2>5, <2>6, <2>7, ServingStays
<1> QED
  BY <1>7, <1>8

\* The task that handles the death of the process.
LEMMA AbilityDiedKeeps ==
    ASSUME ManagerInv, IInv', NEW r \in Recs, HandleAbilityDiedTask(r)
    PROVE  SInv' /\ LInv' /\ WInv'
<1> DEFINE S == connList[r]
           x == ability[r]
           u == Unlinked(x, r, S)
           a == [u EXCEPT !.remote = FALSE, !.tasks = u.tasks \ {"abilityDied"}]
           b == Forgotten(a)
<1>1. /\ "abilityDied" \in x.tasks /\ conn' = DropConns(S) /\ Remove(S)
      /\ \/ InService(r) /\ RestartIfKeepAlive(x.key, Erased({r}),
                               [ability EXCEPT ![r] = IF InService(r) THEN b ELSE a])
         \/ /\ serviceMap' = Erased({r})
            /\ ability' = [ability EXCEPT ![r] = IF InService(r) THEN b ELSE a]
            /\ UNCHANGED <<reqs, restartTasks>>
      /\ UNCHANGED <<terminating, client, cleaning, raced>>
  BY DEF HandleAbilityDiedTask
<1>2. ServicesTyped /\ x \in AbilityRec /\ x.state # "none" /\ x.key \in Keys
  BY <1>1, Made, RecTyped DEF ManagerInv, SInv, Born
<1>3. /\ S \subseteq Conns /\ (\A c \in S : conn[c].svc = r) /\ BookStep
  BY ListedIsLive, AbilityDiedStep DEF ManagerInv
<1>4. /\ u \in AbilityRec /\ (u.isConnected => x.isConnected)
      /\ u.key = x.key /\ u.state = x.state /\ u.byConnect = x.byConnect
      /\ u.startId = x.startId /\ u.proc = x.proc /\ u.todo = x.todo
  <2> HIDE DEF S
  <2> QED
    BY <1>2, UnlinkedFacts
<1> HIDE DEF u
<1>5. a \in AbilityRec
  BY <1>4 DEF AbilityRec
<1>6. /\ (a.isConnected => x.isConnected)
      /\ a.key = x.key /\ a.state = x.state /\ a.byConnect = x.byConnect
      /\ a.startId = x.startId /\ a.proc = x.proc /\ a.todo = x.todo
  BY <1>4 DEF AbilityRec
<1> HIDE DEF a
<1>7. /\ b \in AbilityRec /\ b.startId = 0 /\ b.key = x.key /\ b.state = x.state /\ b.todo = NoMsgs
  BY <1>5, <1>6, ForgottenFacts
<1> HIDE DEF b, S
<1>8. /\ \A c \in Conns : conn[c].svc # r => conn'[c] = conn[c]
      /\ \A c \in Conns : conn'[c].state \in {"CONNECTED", "DISCONNECTING"} =>
                               conn[c].state \in {"CONNECTED", "DISCONNECTING"}
      /\ \A q \in Recs : q # r => connList'[q] = connList[q]
      /\ connList'[r] = connList[r] \ S
  BY <1>1, <1>3, DropsOwn DEF ManagerInv
<1>9. connList'[r] = {}
  BY <1>8 DEF S
<1>10. CASE InService(r)
  <2>1. Leaves(ability[r], b)
    <3>1. NoMsgs["connect"] = 0 /\ NoMsgs["command"] = 0
      BY DEF NoMsgs, Msgs
    <3> QED
      BY <1>7, <3>1 DEF Leaves, Expected
  <2>2. r \notin terminating
    BY <1>10, ServedUnderKey DEF ManagerInv, SInv, PlacedOnce
  <2>3. /\ raced \subseteq raced' /\ raced' \subseteq Recs
        /\ terminating' \subseteq terminating \cup {r} /\ (r \in terminating' => b.state = "TERMINATING")
        /\ (\A p \in Recs : p # r => cleaning'[p] = cleaning[p]) /\ UNCHANGED client
    BY <1>1, <1>2, <2>2 DEF ServicesTyped
  <2>4. CASE RestartIfKeepAlive(x.key, Erased({r}), [ability EXCEPT ![r] = b])
    <3>1. PICK q \in Nat : /\ Serve(x.key, q, reqs[x.key], Erased({r}), [ability EXCEPT ![r] = b])
                           /\ restartTasks' \subseteq Keys
      BY <1>2, <2>4, RestartFacts DEF ManagerInv
    <3> QED
      BY <1>3, <1>7, <1>8, <1>9, <1>10, <2>1, <2>3, <3>1, ServingLeaves
  <2>5. CASE /\ serviceMap' = Erased({r}) /\ ability' = [ability EXCEPT ![r] = b]
             /\ UNCHANGED <<reqs, restartTasks>>
    BY <1>3, <1>7, <1>8, <1>9, <1>10, <2>1, <2>3, <2>5, OneLeaves
  <2> QED
    BY <1>1, <1>10, <2>4, <2>5
<1>11. CASE ~InService(r)
  <2>1. Moves(ability[r], a, InService(r))
    BY <1>2, <1>6 DEF Moves, Expected, AbilityRec
  <2>2. /\ ability' = [ability EXCEPT ![r] = a]
        /\ UNCHANGED <<serviceMap, terminating, client, reqs, restartTasks, raced>>
        /\ \A q \in Recs : q # r => cleaning'[q] = cleaning[q]
    BY <1>1, <1>11, ErasedAbsent DEF ManagerInv
  <2>3. a.state = ability[r].state /\ (a.isConnected => ability[r].isConnected)
    BY <1>6
  <2> QED
    BY <1>2, <1>3, <1>5, <1>8, <1>11, <2>1, <2>2, <2>3, OneStays
<1> QED
  BY <1>10, <1>11

\* The service of the record r answers a connect call.
LEMMA ConnectDoneKeeps ==
    ASSUME ManagerInv, IInv', NEW r \in Recs, NEW remote \in BOOLEAN, ScheduleConnectAbilityDone(r, remote)
    PROVE  SInv' /\ LInv' /\ WInv'
<1> DEFINE x == ability[r]
           C == GetConnectingRecordList(r)
<1>1. x.todo["connect"] > 0 /\ "connect" \in Msgs
  BY DEF ScheduleConnectAbilityDone, Msgs
<1>2. PICK a \in AbilityRec :
              /\ Took(r, "connect") = [ability EXCEPT ![r] = a] /\ Took(r, "connect")[r] = a
              /\ a.key = ability[r].key /\ a.state = ability[r].state
              /\ a.byConnect = ability[r].byConnect /\ a.startId = ability[r].startId
              /\ a.proc = ability[r].proc /\ a.isConnected = ability[r].isConnected
              /\ a.timers = ability[r].timers /\ a.tasks = ability[r].tasks
              /\ a.cmdTimers = ability[r].cmdTimers /\ (Expected(a) => Expected(ability[r]))
  BY <1>1, TookFacts DEF ManagerInv
<1> DEFINE b == [a EXCEPT !.remote = remote, !.state = IF C = {} THEN a.state ELSE "ACTIVE"]
<1>3. /\ a.state \in {"INACTIVE", "ACTIVE"}
      /\ Serve(x.key, reqs[x.key], 0, serviceMap, [ability EXCEPT ![r] = b])
      /\ UNCHANGED <<terminating, books, client, restartTasks, cleaning, raced>>
  BY <1>2 DEF ScheduleConnectAbilityDone, CompleteStartServiceReq, Bound
<1>4. PICK F : conn' = [c \in Conns |-> IF c \in C THEN Completed(conn[c], remote, c \in F) ELSE conn[c]]
  BY DEF ScheduleConnectAbilityDone
<1>5. ServicesTyped /\ conn \in [Conns -> ConnRec]
  BY DEF ManagerInv, SInv, IInv, ConnOK
<1>6. InService(r) /\ x.state # "none" /\ x.key \in Keys /\ x.proc # "loading"
  BY <1>1, <1>2, <1>3, ServedUnderKey DEF ManagerInv, SInv, AnswersOK, Expected
<1>7. /\ C = InState(connList[r], "CONNECTING") /\ C \subseteq Conns /\ \A c \in C : conn[c].svc = r
  BY ListedIsLive DEF ManagerInv, GetConnectingRecordList, InState
<1> HIDE DEF C
<1>8. b \in AbilityRec
  BY DEF AbilityRec, States
<1>9. /\ b.key = x.key /\ b.byConnect = x.byConnect /\ b.startId = x.startId /\ b.proc = x.proc
      /\ b.isConnected = x.isConnected /\ b.timers = x.timers /\ b.tasks = x.tasks
      /\ b.cmdTimers = x.cmdTimers
      /\ (C = {} => b.state = x.state) /\ (C # {} => b.state = "ACTIVE")
  BY <1>2 DEF AbilityRec
<1> HIDE DEF b
<1>10. Moves(x, b, InService(r))
  <2>1. x.startId \in Nat
    BY <1>2 DEF AbilityRec
  <2> QED
    BY <1>2, <1>3, <1>6, <1>9, <2>1 DEF Moves
<1>11. BookStep /\ UNCHANGED connList
  BY <1>3, ConnectDoneStep DEF ManagerInv, books
<1>12. /\ \A c \in Conns : c \notin C => conn'[c] = conn[c]
       /\ \A c \in C : conn'[c].state \in {"CONNECTED", "DISCONNECTING"}
  <2>1. \A c \in Conns : conn'[c] = IF c \in C THEN Completed(conn[c], remote, c \in F) ELSE conn[c]
    BY <1>4
  <2>2. ASSUME NEW c \in C PROVE conn'[c].state \in {"CONNECTED", "DISCONNECTING"}
    <3>1. PICK y, fails : y = conn[c] /\ fails = (c \in F)
      OBVIOUS
    <3>2. y \in ConnRec /\ conn'[c] = Completed(y, remote, fails)
      BY <1>5, <1>7, <2>1, <3>1
    <3> QED
      BY <3>2, CompletedFacts
  <2> QED
    BY <2>1, <2>2
<1>13. ASSUME Watch(r), Like(b, ability'[r])
       PROVE  Watch(r)'
  <2>1. CASE C = {}
    <3>1. \A c \in Conns : conn'[c] = conn[c]
      BY <1>12, <2>1
    <3>2. cleaning'[r] = cleaning[r]
      BY <1>3
    <3>3. b.state = x.state /\ b.startId \in Nat
      BY <1>8, <1>9, <2>1 DEF AbilityRec
    <3>4. /\ ability'[r].state = x.state
          /\ ability'[r].state = "INACTIVE" => ability'[r].startId = x.startId
          /\ ability'[r].isConnected => x.isConnected
          /\ x.timers \subseteq ability'[r].timers /\ x.cmdTimers \subseteq ability'[r].cmdTimers
          /\ x.tasks \subseteq ability'[r].tasks
      BY <1>9, <1>13, <3>3 DEF Like
    <3> QED
      BY <1>11, <1>13, <3>1, <3>2, <3>4, StaysWatched DEF ManagerInv
  <2>2. CASE C # {}
    <3>1. ability'[r].state = "ACTIVE"
      BY <1>9, <1>13, <2>2 DEF Like
    <3>2. ASSUME NEW c \in connList'[r], conn'[c].state = "CONNECTING" PROVE FALSE
      <4>1. c \in Conns /\ c \in connList[r]
        BY <1>11, ListedIsLive DEF ManagerInv
      <4>2. c \notin C
        BY <1>12, <3>2
      <4>3. conn[c].state = "CONNECTING"
        BY <1>12, <3>2, <4>1, <4>2
      <4> QED
        BY <1>7, <4>1, <4>2, <4>3 DEF InState
    <3>3. ~SomeoneWaits(r)'
      BY <3>2 DEF SomeoneWaits
    <3> QED
      BY <3>1, <3>3 DEF Watch
  <2> QED
    BY <2>1, <2>2
<1>14. connList'[r] = {} => ~b.isConnected /\ (b.startId # 0 \/ ~b.byConnect)
  BY <1>6, <1>9, <1>11 DEF ManagerInv, LInv, Linked, NoOrphanService
<1>15. \A c \in Conns : conn'[c].state \in {"CONNECTED", "DISCONNECTING"} =>
              \/ conn[c].state \in {"CONNECTED", "DISCONNECTING"}
              \/ conn[c].svc = r /\ b.state = "ACTIVE"
  BY <1>7, <1>9, <1>12
<1>16. \A c \in Conns : conn[c].svc # r => conn'[c] = conn[c]
  BY <1>7, <1>12
<1>17. PICK q \in Nat, w \in Nat : q = reqs[x.key] /\ w = 0
  BY <1>5, <1>6 DEF ServicesTyped
<1>18. /\ Serve(ability[r].key, q, w, serviceMap, [ability EXCEPT ![r] = b])
       /\ restartTasks' \subseteq Keys
       /\ \A p \in Recs : p # r => cleaning'[p] = cleaning[p] /\ connList'[p] = connList[p]
       /\ UNCHANGED <<terminating, raced, client>>
  BY <1>3, <1>5, <1>11, <1>17 DEF ServicesTyped
<1> QED
  BY <1>6, <1>8, <1>10, <1>11, <1>13, <1>14, <1>15, <1>16, <1>17, <1>18, ServingStays

\* Only connections of the service itself are watched.
LEMMA ConnectTimerOwn ==
    ASSUME IInv, NEW r \in Recs, conn' = ConnectTimer(conn, connList[r])
    PROVE  \A c \in Conns : conn[c].svc # r => conn'[c] = conn[c]
<1> DEFINE W == {c \in connList[r] : conn[c].state = "CONNECTING"}
<1>1. W \subseteq Conns /\ \A c \in W : conn[c].svc = r
  BY ListedIsLive
<1>2. CASE W = {}
  BY <1>2 DEF ConnectTimer
<1>3. CASE W # {}
  <2>1. First(W) \in W
    BY <1>1, <1>3, FirstIn
  <2>2. PICK f : f = First(W)
    OBVIOUS
  <2>3. conn' = [conn EXCEPT ![f].tasks = @ \cup {"connect"}]
    BY <1>3, <2>2 DEF ConnectTimer
  <2> QED
    BY <1>1, <2>1, <2>2, <2>3 DEF IInv, ConnOK
<1> QED
  BY <1>2, <1>3

\* The service of the record r answers a command call.
LEMMA CommandDoneKeeps ==
    ASSUME ManagerInv, IInv', NEW r \in Recs, ScheduleCommandAbilityDone(r)
    PROVE  SInv' /\ LInv' /\ WInv'
<1> DEFINE x == ability[r]
<1>1. x.todo["command"] > 0 /\ "command" \in Msgs
  BY DEF ScheduleCommandAbilityDone, Msgs
<1>2. PICK a \in AbilityRec :
              /\ Took(r, "command") = [ability EXCEPT ![r] = a] /\ Took(r, "command")[r] = a
              /\ a.key = ability[r].key /\ a.state = ability[r].state
              /\ a.byConnect = ability[r].byConnect /\ a.startId = ability[r].startId
              /\ a.proc = ability[r].proc /\ a.isConnected = ability[r].isConnected
              /\ a.timers = ability[r].timers /\ a.tasks = ability[r].tasks
              /\ a.cmdTimers = ability[r].cmdTimers /\ (Expected(a) => Expected(ability[r]))
  BY <1>1, TookFacts DEF ManagerInv
<1> DEFINE done == [a EXCEPT !.cmdTimers = a.cmdTimers \ {a.startId}, !.state = "ACTIVE"]
           connect == connList[r] # {} /\ ~a.isConnected
           b == IF connect THEN ConnectSent(done) ELSE done
<1>3. /\ a.state \in {"INACTIVE", "ACTIVE"}
      /\ conn' = IF connect THEN ConnectTimer(conn, connList[r]) ELSE conn
      /\ Serve(x.key, reqs[x.key], 0, serviceMap, [ability EXCEPT ![r] = b])
      /\ UNCHANGED <<terminating, books, client, restartTasks, cleaning, raced>>
  BY <1>2 DEF ScheduleCommandAbilityDone, CompleteStartServiceReq
<1>4. ServicesTyped
  BY DEF ManagerInv, SInv
<1>5. InService(r) /\ x.state # "none" /\ x.key \in Keys /\ x.proc # "loading"
  BY <1>1, <1>2, <1>3, ServedUnderKey DEF ManagerInv, SInv, AnswersOK, Expected
<1>6. done \in AbilityRec
  <2>1. a.cmdTimers \ {a.startId} \in SUBSET Nat
    BY DEF AbilityRec
  <2> QED
    BY <2>1 DEF AbilityRec, States
<1>7. /\ done.key = x.key /\ done.byConnect = x.byConnect /\ done.startId = x.startId
      /\ done.proc = x.proc /\ done.isConnected = x.isConnected /\ done.tasks = x.tasks
      /\ done.state = "ACTIVE"
  BY <1>2 DEF AbilityRec
<1> HIDE DEF done
<1>8. /\ b \in AbilityRec /\ b.key = x.key /\ b.byConnect = x.byConnect /\ b.startId = x.startId
      /\ b.proc = x.proc /\ b.tasks = x.tasks /\ b.state = "ACTIVE"
      /\ ~connect => b.isConnected = x.isConnected
  <2>1. CASE connect
    <3>1. PICK y : y = ConnectSent(done)
      OBVIOUS
    <3>2. /\ y \in AbilityRec /\ y.key = x.key /\ y.byConnect = x.byConnect /\ y.startId = x.startId
          /\ y.proc = x.proc /\ y.tasks = x.tasks /\ y.state = "ACTIVE"
      BY <1>6, <1>7, <3>1, ConnectSentFacts
    <3> QED
      BY <2>1, <3>1, <3>2
  <2>2. CASE ~connect
    BY <1>6, <1>7, <2>2
  <2> QED
    BY <2>1, <2>2
<1> HIDE DEF b
<1>9. Moves(x, b, InService(r))
  <2>1. x.startId \in Nat
    BY <1>2 DEF AbilityRec
  <2> QED
    BY <1>2, <1>3, <1>5, <1>8, <2>1 DEF Moves
<1>10. BookStep /\ UNCHANGED connList
  <2>1. Advance({})
    BY <1>3, ConnSame, ConnectTimerAdvance DEF ManagerInv
  <2> QED
    BY <1>3, <2>1, TasksStep DEF ManagerInv, books
<1>11. /\ \A c \in Conns : conn'[c].state = conn[c].state /\ conn[c].tasks \subseteq conn'[c].tasks
       /\ \A c \in Conns : conn[c].svc # r => conn'[c] = conn[c]
       /\ connect /\ SomeoneWaits(r) => Armed(r)'
  <2>1. CASE connect
    BY <1>3, <2>1, ConnectTimerFacts, ConnectTimerOwn DEF ManagerInv
  <2>2. CASE ~connect
    BY <1>3, <2>2
  <2> QED
    BY <2>1, <2>2
<1>12. ASSUME Watch(r), Like(b, ability'[r])
       PROVE  Watch(r)'
  <2>1. ability'[r].state = "ACTIVE" /\ ability'[r].tasks = x.tasks /\ cleaning'[r] = cleaning[r]
    BY <1>3, <1>8, <1>12 DEF Like
  <2>2. ASSUME SomeoneWaits(r)' PROVE Armed(r)' \/ Tended(r)'
    <3>1. SomeoneWaits(r)
      BY <1>10, <2>2, NobodyWaitsMore DEF ManagerInv
    <3>2. connList[r] # {}
      BY <3>1 DEF SomeoneWaits
    <3>3. CASE connect
      BY <1>11, <3>1, <3>3
    <3>4. CASE x.isConnected
      <4>1. Armed(r) \/ Tended(r)
        BY <1>2, <1>3, <1>12, <3>1, <3>4 DEF Watch
      <4>2. Tended(r) => Tended(r)'
        BY <2>1 DEF Tended
      <4>3. Armed(r) => Armed(r)'
        BY <1>10, <1>11, SameService, ArmedKept DEF ManagerInv
      <4> QED
        BY <4>1, <4>2, <4>3
    <3> QED
      BY <1>2, <3>2, <3>3, <3>4
  <2> QED
    BY <2>1, <2>2 DEF Watch
<1>13. connList'[r] = {} => ~b.isConnected /\ (b.startId # 0 \/ ~b.byConnect)
  BY <1>5, <1>8, <1>10 DEF ManagerInv, LInv, Linked, NoOrphanService
<1>14. \A c \in Conns : conn'[c].state \in {"CONNECTED", "DISCONNECTING"} =>
              \/ conn[c].state \in {"CONNECTED", "DISCONNECTING"}
              \/ conn[c].svc = r /\ b.state = "ACTIVE"
  BY <1>11
<1>15. PICK q \in Nat, w \in Nat : q = reqs[x.key] /\ w = 0
  BY <1>4, <1>5 DEF ServicesTyped
<1>16. /\ Serve(ability[r].key, q, w, serviceMap, [ability EXCEPT ![r] = b])
       /\ restartTasks' \subseteq Keys
       /\ \A p \in Recs : p # r => cleaning'[p] = cleaning[p] /\ connList'[p] = connList[p]
       /\ UNCHANGED <<terminating, raced, client>>
  BY <1>3, <1>4, <1>10, <1>15 DEF ServicesTyped
<1> QED
  BY <1>5, <1>8, <1>9, <1>10, <1>11, <1>12, <1>13, <1>14, <1>15, <1>16, ServingStays
-------------------------------------------------------------------------------
(* Connecting.                                                             *)

\* A fresh connection y is made to the record r, which was in service already or is
\* made for it.
Linking(r, y) ==
    /\ r \in Recs /\ NextConn \in Conns
    /\ conn' = [conn EXCEPT ![NextConn] = y]
    /\ y.svc = r /\ y.state \in {"CONNECTING", "CONNECTED", "DISCONNECTING"}
    /\ connList' = [connList EXCEPT ![r] = connList[r] \cup {NextConn}]
    /\ UNCHANGED <<terminating, client, reqs, restartTasks, cleaning, raced>>

\* The connections that were made before stay as they are.
LEMMA LinkingFacts ==
    ASSUME IInv, NEW r, NEW y, Linking(r, y)
    PROVE  /\ conn'[NextConn] = y /\ conn[NextConn].state = "INIT" /\ conn[NextConn].tasks = {}
           /\ \A c \in Conns : c # NextConn => conn'[c] = conn[c]
           /\ connList'[r] = connList[r] \cup {NextConn}
           /\ \A p \in Recs : p # r => connList'[p] = connList[p]
           /\ \A p \in Recs : \A c \in connList[p] : c \in Conns /\ c # NextConn
           /\ \A p \in Recs : Armed(p) => Armed(p)'
           /\ \A p \in Recs : (p # r \/ y.state # "CONNECTING") /\ SomeoneWaits(p)' => SomeoneWaits(p)
           /\ \A p \in Recs : ability'[p].tasks = ability[p].tasks /\ Tended(p) => Tended(p)'
<1>1. r \in Recs /\ NextConn \in Conns /\ NextConn \in Nat
  BY NextIsFresh DEF Linking, IInv
<1>2. conn \in [Conns -> ConnRec] /\ connList \in [Recs -> SUBSET Conns]
  BY DEF IInv, ConnOK, BooksOK
<1>3. conn[NextConn].state = "INIT"
  <2>1. ~(NextConn < NextConn)
    BY <1>1
  <2> QED
    BY <1>1, <2>1, NextIsFresh DEF IInv
<1>4. conn[NextConn].tasks = {}
  BY <1>1, <1>3 DEF IInv, ConnOK
<1>5. conn'[NextConn] = y /\ \A c \in Conns : c # NextConn => conn'[c] = conn[c]
  BY <1>1, <1>2 DEF Linking
<1>6. connList'[r] = connList[r] \cup {NextConn}
      /\ \A p \in Recs : p # r => connList'[p] = connList[p]
  BY <1>1, <1>2 DEF Linking
<1>7. \A p \in Recs : \A c \in connList[p] : c \in Conns /\ c # NextConn
  BY <1>3, ListedIsLive
<1>8. ASSUME NEW p \in Recs, Armed(p) PROVE Armed(p)'
  <2>1. PICK d \in Conns : conn[d].svc = p /\ conn[d].tasks \cap {"connect", "running"} # {}
    BY <1>8 DEF Armed
  <2>2. d # NextConn
    BY <1>4, <2>1
  <2>3. conn'[d] = conn[d]
    BY <1>5, <2>2
  <2> QED
    BY <2>1, <2>3 DEF Armed
<1>9. ASSUME NEW p \in Recs, p # r \/ y.state # "CONNECTING", SomeoneWaits(p)'
      PROVE  SomeoneWaits(p)
  <2>1. PICK c \in connList'[p] : conn'[c].state = "CONNECTING"
    BY <1>9 DEF SomeoneWaits
  <2>2. c \in connList[p] /\ c # NextConn
    BY <1>5, <1>6, <1>7, <1>9, <2>1
  <2>3. conn[c].state = "CONNECTING"
    BY <1>5, <1>7, <2>1, <2>2
  <2> QED
    BY <2>2, <2>3 DEF SomeoneWaits
<1>10. ASSUME NEW p \in Recs, ability'[p].tasks = ability[p].tasks, Tended(p)
       PROVE  Tended(p)'
  BY <1>10 DEF Tended, Linking
<1> QED
  BY <1>3, <1>4, <1>5, <1>6, <1>7, <1>8, <1>9, <1>10

\* A fresh connection keeps the services placed, linked and watched.
LEMMA LinkingKeeps ==
    ASSUME ManagerInv, IInv', NEW r, NEW y, Linking(r, y), NEW n, NEW ab, Change({}, ab), Makes({}, n, ab),
           \E k \in Keys : serviceMap'[k] = r,
           y.state # "CONNECTING" => ability'[r].state = "ACTIVE",
           n \in Recs => n = r,
           \A p \in Recs : p # r => ab[p] = ability[p],
           ab[r].state = "ACTIVE" => ability[r].state = "ACTIVE",
           "reportFails" \notin Faults /\ (n # r => InService(r) /\ Watch(r)) => Watch(r)'
    PROVE  SInv' /\ LInv' /\ WInv'
<1>0. PICK T : T = {}
  OBVIOUS
<1>1. /\ conn'[NextConn] = y /\ conn[NextConn].state = "INIT"
      /\ \A c \in Conns : c # NextConn => conn'[c] = conn[c]
      /\ connList'[r] = connList[r] \cup {NextConn}
      /\ \A p \in Recs : p # r => connList'[p] = connList[p]
      /\ \A p \in Recs : Armed(p) => Armed(p)'
      /\ \A p \in Recs : p # r /\ SomeoneWaits(p)' => SomeoneWaits(p)
      /\ \A p \in Recs : ability'[p].tasks = ability[p].tasks /\ Tended(p) => Tended(p)'
  BY LinkingFacts DEF ManagerInv
<1>2. r \in Recs /\ y.svc = r /\ UNCHANGED <<terminating, client, reqs, restartTasks, cleaning,
                                             raced>>
  BY DEF Linking
<1>3. ServicesTyped /\ Change(T, ab) /\ Makes(T, n, ab)
  BY <1>0 DEF ManagerInv, SInv
<1>4. \A p \in Recs : p # r => ability'[p] = ability[p] /\ p # n
  <2> SUFFICES ASSUME NEW p \in Recs, p # r PROVE ability'[p] = ability[p] /\ p # n
    OBVIOUS
  <2>1. ab \in [Recs -> AbilityRec] /\ ab[p] = ability[p]
    BY <1>3 DEF Change
  <2>2. CASE n = NoRec /\ ability' = ab
    BY <2>1, <2>2 DEF NoRec, Recs
  <2>3. CASE n \in Recs /\ \E v \in AbilityRec : ability' = [ab EXCEPT ![n] = v]
    BY <2>1, <2>3
  <2> QED
    BY <1>3, <2>2, <2>3 DEF Makes
<1>5. ServiceStep(T, n, ab)
  <2>1. ASSUME NEW c \in Conns, conn'[c].state # "INIT"
        PROVE  \/ conn[c].state # "INIT" /\ conn'[c].svc = conn[c].svc
               \/ conn'[c].svc \in Recs /\ \E k \in Keys : serviceMap'[k] = conn'[c].svc
    <3>1. CASE c = NextConn
      BY <1>1, <1>2, <3>1
    <3>2. CASE c # NextConn
      BY <1>1, <2>1, <3>2
    <3> QED
      BY <3>1, <3>2
  <2>2. /\ terminating' \subseteq Recs /\ raced' \subseteq Recs /\ raced \subseteq raced'
        /\ client' \in [Callbacks -> {"alive", "dying", "dead"}]
        /\ reqs' \in [Keys -> Nat] /\ restartTasks' \subseteq Keys
        /\ \A p \in terminating' : p \in terminating
        /\ \A p \in Recs : cleaning'[p] = cleaning[p]
    BY <1>2, <1>3 DEF ServicesTyped
  <2> QED
    BY <1>3, <2>1, <2>2 DEF ServiceStep
<1>6. SInv'
  BY <1>5, ServiceStepSInv DEF ManagerInv, IInv
<1>7. LinkStep(T, n)
  <2>1. ASSUME NEW c \in Conns, conn'[c].state \in {"CONNECTED", "DISCONNECTING"}
        PROVE  \/ conn[c].state \in {"CONNECTED", "DISCONNECTING"} /\ conn'[c].svc = conn[c].svc
               \/ ability'[conn'[c].svc].state = "ACTIVE"
    <3>1. CASE c = NextConn
      BY <1>1, <1>2, <2>1, <3>1
    <3>2. CASE c # NextConn
      BY <1>1, <2>1, <3>2
    <3> QED
      BY <3>1, <3>2
  <2>2. ASSUME NEW p \in Recs, p \notin T, p # n, InService(p), connList'[p] = {}
        PROVE  ~ability'[p].isConnected /\ (ability'[p].startId # 0 \/ ~ability'[p].byConnect)
    <3>1. p # r
      BY <1>1, <2>2
    <3>2. ability'[p] = ability[p] /\ connList[p] = {}
      BY <1>1, <1>4, <2>2, <3>1
    <3> QED
      BY <2>2, <3>2 DEF ManagerInv, LInv, Linked, NoOrphanService
  <2>3. n \in Recs => connList'[n] # {}
    BY <1>1
  <2>4. \A p \in Recs : connList'[p] \subseteq connList[p] \/ InService(p)'
    BY <1>1 DEF InService
  <2>5. \A p \in T : connList'[p] = {} \/ p \in raced'
    BY <1>0
  <2> QED
    BY <2>1, <2>2, <2>3, <2>4, <2>5 DEF LinkStep
<1>8. RequestsServed'
  <2>1. \A p \in Recs : ab[p].state = "ACTIVE" => ability[p].state = "ACTIVE"
    BY <1>2
  <2>2. \A k \in Keys : reqs'[k] > 0 => reqs[k] > 0
    BY <1>2
  <2> QED
    BY <1>5, <2>1, <2>2, RequestsKept DEF ManagerInv
<1>9. LInv'
  BY <1>5, <1>6, <1>7, <1>8, LinkStepLInv DEF ManagerInv, LInv
<1>10. WInv'
  <2>1. ASSUME NEW p \in Recs, p # r, Watch(p) PROVE Watch(p)'
    <3>1. ability'[p] = ability[p]
      BY <1>4, <2>1
    <3>2. StillWatched(p)
      BY <1>1, <2>1, <3>1 DEF StillWatched
    <3> QED
      BY <2>1, <3>2, WatchKept
  <2>2. "reportFails" \notin Faults =>
             /\ n \in Recs => Watch(n)'
             /\ \A p \in Recs : InService(p) /\ p \notin T /\ p # n /\ Watch(p) => Watch(p)'
    BY <2>1
  <2> QED
    BY <1>5, <2>2, WatchInv DEF ManagerInv
<1> QED
  BY <1>6, <1>9, <1>10

\* A connect request.
LEMMA ConnectKeeps ==
    ASSUME ManagerInv, IInv', NEW k \in Keys, NEW cb \in Callbacks, ConnectAbilityLocked(k, cb)
    PROVE  SInv' /\ LInv' /\ WInv'
<1> DEFINE loaded == serviceMap[k] # NoRec
<1>0. PICK r, c, new : /\ r = (IF loaded THEN serviceMap[k] ELSE NextRec)
                       /\ c = NextConn
                       /\ new = [cb |-> cb, svc |-> r, state |-> "CONNECTING", tasks |-> {}]
  OBVIOUS
<1>1. /\ r \in Recs /\ c \in Conns
      /\ connList' = [connList EXCEPT ![r] = connList[r] \cup {c}]
      /\ UNCHANGED <<terminating, client, reqs, restartTasks, cleaning, raced>>
  BY <1>0 DEF ConnectAbilityLocked, Register
<1>2. ServicesTyped /\ Erased({}) = serviceMap /\ Change({}, ability)
  BY ErasedNone, ChangeNone DEF ManagerInv, SInv
<1>3. NoRec \notin Recs
  BY DEF NoRec, Recs
<1>4. \/ /\ ~ loaded
         /\ serviceMap' = [serviceMap EXCEPT ![k] = r]
         /\ ability' = [ability EXCEPT ![r] = Loading(k, TRUE)]
         /\ conn' = [conn EXCEPT ![c] = new]
      \/ /\ loaded /\ ability[r].state = "ACTIVE"
         /\ HandleActiveAbility(r, c, new)
         /\ UNCHANGED serviceMap
      \/ /\ loaded /\ ability[r].state # "ACTIVE"
         /\ conn' = [conn EXCEPT ![c] = new]
         /\ UNCHANGED <<serviceMap, ability>>
      \/ /\ "reportFails" \in Faults
         /\ serviceMap' = [serviceMap EXCEPT ![k] = r]
         /\ ability' = IF loaded THEN ability
                       ELSE [ability EXCEPT ![r] = [Loading(k, TRUE) EXCEPT !.proc = "none", !.timers = {}]]
         /\ conn' = [conn EXCEPT ![c] = new]
  BY <1>0 DEF ConnectAbilityLocked
<1>5. ~loaded => r = NextRec /\ serviceMap[k] = NoRec
  BY <1>0
<1>6. loaded => serviceMap[k] = r
  BY <1>0
<1>7. InService(r) <=> loaded
  <2>1. loaded => InService(r)
    BY <1>6 DEF InService
  <2>2. ~loaded => ability[r].state = "none"
    BY <1>1, <1>5, NextRecFresh DEF ManagerInv, Recs
  <2> QED
    BY <1>1, <2>1, <2>2, ServedUnderKey DEF ManagerInv
<1> HIDE DEF loaded
<1>8. new \in ConnRec /\ new.svc = r /\ new.state = "CONNECTING"
  BY <1>0, <1>1 DEF ConnRec, ConnStates
<1>9. ASSUME NEW y, conn' = [conn EXCEPT ![c] = y], y.svc = r,
             y.state \in {"CONNECTING", "CONNECTED", "DISCONNECTING"}
      PROVE  Linking(r, y)
  BY <1>0, <1>1, <1>9 DEF Linking
<1>10. ASSUME ~loaded, NEW v \in AbilityRec, v.key = k, v.state = "INITIAL", v.startId = 0,
              v.todo = NoMsgs, ability' = [ability EXCEPT ![r] = v],
              serviceMap' = [serviceMap EXCEPT ![k] = r], conn' = [conn EXCEPT ![c] = new],
              "reportFails" \notin Faults => v.timers = {"load"}
       PROVE  SInv' /\ LInv' /\ WInv'
  <2>1. Makes({}, r, ability)
    <3>1. NoMsgs["connect"] = 0 /\ NoMsgs["command"] = 0
      BY DEF NoMsgs, Msgs
    <3>2. ~Expected(v)
      BY <1>10, <3>1 DEF Expected
    <3> QED
      BY <1>1, <1>2, <1>5, <1>10, <3>2 DEF Makes
  <2>2. Linking(r, new)
    BY <1>8, <1>9, <1>10
  <2>3. serviceMap'[k] = r
    BY <1>2, <1>10 DEF ServicesTyped
  <2>4. ability'[r] = v
    BY <1>1, <1>2, <1>10 DEF ServicesTyped
  <2>5. "reportFails" \notin Faults => Watch(r)'
    BY <1>10, <2>4 DEF Watch
  <2> QED
    BY <1>2, <1>8, <2>1, <2>2, <2>3, <2>5, LinkingKeeps
<1>11. ASSUME loaded, NEW b \in AbilityRec, Moves(ability[r], b, TRUE),
              b.state = ability[r].state, ability' = [ability EXCEPT ![r] = b], UNCHANGED serviceMap,
              NEW y, conn' = [conn EXCEPT ![c] = y], y.svc = r,
              y.state \in {"CONNECTING", "CONNECTED", "DISCONNECTING"},
              y.state # "CONNECTING" => b.state = "ACTIVE",
              "reportFails" \notin Faults /\ Watch(r) => Watch(r)'
       PROVE  SInv' /\ LInv' /\ WInv'
  <2>1. PICK ab : ab = [ability EXCEPT ![r] = b]
    OBVIOUS
  <2>2. InService(r) /\ ability[r].state # "none"
    BY <1>1, <1>7, <1>11, ServedUnderKey DEF ManagerInv
  <2>3. Moves(ability[r], b, InService(r))
    BY <1>11, <2>2 DEF Moves
  <2>4. Change({}, ab)
    BY <1>1, <1>11, <2>1, <2>2, <2>3, ChangeOne DEF ManagerInv
  <2>5. Makes({}, NoRec, ab)
    BY <1>2, <1>11, <2>1 DEF Makes
  <2>6. ability'[r] = b /\ ab[r] = b /\ \A p \in Recs : p # r => ab[p] = ability[p]
    BY <1>1, <1>2, <1>11, <2>1 DEF ServicesTyped
  <2>7. serviceMap'[k] = r
    BY <1>6, <1>11
  <2>8. Linking(r, y)
    BY <1>9, <1>11
  <2>9. "reportFails" \notin Faults /\ (NoRec # r => InService(r) /\ Watch(r)) => Watch(r)'
    BY <1>1, <1>3, <1>11
  <2> QED
    BY <1>3, <1>11, <2>4, <2>5, <2>6, <2>7, <2>8, <2>9, LinkingKeeps
<1>12. PICK a \in AbilityRec : a = ability[r] /\ ability = [ability EXCEPT ![r] = a] /\ Moves(a, a, TRUE)
  BY <1>1, <1>2, MovesSame DEF ServicesTyped
<1>13. CASE /\ ~ loaded
            /\ serviceMap' = [serviceMap EXCEPT ![k] = r]
            /\ ability' = [ability EXCEPT ![r] = Loading(k, TRUE)]
            /\ conn' = [conn EXCEPT ![c] = new]
  <2>1. PICK v : v = Loading(k, TRUE)
    OBVIOUS
  <2>2. /\ v \in AbilityRec /\ v.key = k /\ v.state = "INITIAL" /\ v.startId = 0
        /\ v.todo = NoMsgs /\ v.timers = {"load"}
    BY <2>1, LoadingFacts
  <2> QED
    BY <1>10, <1>13, <2>1, <2>2
<1>14. CASE /\ loaded /\ ability[r].state # "ACTIVE"
            /\ conn' = [conn EXCEPT ![c] = new]
            /\ UNCHANGED <<serviceMap, ability>>
  <2>1. Watch(r) => Watch(r)'
    <3>1. Linking(r, new)
      BY <1>8, <1>9, <1>14
    <3>2. (Armed(r) => Armed(r)') /\ (Tended(r) => Tended(r)')
      BY <1>1, <1>14, <3>1, LinkingFacts DEF ManagerInv
    <3> QED
      BY <1>14, <3>2 DEF Watch
  <2> QED
    BY <1>8, <1>11, <1>12, <1>14, <2>1
<1>15. CASE /\ "reportFails" \in Faults
            /\ serviceMap' = [serviceMap EXCEPT ![k] = r]
            /\ ability' = IF loaded THEN ability
                          ELSE [ability EXCEPT ![r] = [Loading(k, TRUE) EXCEPT !.proc = "none", !.timers = {}]]
            /\ conn' = [conn EXCEPT ![c] = new]
  <2>1. CASE loaded
    <3>1. UNCHANGED <<serviceMap, ability>>
      BY <1>2, <1>6, <1>15, <2>1 DEF ServicesTyped
    <3> QED
      BY <1>8, <1>11, <1>12, <1>15, <2>1, <3>1
  <2>2. CASE ~loaded
    <3>1. PICK l : l = Loading(k, TRUE)
      OBVIOUS
    <3>2. l \in AbilityRec /\ l.key = k /\ l.state = "INITIAL" /\ l.startId = 0 /\ l.todo = NoMsgs
      BY <3>1, LoadingFacts
    <3>3. PICK v : v = [l EXCEPT !.proc = "none", !.timers = {}]
      OBVIOUS
    <3>4. v \in AbilityRec /\ v.key = k /\ v.state = "INITIAL" /\ v.startId = 0 /\ v.todo = NoMsgs
      BY <3>2, <3>3 DEF AbilityRec
    <3>5. ability' = [ability EXCEPT ![r] = v]
      BY <1>15, <2>2, <3>1, <3>3
    <3> QED
      BY <1>10, <1>15, <2>2, <3>4, <3>5
  <2> QED
    BY <2>1, <2>2
<1>16. CASE /\ loaded /\ ability[r].state = "ACTIVE"
            /\ HandleActiveAbility(r, c, new)
            /\ UNCHANGED serviceMap
  <2> DEFINE connected  == InState(connList[r], "CONNECTED") # {}
             connecting == InState(connList[r], "CONNECTING") # {}
  <2>1. CASE /\ connected
             /\ \E fails \in MayRefuse(new.cb) :
                  conn' = [conn EXCEPT ![c] = Completed(new, ability[r].remote, fails)]
             /\ UNCHANGED ability
    <3>1. PICK fails, y : /\ y = Completed(new, ability[r].remote, fails)
                          /\ conn' = [conn EXCEPT ![c] = y]
      BY <2>1
    <3>2. y \in ConnRec /\ y.svc = r /\ y.state \in {"CONNECTED", "DISCONNECTING"}
      BY <1>8, <3>1, CompletedFacts
    <3>3. Linking(r, y)
      BY <1>9, <3>1, <3>2
    <3>4. Watch(r) => Watch(r)'
      <4>1. (Armed(r) => Armed(r)') /\ (Tended(r) => Tended(r)') /\ (SomeoneWaits(r)' => SomeoneWaits(r))
        BY <1>1, <2>1, <3>2, <3>3, LinkingFacts DEF ManagerInv
      <4> QED
        BY <1>16, <2>1, <4>1 DEF Watch
    <3> QED
      BY <1>11, <1>12, <1>16, <2>1, <3>1, <3>2, <3>4
  <2>2. CASE /\ ~ connected /\ ~ connecting
             /\ conn' = [conn EXCEPT ![c] = [new EXCEPT !.tasks = {"connect"}]]
             /\ ability' = [ability EXCEPT ![r] = ConnectSent(ability[r])]
    <3>1. PICK y, b : y = [new EXCEPT !.tasks = {"connect"}] /\ b = ConnectSent(a)
      OBVIOUS
    <3>2. y.svc = r /\ y.state = "CONNECTING" /\ y.tasks = {"connect"}
      BY <1>8, <3>1 DEF ConnRec
    <3>3. /\ b \in AbilityRec /\ b.key = a.key /\ b.state = a.state /\ b.byConnect = a.byConnect
          /\ b.startId = a.startId /\ b.proc = a.proc
      BY <3>1, ConnectSentFacts
    <3>4. conn' = [conn EXCEPT ![c] = y] /\ ability' = [ability EXCEPT ![r] = b]
      BY <1>12, <2>2, <3>1
    <3>5. Linking(r, y)
      BY <1>9, <3>2, <3>4
    <3>6. Moves(a, b, TRUE)
      <4>1. a.startId \in Nat
        BY DEF AbilityRec
      <4> QED
        BY <3>3, <4>1 DEF Moves
    <3>7. Armed(r)'
      <4>1. conn'[c] = y /\ c \in Conns
        BY <1>0, <1>1, <3>5, LinkingFacts DEF ManagerInv
      <4> QED
        BY <3>2, <4>1 DEF Armed
    <3>8. Watch(r)'
      <4>1. ability'[r].state = "ACTIVE"
        BY <1>1, <1>2, <1>12, <1>16, <3>3, <3>4 DEF ServicesTyped
      <4> QED
        BY <3>7, <4>1 DEF Watch
    <3> QED
      BY <1>11, <1>12, <1>16, <3>2, <3>3, <3>4, <3>6, <3>8
  <2>3. CASE /\ ~ connected /\ connecting
             /\ conn' = [conn EXCEPT ![c] = new]
             /\ UNCHANGED ability
    <3>1. Watch(r) => Watch(r)'
      <4>1. Linking(r, new)
        BY <1>8, <1>9, <2>3
      <4>2. (Armed(r) => Armed(r)') /\ (Tended(r) => Tended(r)')
        BY <1>1, <2>3, <4>1, LinkingFacts DEF ManagerInv
      <4>3. SomeoneWaits(r)
        BY <2>3 DEF SomeoneWaits, InState
      <4> QED
        BY <1>16, <2>3, <4>2, <4>3 DEF Watch
    <3> QED
      BY <1>8, <1>11, <1>12, <1>16, <2>3, <3>1
  <2> QED
    BY <1>16, <2>1, <2>2, <2>3 DEF HandleActiveAbility
<1> QED
  BY <1>4, <1>13, <1>14, <1>15, <1>16
-------------------------------------------------------------------------------
(* The invariant, from the first state on.                                 *)

\* Initially there are no services.
LEMMA InitManagerInv == Init => ManagerInv
<1> SUFFICES ASSUME Init PROVE ManagerInv
  OBVIOUS
<1>1. IInv
  BY InitIInv
<1>2. Unborn \in AbilityRec /\ Unborn.state = "none"
  <2>1. NoMsgs \in [Msgs -> Nat]
    BY DEF NoMsgs
  <2> HIDE DEF NoMsgs
  <2> QED
    BY <2>1 DEF Unborn, AbilityRec, States
<1>3. ServicesTyped
  BY <1>2 DEF Init, ServicesTyped
<1>4. \A r \in Recs : ability[r] = Unborn /\ cleaning[r] = NoCopy
  BY DEF Init
<1>5. \A r \in Recs : ~InService(r)
  BY DEF Init, InService, NoRec, Recs
<1>6. RecsNumbered
  <2>1. 0 \in 0..MaxRecords
    BY BoundAssumption
  <2>2. \A r \in Recs : ability[r].state # "none" <=> r <= 0
    BY <1>2, <1>4 DEF Recs
  <2> QED
    BY <2>1, <2>2 DEF RecsNumbered
<1>7. \A c \in Conns : conn[c].state = "INIT"
  BY DEF Init, Unused
<1>8. Born
  BY <1>2, <1>4, <1>7 DEF Born
<1>9. AnswersOK
  <2>1. NoMsgs["connect"] = 0 /\ NoMsgs["command"] = 0
    BY DEF NoMsgs, Msgs
  <2>2. ~Expected(Unborn)
    <3>1. Unborn.todo = NoMsgs
      BY DEF Unborn
    <3> QED
      BY <2>1, <3>1 DEF Expected
  <2> QED
    BY <1>2, <1>4, <1>5, <2>2 DEF AnswersOK
<1>10. \A k \in Keys : serviceMap[k] = NoRec
  BY DEF Init
<1>11. PlacedOnce
  BY <1>10 DEF Init, PlacedOnce
<1>12. SInv
  BY <1>3, <1>6, <1>8, <1>9, <1>11 DEF SInv
<1>13. LInv
  <2>1. ConnectedIsActive /\ NoDangling
    BY <1>7 DEF ConnectedIsActive, NoDangling, Live
  <2>2. NoOrphanService /\ Linked
    BY <1>5 DEF NoOrphanService, Linked
  <2>3. RequestsServed
    BY <1>10 DEF RequestsServed
  <2> QED
    BY <2>1, <2>2, <2>3 DEF LInv
<1>14. WInv
  BY <1>5 DEF WInv
<1> QED
  BY <1>1, <1>12, <1>13, <1>14 DEF ManagerInv

\* When nothing happens, nothing changes.
LEMMA StutterManagerInv == ManagerInv /\ UNCHANGED vars => ManagerInv'
<1> SUFFICES ASSUME ManagerInv, UNCHANGED vars PROVE ManagerInv'
  OBVIOUS
<1>1. UNCHANGED <<serviceMap, terminating, ability, conn, connList, connectMap, recipients,
                  pidCount, client, reqs, restartTasks, cleaning, raced>>
  BY DEF vars, books
<1>2. IInv'
  BY NextIInv DEF ManagerInv
<1>3. SInv'
  BY <1>1 DEF ManagerInv, SInv, ServicesTyped, RecsNumbered, Born, AnswersOK, PlacedOnce, InService
<1>4. LInv'
  BY <1>1 DEF ManagerInv, LInv, ConnectedIsActive, NoDangling, NoOrphanService, Linked,
     RequestsServed, InService, Live
<1>5. WInv'
  BY <1>1 DEF ManagerInv, WInv, Watch, Tended, Armed, SomeoneWaits, InService
<1> QED
  BY <1>2, <1>3, <1>4, <1>5 DEF ManagerInv

\* The inductive step.
LEMMA NextManagerInv == ManagerInv /\ [Next]_vars => ManagerInv'
<1> SUFFICES ASSUME ManagerInv, [Next]_vars PROVE ManagerInv'
  OBVIOUS
<1>1. IInv'
  BY NextIInv DEF ManagerInv
<1> DEFINE Kept == SInv' /\ LInv' /\ WInv'
<1>2. CASE UNCHANGED vars
  BY <1>2, StutterManagerInv
<1>3. CASE Client
  <2>1. ASSUME NEW k \in Keys, StartAbility(k) PROVE Kept
    <3>1. restartTasks' \subseteq Keys
      BY <2>1 DEF StartAbility, ManagerInv, SInv, ServicesTyped
    <3> QED
      BY <1>1, <2>1, <3>1, StartKeeps DEF StartAbility
  <2>2. ASSUME NEW k \in Keys, StopServiceAbility(k) PROVE Kept
    BY <1>1, <2>2, TerminateKeeps DEF StopServiceAbility
  <2>3. ASSUME NEW k \in Keys, NEW cb \in Callbacks, ConnectAbilityLocked(k, cb) PROVE Kept
    BY <1>1, <2>3, ConnectKeeps
  <2>4. ASSUME NEW cb \in Callbacks, DisconnectAbilityLocked(cb) PROVE Kept
    BY <1>1, <2>4, DisconnectKeeps
  <2>5. ASSUME NEW cb \in Callbacks, CallbackDies(cb) PROVE Kept
    BY <1>1, <2>5, ClientDiesKeeps
  <2> HIDE DEF Kept
  <2>6. Kept
    BY <1>3, <2>1, <2>2, <2>3, <2>4, <2>5 DEF Client
  <2> QED
    BY <1>1, <2>6 DEF Kept, ManagerInv
<1>4. CASE Service
  <2>1. PICK r \in Recs :
          \/ AttachAbilityThread(r) \/ OnLoadAbilityFailed(r) \/ DispatchInactive(r)
          \/ \E remote \in BOOLEAN : ScheduleConnectAbilityDone(r, remote)
          \/ ScheduleCommandAbilityDone(r) \/ ScheduleDisconnectAbilityDone(r)
          \/ TerminateAbility(r) \/ DispatchTerminate(r)
          \/ ServiceDies(r) \/ HandleProcessFrozen(r)
    BY <1>4 DEF Service
  <2>2. ASSUME AttachAbilityThread(r) \/ OnLoadAbilityFailed(r) \/ DispatchInactive(r) PROVE Kept
    BY <1>1, <2>2, AttachKeeps, LoadFailedKeeps, InactiveKeeps
  <2>3. ASSUME \E remote \in BOOLEAN : ScheduleConnectAbilityDone(r, remote) PROVE Kept
    BY <1>1, <2>3, ConnectDoneKeeps
  <2>4. ASSUME ScheduleCommandAbilityDone(r) \/ ScheduleDisconnectAbilityDone(r) PROVE Kept
    BY <1>1, <2>4, CommandDoneKeeps, DisconnectAnswerKeeps
  <2>5. ASSUME TerminateAbility(r) \/ DispatchTerminate(r) PROVE Kept
    BY <1>1, <2>5, TerminateKeeps, DispatchTerminateKeeps DEF TerminateAbility
  <2>6. ASSUME ServiceDies(r) \/ HandleProcessFrozen(r) PROVE Kept
    BY <1>1, <2>6, ServiceDiesKeeps, FreezeKeeps
  <2> HIDE DEF Kept
  <2>7. Kept
    BY <2>1, <2>2, <2>3, <2>4, <2>5, <2>6
  <2> QED
    BY <1>1, <2>7 DEF Kept, ManagerInv
<1>5. CASE Timer
  <2>1. ASSUME NEW k \in Keys, StartServiceTimeout(k) PROVE Kept
    BY <1>1, <2>1, RequestsTimeOutKeeps
  <2>2. ASSUME NEW r \in Recs, LoadTimeout(r) \/ InactiveTimeout(r) \/ HandleStopTimeoutTask(r) PROVE Kept
    BY <1>1, <2>2, LoadTimeoutKeeps, InactiveTimeoutKeeps, StopTimeoutKeeps
  <2>3. ASSUME NEW r \in Recs, NEW i, HandleCommandTimeoutTask(r, i) PROVE Kept
    BY <1>1, <2>3, CommandTimeoutKeeps
  <2>4. ASSUME NEW c \in Conns, ConnectTimeout(c) PROVE Kept
    BY <1>1, <2>4, ConnectTimeoutKeeps
  <2>5. ASSUME NEW c \in Conns, DisconnectTimeout(c) PROVE Kept
    BY <1>1, <2>5, DisconnectTaskKeeps DEF DisconnectTimeout
  <2> HIDE DEF Kept
  <2>6. Kept
    BY <1>5, <2>1, <2>2, <2>3, <2>4, <2>5 DEF Timer
  <2> QED
    BY <1>1, <2>6 DEF Kept, ManagerInv
<1>6. CASE Task
  <2>1. ASSUME NEW k \in Keys, HandleRestartResidentTask(k) PROVE Kept
    <3>1. restartTasks' \subseteq Keys
      BY <2>1 DEF HandleRestartResidentTask, ManagerInv, SInv, ServicesTyped
    <3> QED
      BY <1>1, <2>1, <3>1, StartKeeps DEF HandleRestartResidentTask
  <2>2. ASSUME NEW cb \in Callbacks, HandleCallBackDiedTask(cb) PROVE Kept
    BY <1>1, <2>2, CallbackDiedKeeps
  <2>3. ASSUME NEW r \in Recs, HandleStartTimeoutTask(r) \/ CleanActivatingTimeoutAbilityInner(r) PROVE Kept
    BY <1>1, <2>3, HandleStartTimeoutKeeps, CleanKeeps
  <2>4. ASSUME NEW r \in Recs, OnAbilityDied(r) \/ HandleAbilityDiedTask(r) \/ FrozenTask(r) PROVE Kept
    BY <1>1, <2>4, DiedKeeps, AbilityDiedKeeps, FrozenKeeps
  <2>5. ASSUME NEW c \in Conns, HandleConnectTimeoutTask(c) PROVE Kept
    BY <1>1, <2>5, ConnectTimeoutTaskKeeps
  <2>6. ASSUME NEW c \in Conns, NullRemoteTask(c) PROVE Kept
    BY <1>1, <2>6, DisconnectTaskKeeps DEF NullRemoteTask
  <2>7. ASSUME NEW c \in Conns, HandleExtensionDisconnectTask(c) PROVE Kept
    BY <1>1, <2>7, RefusedKeeps
  <2> HIDE DEF Kept
  <2>8. Kept
    BY <1>6, <2>1, <2>2, <2>3, <2>4, <2>5, <2>6, <2>7 DEF Task
  <2> QED
    BY <1>1, <2>8 DEF Kept, ManagerInv
<1> QED
  BY <1>2, <1>3, <1>4, <1>5, <1>6 DEF Next

\* Services, connections and what watches them are in order in every state.
LEMMA AlwaysManagerInv == Spec => []ManagerInv
  BY InitManagerInv, NextManagerInv, PTL DEF Spec
-------------------------------------------------------------------------------
(* Theorems.                                                               *)

\* Whatever happens, in whatever order - connects, disconnects, timeouts, late
\* answers, deaths on either side, tasks that acted on what they saw before they
\* held the lock - connRecordList_, connectMap_ and recipientMap_ of
\* AbilityConnectManager know the same connections, and no callback is connected
\* twice to a service.
THEOREM BooksAgree == Spec => [](ListsAgree /\ RecipientsAgree /\ OneConnPerTarget)
<1>1. IInv => ListsAgree /\ RecipientsAgree /\ OneConnPerTarget
  BY DEF IInv
<1> QED
  BY <1>1, AlwaysIInv, PTL

\* A ConnectionRecord never returns to an earlier state: no answer or timeout
\* revives a connection.
THEOREM ConnectionsOnlyAdvance == Spec => ConnOnlyForward
<1>1. IInv /\ [Next]_vars => [\A c \in Conns : Rank(conn[c].state) <= Rank(conn'[c].state)]_vars
  BY NextBooks, OnlyForward
<1> QED
  BY <1>1, AlwaysIInv, PTL DEF Spec, ConnOnlyForward

\* AddConnectDeathRecipient and RemoveConnectDeathRecipient keep step with
\* connectMap_: a client is watched exactly while it has a connection.
THEOREM ClientsWatched == Spec => []RecipientsAgree
BY BooksAgree, PTL

\* callerPidConnectionCountMap_, from which a process with too many connections is
\* reported, counts the connections of each process, whichever way they end.
THEOREM ConnectionsCounted == Spec => []CountsAgree
<1>1. IInv => CountsAgree
  BY DEF IInv
<1> QED
  BY <1>1, AlwaysIInv, PTL

\* No callback is registered twice with a service, whatever a request meets:
\* a connect or a disconnect that is still under way, a timeout or a death.
THEOREM ConnectedOnce == Spec => []OneConnPerTarget
BY BooksAgree, PTL

\* Every variable of AbilityConnectManager has its type; no count of
\* callerPidConnectionCountMap_ becomes negative.
THEOREM ConnectTyped == Spec => []TypeOK
<1>1. ManagerInv => TypeOK
  <2> SUFFICES ASSUME ManagerInv PROVE TypeOK
    OBVIOUS
  <2>1. pidCount \in [Pids -> Nat]
    <3>1. \A p \in Pids : pidCount[p] \in Nat
      <4> TAKE p \in Pids
      <4> DEFINE M == {c \in Live : CallerPid[conn[c].cb] = p}
      <4>1. M \subseteq Conns
        BY DEF Live
      <4>2. Cardinality(M) \in Nat
        BY <4>1, ConnsFinite, FS_Subset, FS_CardinalityType
      <4> QED
        BY <4>2 DEF ManagerInv, IInv, CountsAgree
    <3> QED
      BY <3>1 DEF ManagerInv, IInv, BooksOK
  <2>2. cleaning \in [Recs -> (SUBSET Conns) \cup {NoCopy}]
    <3>1. \A r \in Recs : cleaning[r] \in (SUBSET Conns) \cup {NoCopy}
      <4> TAKE r \in Recs
      <4>1. cleaning[r] = NoCopy \/ cleaning[r] \subseteq Conns
        BY DEF ManagerInv, IInv, CleaningOK
      <4> QED
        BY <4>1
    <3> QED
      BY <3>1 DEF ManagerInv, IInv, CleaningOK
  <2>3. /\ serviceMap \in [Keys -> Recs \cup {NoRec}]
        /\ terminating \subseteq Recs /\ raced \subseteq Recs
        /\ client \in [Callbacks -> {"alive", "dying", "dead"}]
        /\ reqs \in [Keys -> Nat] /\ restartTasks \subseteq Keys
    BY DEF ManagerInv, SInv, ServicesTyped
  <2>4. ability \in [Recs -> [key : Keys \cup {None}, state : States, byConnect : BOOLEAN,
                             startId : Nat, proc : {"none", "loading", "up", "dead"},
                             isConnected : BOOLEAN, told : BOOLEAN, remote : BOOLEAN,
                             todo : [Msgs -> Nat],
                             timers : SUBSET {"load", "inactive", "terminate"},
                             tasks : SUBSET {"startTimeout", "schedulerDied", "abilityDied", "frozen"},
                             cmdTimers : SUBSET Nat]]
    BY DEF ManagerInv, SInv, ServicesTyped, AbilityRec, Timers, Tasks
  <2>5. /\ conn \in [Conns -> [cb : Callbacks \cup {None}, svc : Recs \cup {NoRec}, state : ConnStates,
                           tasks : SUBSET {"connect", "running", "disconnect", "null", "fail"}]]
        /\ connList \in [Recs -> SUBSET Conns] /\ connectMap \in [Callbacks -> SUBSET Conns]
        /\ recipients \subseteq Callbacks
    BY DEF ManagerInv, IInv, ConnOK, BooksOK, ConnRec, ConnTasks
  <2> QED
    BY <2>1, <2>2, <2>3, <2>4, <2>5 DEF TypeOK
<1> QED
  BY <1>1, AlwaysManagerInv, PTL

\* serviceMap_ and terminatingExtensionList_: a record is in service under its own
\* key only, or being terminated, or gone, whichever task takes it down and however
\* often it is restarted.
THEOREM PlacedWell == Spec => []PlacedOnce
<1>1. ManagerInv => PlacedOnce
  BY DEF ManagerInv, SInv
<1> QED
  BY <1>1, AlwaysManagerInv, PTL

\* Whatever ends the last connection of a service that was only connected (a
\* disconnect, its timeout, a death, a failed start), the service goes with it.
THEOREM NoOrphans == Spec => []NoOrphanService
<1>1. ManagerInv => NoOrphanService
  BY DEF ManagerInv, LInv
<1> QED
  BY <1>1, AlwaysManagerInv, PTL

\* A client counts as connected only to a service that is ACTIVE.
THEOREM ConnectedToActive == Spec => []ConnectedIsActive
<1>1. ManagerInv => ConnectedIsActive
  BY DEF ManagerInv, LInv
<1> QED
  BY <1>1, AlwaysManagerInv, PTL

\* A client stays registered with a record that left service only if a task that
\* had decided before it held serialMutex_ took the record down.
THEOREM NoneDangles == Spec => []NoDangling
<1>1. ManagerInv => NoDangling
  BY DEF ManagerInv, LInv
<1> QED
  BY <1>1, AlwaysManagerInv, PTL

\* startServiceReqList_ holds requests only for a service that is still starting.
THEOREM QueueServed == Spec => []RequestsServed
<1>1. ManagerInv => RequestsServed
  BY DEF ManagerInv, LInv
<1> QED
  BY <1>1, AlwaysManagerInv, PTL

\* Where every connect is reported, a client that waits for a service in service is
\* never without a timer or a task that ends its wait.
THEOREM WaitersWatched ==
    ASSUME "reportFails" \notin Faults PROVE Spec => []WaiterIsWatched
<1>1. ManagerInv => WaiterIsWatched
  <2> SUFFICES ASSUME ManagerInv, NEW c \in Conns, conn[c].state = "CONNECTING", InService(conn[c].svc)
               PROVE  \/ ability[conn[c].svc].timers \cap {"load", "inactive"} # {}
                      \/ Tended(conn[c].svc)
                      \/ ability[conn[c].svc].state = "INACTIVE" /\ ability[conn[c].svc].cmdTimers # {}
                      \/ Armed(conn[c].svc)
    BY DEF WaiterIsWatched, InState, Tended, Armed
  <2>1. PICK r \in Recs : r = conn[c].svc
    BY DEF ManagerInv, IInv, ConnOK
  <2>2. SomeoneWaits(r)
    BY <2>1 DEF ManagerInv, IInv, ListsAgree, Live, SomeoneWaits
  <2>3. Watch(r)
    BY <2>1 DEF ManagerInv, WInv
  <2>4. ability[r].state \in {"INITIAL", "INACTIVATING", "INACTIVE", "ACTIVE"}
    BY <2>1, RecTyped, ServedUnderKey DEF ManagerInv, AbilityRec, States
  <2> QED
    BY <2>1, <2>2, <2>3, <2>4 DEF Watch
<1> QED
  BY <1>1, AlwaysManagerInv, PTL
=============================================================================
