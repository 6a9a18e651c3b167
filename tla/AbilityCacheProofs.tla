-------------------------- MODULE AbilityCacheProofs --------------------------
(***************************************************************************)
(* The cache keeps its two lists, its counters and its limits in step, and *)
(* implements AbilityLru, for any records, applications and positive       *)
(* limits.                                                                 *)
(***************************************************************************)
EXTENDS AbilityCache, TLAPS, FiniteSetTheorems

\* What list::erase of one record does to a list that holds it at most once.
LEMMA EraseFacts ==
    ASSUME NEW S, NEW s \in Seq(S), NEW r, NoDuplicates(s)
    PROVE  /\ Erase(s, r) \in Seq(S)
           /\ NoDuplicates(Erase(s, r))
           /\ Range(Erase(s, r)) = Range(s) \ {r}
           /\ Len(Erase(s, r)) = IF r \in Range(s) THEN Len(s) - 1 ELSE Len(s)
<1>1. CASE r \notin Range(s)
  BY <1>1 DEF Erase
<1>2. CASE r \in Range(s)
  <2> DEFINE First(i) == s[i] = r /\ \A j \in 1..(i - 1) : s[j] # r
             k == CHOOSE i \in DOMAIN s : First(i)
  <2>1. \E i \in DOMAIN s : First(i)
    BY <1>2 DEF Range, NoDuplicates
  <2>2. k \in DOMAIN s /\ s[k] = r
    BY <2>1
  <2>3. Erase(s, r) = RemoveAt(s, k)
    BY <1>2 DEF Erase
  <2> HIDE DEF k
  <2> DEFINE e == RemoveAt(s, k)
  <2>4. e \in Seq(S) /\ Len(e) = Len(s) - 1 /\ DOMAIN e = 1..(Len(s) - 1)
    <3>1. Len(s) - 1 \in Nat /\ k \in 1..Len(s) /\ DOMAIN s = 1..Len(s)
      BY <2>2
    <3>2. e \in [1..(Len(s) - 1) -> S]
      BY <3>1 DEF RemoveAt
    <3>3. \A n \in Nat : \A f \in [1..n -> S] : f \in Seq(S) /\ Len(f) = n
      OBVIOUS
    <3>4. QED
      BY <3>1, <3>2, <3>3
  <2>5. \A j \in DOMAIN e : e[j] = IF j < k THEN s[j] ELSE s[j + 1]
    BY <2>4 DEF RemoveAt
  <2> HIDE DEF e
  <2>6. NoDuplicates(e)
    BY <2>2, <2>4, <2>5 DEF NoDuplicates
  <2>7. Range(e) = Range(s) \ {r}
    <3>1. ASSUME NEW j \in DOMAIN e PROVE e[j] \in Range(s) \ {r}
      BY <2>2, <2>4, <2>5 DEF NoDuplicates, Range
    <3>2. ASSUME NEW x \in Range(s), x # r PROVE x \in Range(e)
      <4>1. PICK i \in DOMAIN s : s[i] = x
        BY <3>2 DEF Range
      <4>2. CASE i < k
        BY <4>1, <4>2, <2>2, <2>4, <2>5 DEF Range
      <4>3. CASE i > k
        <5>1. i - 1 \in DOMAIN e /\ ~ (i - 1 < k) /\ (i - 1) + 1 = i
          BY <4>3, <2>2, <2>4
        <5>2. QED
          BY <5>1, <4>1, <2>5 DEF Range
      <4>4. QED
        BY <4>1, <4>2, <4>3, <2>2, <3>2
    <3>3. QED
      BY <3>1, <3>2 DEF Range
  <2>8. QED
    BY <2>3, <2>4, <2>6, <2>7, <1>2 DEF e
<1>3. QED
  BY <1>1, <1>2

\* push_back of a record that is not in the list.
LEMMA AppendFacts ==
    ASSUME NEW S, NEW s \in Seq(S), NEW r \in S, NoDuplicates(s), r \notin Range(s)
    PROVE  /\ Append(s, r) \in Seq(S)
           /\ NoDuplicates(Append(s, r))
           /\ Range(Append(s, r)) = Range(s) \cup {r}
           /\ Len(Append(s, r)) = Len(s) + 1
<1> DEFINE a == Append(s, r)
<1>1. /\ a \in Seq(S)
      /\ Len(a) = Len(s) + 1
      /\ DOMAIN a = 1..(Len(s) + 1)
      /\ \A i \in 1..Len(s) : a[i] = s[i]
      /\ a[Len(s) + 1] = r
  OBVIOUS
<1>2. DOMAIN s = 1..Len(s) /\ Len(s) \in Nat
  OBVIOUS
<1> HIDE DEF a
<1>3. NoDuplicates(a)
  BY <1>1, <1>2 DEF NoDuplicates, Range
<1>4. Range(a) = Range(s) \cup {r}
  <2>1. ASSUME NEW i \in DOMAIN a PROVE a[i] \in Range(s) \cup {r}
    BY <1>1, <1>2 DEF Range
  <2>2. ASSUME NEW i \in DOMAIN s PROVE s[i] \in Range(a)
    BY <1>1, <1>2 DEF Range
  <2>3. r \in Range(a)
    BY <1>1, <1>2 DEF Range
  <2>4. QED
    BY <2>1, <2>2, <2>3 DEF Range
<1>5. QED
  BY <1>1, <1>3, <1>4 DEF a

\* pop_front takes out the front record and no other.
LEMMA TailFacts ==
    ASSUME NEW S, NEW s \in Seq(S), NoDuplicates(s), s # <<>>
    PROVE  /\ Tail(s) \in Seq(S)
           /\ NoDuplicates(Tail(s))
           /\ Range(Tail(s)) = Range(s) \ {Head(s)}
           /\ Len(Tail(s)) = Len(s) - 1
           /\ Head(s) \in Range(s)
           /\ Head(s) \in S
<1> DEFINE t == Tail(s)
<1>1. /\ t \in Seq(S)
      /\ Len(t) = Len(s) - 1
      /\ DOMAIN t = 1..(Len(s) - 1)
      /\ \A i \in 1..(Len(s) - 1) : t[i] = s[i + 1]
      /\ Head(s) = s[1]
  OBVIOUS
<1>2. DOMAIN s = 1..Len(s) /\ Len(s) \in Nat \ {0}
  OBVIOUS
<1> HIDE DEF t
<1>3. NoDuplicates(t)
  BY <1>1, <1>2 DEF NoDuplicates
<1>4. Head(s) \in Range(s) /\ Head(s) \in S
  BY <1>1, <1>2 DEF Range
<1>5. Range(t) = Range(s) \ {Head(s)}
  <2>1. ASSUME NEW i \in DOMAIN t PROVE t[i] \in Range(s) \ {Head(s)}
    BY <1>1, <1>2 DEF NoDuplicates, Range
  <2>2. ASSUME NEW x \in Range(s), x # Head(s) PROVE x \in Range(t)
    <3>1. PICK i \in DOMAIN s : s[i] = x
      BY DEF Range
    <3>2. i - 1 \in DOMAIN t /\ (i - 1) + 1 = i
      BY <3>1, <2>2, <1>1, <1>2
    <3>3. QED
      BY <3>1, <3>2, <1>1 DEF Range
  <2>3. QED
    BY <2>1, <2>2 DEF Range
<1>6. QED
  BY <1>1, <1>3, <1>4, <1>5 DEF t
-------------------------------------------------------------------------------
(***************************************************************************)
(* The inductive invariant.  The lists agree only if each limit eliminates *)
(* from both of them, which the code does by searching one list for the    *)
(* front of the other; and a limit tested with == holds only if the        *)
(* counter is the length of the list.  So none of the four is inductive    *)
(* without the others.                                                     *)
(***************************************************************************)
IInv == TypeOK /\ ListsAgree /\ CountsExact /\ WithinCapacity

\* The cache starts empty, within any positive limits.
LEMMA InitIInv == Init => IInv
BY RecAssumption, CapacityAssumption
   DEF Init, IInv, TypeOK, ListsAgree, CountsExact, WithinCapacity, NoDuplicates, Range

\* AddToProcLru for an application below its limit.
LEMMA AddedToProcFacts ==
    ASSUME IInv, NEW r \in Recs, r \notin Range(devRecLru), ~ Full(TokenOf[r])
    PROVE  LET add == AddedToProc(r)
           IN  /\ add.keys \subseteq Tokens
               /\ add.list \in [Tokens -> Seq(Recs)]
               /\ add.cnt \in [Tokens -> Nat]
               /\ \A t \in Tokens :
                     /\ NoDuplicates(add.list[t])
                     /\ add.cnt[t] = Len(add.list[t])
                     /\ Len(add.list[t]) <= ProcCapacity
                     /\ Range(add.list[t]) = {x \in Range(devRecLru) \cup {r} : TokenOf[x] = t}
                     /\ t \notin add.keys => add.list[t] = <<>>
<1> DEFINE add == AddedToProc(r)
           t == TokenOf[r]
<1>1. t \in Tokens /\ recList[t] \in Seq(Recs) /\ NoDuplicates(recList[t])
      /\ r \notin Range(recList[t])
  BY RecAssumption DEF IInv, TypeOK, ListsAgree
<1>2. add.list[t] = Append(recList[t], r) /\ add.cnt[t] = cnt[t] + 1
  <2>1. t \notin procKeys => recList[t] = <<>> /\ cnt[t] = 0 /\ <<r>> = Append(recList[t], r)
    BY <1>1 DEF IInv, CountsExact, TypeOK
  <2>2. add.list = [recList EXCEPT ![t] = IF t \in procKeys THEN Append(recList[t], r) ELSE <<r>>]
    BY DEF AddedToProc
  <2>3. add.cnt = [cnt EXCEPT ![t] = IF t \in procKeys THEN cnt[t] + 1 ELSE 1]
    BY DEF AddedToProc
  <2> HIDE DEF add, t
  <2>4. recList \in [Tokens -> Seq(Recs)] /\ cnt \in [Tokens -> Nat]
    BY DEF IInv, TypeOK
  <2>5. /\ add.list[t] = IF t \in procKeys THEN Append(recList[t], r) ELSE <<r>>
        /\ add.cnt[t] = IF t \in procKeys THEN cnt[t] + 1 ELSE 1
    BY <1>1, <2>2, <2>3, <2>4
  <2>6. CASE t \in procKeys
    BY <2>5, <2>6
  <2>7. CASE t \notin procKeys
    BY <2>1, <2>5, <2>7
  <2>8. QED
    BY <2>6, <2>7
<1>3. \A u \in Tokens \ {t} : add.list[u] = recList[u] /\ add.cnt[u] = cnt[u]
  BY <1>1 DEF AddedToProc, IInv, TypeOK
<1>4. add.keys = procKeys \cup {t}
  BY DEF AddedToProc
<1>5. /\ Append(recList[t], r) \in Seq(Recs)
      /\ NoDuplicates(Append(recList[t], r))
      /\ Range(Append(recList[t], r)) = Range(recList[t]) \cup {r}
      /\ Len(Append(recList[t], r)) = Len(recList[t]) + 1
  BY <1>1, AppendFacts
<1>6. add.list \in [Tokens -> Seq(Recs)] /\ add.cnt \in [Tokens -> Nat]
  <2>1. add.list = [recList EXCEPT ![t] = add.list[t]] /\ add.cnt = [cnt EXCEPT ![t] = add.cnt[t]]
    BY <1>1 DEF AddedToProc, IInv, TypeOK
  <2> HIDE DEF add, t
  <2>2. add.list[t] \in Seq(Recs) /\ add.cnt[t] \in Nat
    BY <1>1, <1>2, <1>5 DEF IInv, TypeOK
  <2>3. recList \in [Tokens -> Seq(Recs)] /\ cnt \in [Tokens -> Nat]
    BY DEF IInv, TypeOK
  <2>4. QED
    BY <1>1, <2>1, <2>2, <2>3
<1>7. Len(recList[t]) < ProcCapacity
  BY <1>1, CapacityAssumption DEF Full, IInv, CountsExact, WithinCapacity, TypeOK
<1> HIDE DEF add, t
<1>8. ASSUME NEW u \in Tokens
      PROVE  /\ NoDuplicates(add.list[u])
             /\ add.cnt[u] = Len(add.list[u])
             /\ Len(add.list[u]) <= ProcCapacity
             /\ Range(add.list[u]) = {x \in Range(devRecLru) \cup {r} : TokenOf[x] = u}
             /\ u \notin add.keys => add.list[u] = <<>>
  <2>1. CASE u = t
    <3>1. Range(add.list[u]) = {x \in Range(devRecLru) \cup {r} : TokenOf[x] = u}
      BY <1>1, <1>2, <1>5, <2>1 DEF t, IInv, ListsAgree
    <3>2. add.cnt[u] = Len(add.list[u]) /\ u \in add.keys
      BY <1>1, <1>2, <1>4, <1>5, <2>1 DEF IInv, CountsExact
    <3>3. Len(add.list[u]) <= ProcCapacity
      BY <1>1, <1>2, <1>5, <1>7, <2>1, CapacityAssumption
    <3>4. QED
      BY <1>2, <1>5, <2>1, <3>1, <3>2, <3>3
  <2>2. CASE u # t
    <3>1. Range(add.list[u]) = {x \in Range(devRecLru) \cup {r} : TokenOf[x] = u}
      BY <1>3, <2>2 DEF t, IInv, ListsAgree
    <3>2. QED
      BY <1>3, <1>4, <2>2, <3>1 DEF IInv, CountsExact, TypeOK, ListsAgree, WithinCapacity
  <2>3. QED
    BY <2>1, <2>2
<1>9. QED
  BY <1>1, <1>4, <1>6, <1>8 DEF add, IInv, TypeOK

\* A record that leaves both lists, with both counts: what Remove, Get and each
\* elimination have in common.
LEMMA LeaveBoth ==
    ASSUME IInv, NEW r \in Recs, r \in Range(devRecLru),
           devRecLru' = Erase(devRecLru, r), devLruCnt' = devLruCnt - 1,
           recList' = [recList EXCEPT ![TokenOf[r]] = Erase(recList[TokenOf[r]], r)],
           cnt' = [cnt EXCEPT ![TokenOf[r]] = cnt[TokenOf[r]] - 1],
           procKeys' \subseteq procKeys,
           \A t \in procKeys \ procKeys' : t = TokenOf[r] /\ cnt[t] = 1,
           returned' \in Recs \cup {NoRec}
    PROVE  IInv'
<1> USE RecAssumption
<1> DEFINE u == TokenOf[r]
           e == Erase(recList[u], r)
<1>1. u \in Tokens /\ recList[u] \in Seq(Recs) /\ NoDuplicates(recList[u])
      /\ r \in Range(recList[u])
  BY DEF IInv, TypeOK, ListsAgree
<1>2. /\ e \in Seq(Recs)
      /\ NoDuplicates(e)
      /\ Range(e) = Range(recList[u]) \ {r}
      /\ Len(e) = Len(recList[u]) - 1
  BY <1>1, EraseFacts
<1>3. /\ devRecLru' \in Seq(Recs)
      /\ NoDuplicates(devRecLru')
      /\ Range(devRecLru') = Range(devRecLru) \ {r}
      /\ Len(devRecLru') = Len(devRecLru) - 1
  BY EraseFacts DEF IInv, TypeOK, ListsAgree
<1>4. cnt[u] - 1 = Len(e) /\ Len(e) \in Nat /\ devLruCnt' = Len(devRecLru') /\ devLruCnt' \in Nat
  BY <1>1, <1>2, <1>3 DEF IInv, CountsExact
<1> HIDE DEF e
<1>5. recList \in [Tokens -> Seq(Recs)] /\ cnt \in [Tokens -> Nat]
  BY DEF IInv, TypeOK
<1>6. /\ recList' \in [Tokens -> Seq(Recs)] /\ cnt' \in [Tokens -> Nat]
      /\ recList'[u] = e /\ cnt'[u] = Len(e)
      /\ \A t \in Tokens \ {u} : recList'[t] = recList[t] /\ cnt'[t] = cnt[t]
  BY <1>1, <1>2, <1>4, <1>5 DEF e
<1>7. TypeOK'
  BY <1>3, <1>4, <1>6 DEF IInv, TypeOK
<1>8. ListsAgree'
  <2>1. ASSUME NEW t \in Tokens
        PROVE  NoDuplicates(recList'[t]) /\ Range(recList'[t]) = {x \in Range(devRecLru') : TokenOf[x] = t}
    <3>1. CASE t = u
      BY <3>1, <1>2, <1>3, <1>6 DEF IInv, ListsAgree
    <3>2. CASE t # u
      BY <3>2, <1>3, <1>6 DEF IInv, ListsAgree
    <3>3. QED
      BY <3>1, <3>2
  <2>2. QED
    BY <2>1, <1>3 DEF ListsAgree
<1>9. CountsExact'
  <2>1. ASSUME NEW t \in Tokens
        PROVE  cnt'[t] = Len(recList'[t]) /\ (t \notin procKeys' => recList'[t] = <<>>)
    <3>1. CASE t = u
      <4>1. t \notin procKeys => recList[u] = <<>>
        BY <3>1, <1>1 DEF IInv, CountsExact
      <4>2. t \in procKeys
        BY <4>1, <1>1 DEF Range
      <4>3. t \notin procKeys' => Len(e) = 0
        BY <3>1, <4>2, <1>4
      <4>4. Len(e) = 0 => e = <<>>
        BY <1>2
      <4>5. QED
        BY <3>1, <4>3, <4>4, <1>6
    <3>2. CASE t # u
      BY <3>2, <1>6 DEF IInv, CountsExact
    <3>3. QED
      BY <3>1, <3>2
  <2>2. QED
    BY <2>1, <1>4 DEF CountsExact
<1>10. WithinCapacity'
  <2>1. Len(devRecLru') <= DevCapacity
    BY <1>3, <1>4, CapacityAssumption DEF IInv, WithinCapacity, TypeOK
  <2>2. ASSUME NEW t \in Tokens PROVE Len(recList'[t]) <= ProcCapacity
    BY <1>1, <1>2, <1>4, <1>6, CapacityAssumption DEF IInv, WithinCapacity
  <2>3. QED
    BY <2>1, <2>2 DEF WithinCapacity
<1>11. QED
  BY <1>7, <1>8, <1>9, <1>10 DEF IInv

\* Every operation preserves the invariant, one step per path of the code.
LEMMA NextIInv == IInv /\ [Next]_vars => IInv'
<1> SUFFICES ASSUME IInv, [Next]_vars PROVE IInv'
  OBVIOUS
<1> USE RecAssumption, CapacityAssumption
<1>1. ASSUME NEW r \in Recs, r \notin Range(devRecLru), PutFits(r) PROVE IInv'
  <2> DEFINE add == AddedToProc(r)
  <2>1. /\ recList' = add.list /\ cnt' = add.cnt /\ procKeys' = add.keys
        /\ devRecLru' = Append(devRecLru, r) /\ devLruCnt' = devLruCnt + 1 /\ returned' = NoRec
    BY <1>1 DEF PutFits
  <2>2. /\ Append(devRecLru, r) \in Seq(Recs)
        /\ NoDuplicates(Append(devRecLru, r))
        /\ Range(Append(devRecLru, r)) = Range(devRecLru) \cup {r}
        /\ Len(Append(devRecLru, r)) = Len(devRecLru) + 1
    BY <1>1, AppendFacts DEF IInv, TypeOK, ListsAgree
  <2>3. Len(devRecLru) < DevCapacity
    BY <1>1 DEF PutFits, DevFull, IInv, CountsExact, WithinCapacity, TypeOK
  <2>4. ~ Full(TokenOf[r])
    BY <1>1 DEF PutFits
  <2>5. /\ add.keys \subseteq Tokens
        /\ add.list \in [Tokens -> Seq(Recs)]
        /\ add.cnt \in [Tokens -> Nat]
        /\ \A t \in Tokens : /\ NoDuplicates(add.list[t])
                             /\ add.cnt[t] = Len(add.list[t])
                             /\ Len(add.list[t]) <= ProcCapacity
                             /\ Range(add.list[t]) = {x \in Range(devRecLru) \cup {r} : TokenOf[x] = t}
                             /\ t \notin add.keys => add.list[t] = <<>>
    BY <1>1, <2>4, AddedToProcFacts
  <2> HIDE DEF add
  <2>6. TypeOK'
    BY <2>1, <2>2, <2>5 DEF IInv, TypeOK
  <2>7. ListsAgree'
    BY <2>1, <2>2, <2>5 DEF ListsAgree
  <2>8. CountsExact'
    BY <2>1, <2>2, <2>5 DEF CountsExact, IInv
  <2>9. WithinCapacity'
    BY <2>1, <2>2, <2>3, <2>5 DEF WithinCapacity, IInv, TypeOK
  <2>10. QED
    BY <2>6, <2>7, <2>8, <2>9 DEF IInv
<1>2. ASSUME NEW r \in Recs, r \notin Range(devRecLru), PutDevFull(r) PROVE IInv'
  <2> DEFINE add == AddedToProc(r)
             out == Head(devRecLru)
             u == TokenOf[out]
  <2>1. devRecLru # <<>> /\ Len(devRecLru) = DevCapacity
    BY <1>2 DEF PutDevFull, DevFull, IInv, CountsExact, TypeOK
  <2>2. ~ Full(TokenOf[r])
    BY <1>2 DEF PutDevFull
  <2>3. /\ add.keys \subseteq Tokens
        /\ add.list \in [Tokens -> Seq(Recs)]
        /\ add.cnt \in [Tokens -> Nat]
        /\ \A t \in Tokens : /\ NoDuplicates(add.list[t])
                             /\ add.cnt[t] = Len(add.list[t])
                             /\ Len(add.list[t]) <= ProcCapacity
                             /\ Range(add.list[t]) = {x \in Range(devRecLru) \cup {r} : TokenOf[x] = t}
                             /\ t \notin add.keys => add.list[t] = <<>>
    BY <1>2, <2>2, AddedToProcFacts
  <2>4. /\ Tail(devRecLru) \in Seq(Recs)
        /\ NoDuplicates(Tail(devRecLru))
        /\ Range(Tail(devRecLru)) = Range(devRecLru) \ {out}
        /\ Len(Tail(devRecLru)) = Len(devRecLru) - 1
        /\ out \in Range(devRecLru) /\ out \in Recs
    BY <2>1, TailFacts DEF IInv, TypeOK, ListsAgree
  <2>5. out # r /\ u \in Tokens /\ out \in Range(add.list[u]) /\ u \in add.keys
    <3>1. out # r /\ u \in Tokens
      BY <1>2, <2>4
    <3>2. out \in Range(add.list[u])
      BY <3>1, <2>3, <2>4
    <3>3. add.list[u] # <<>>
      BY <3>2 DEF Range
    <3>4. QED
      BY <3>1, <3>2, <3>3, <2>3
  <2>6. /\ recList' = [add.list EXCEPT ![u] = Erase(add.list[u], out)]
        /\ cnt' = [add.cnt EXCEPT ![u] = add.cnt[u] - 1]
        /\ procKeys' = IF add.cnt[u] = 1 THEN add.keys \ {u} ELSE add.keys
        /\ devRecLru' = Append(Tail(devRecLru), r)
        /\ devLruCnt' = devLruCnt - 1 + 1
        /\ returned' = out
    BY <1>2, <2>5 DEF PutDevFull
  <2>7. /\ Append(Tail(devRecLru), r) \in Seq(Recs)
        /\ NoDuplicates(Append(Tail(devRecLru), r))
        /\ Range(Append(Tail(devRecLru), r)) = Range(Tail(devRecLru)) \cup {r}
        /\ Len(Append(Tail(devRecLru), r)) = Len(Tail(devRecLru)) + 1
    <3>1. r \notin Range(Tail(devRecLru))
      BY <1>2, <2>4
    <3>2. QED
      BY <3>1, <2>4, AppendFacts
  <2> HIDE DEF add, out
  <2> DEFINE e == Erase(add.list[u], out)
  <2>8. /\ e \in Seq(Recs)
        /\ NoDuplicates(e)
        /\ Range(e) = Range(add.list[u]) \ {out}
        /\ Len(e) = Len(add.list[u]) - 1
    BY <2>3, <2>5, EraseFacts
  <2>9. add.cnt[u] - 1 \in Nat /\ add.cnt[u] - 1 = Len(e)
    <3>1. Len(e) \in Nat
      BY <2>8
    <3>2. add.cnt[u] = Len(add.list[u])
      BY <2>3, <2>5
    <3>3. QED
      BY <2>8, <3>1, <3>2
  <2> HIDE DEF e
  <2>10. /\ recList' = [add.list EXCEPT ![u] = e]
         /\ recList'[u] = e /\ cnt'[u] = Len(e)
         /\ \A t \in Tokens \ {u} : recList'[t] = add.list[t] /\ cnt'[t] = add.cnt[t]
    BY <2>3, <2>5, <2>6, <2>9 DEF e
  <2>11. TypeOK'
    <3>1. recList' \in [Tokens -> Seq(Recs)] /\ cnt' \in [Tokens -> Nat]
      BY <2>3, <2>5, <2>6, <2>8, <2>9, <2>10
    <3>2. procKeys' \subseteq Tokens /\ devLruCnt' \in Nat
      BY <2>3, <2>6 DEF IInv, TypeOK
    <3>3. QED
      BY <3>1, <3>2, <2>4, <2>6, <2>7 DEF TypeOK
  <2>12. ListsAgree'
    <3>1. ASSUME NEW t \in Tokens
          PROVE  NoDuplicates(recList'[t]) /\ Range(recList'[t]) = {x \in Range(devRecLru') : TokenOf[x] = t}
      <4>1. Range(devRecLru') = (Range(devRecLru) \ {out}) \cup {r}
        BY <2>4, <2>6, <2>7
      <4>2. CASE t = u
        BY <4>1, <4>2, <2>3, <2>5, <2>8, <2>10
      <4>3. CASE t # u
        BY <4>1, <4>3, <2>3, <2>5, <2>10
      <4>4. QED
        BY <4>2, <4>3
    <3>2. QED
      BY <3>1, <2>6, <2>7 DEF ListsAgree
  <2>13. CountsExact'
    <3>1. devLruCnt' = Len(devRecLru')
      BY <2>4, <2>6, <2>7 DEF IInv, CountsExact, TypeOK
    <3>2. ASSUME NEW t \in Tokens
          PROVE  cnt'[t] = Len(recList'[t]) /\ (t \notin procKeys' => recList'[t] = <<>>)
      <4>1. CASE t = u
        <5>1. t \notin procKeys' => add.cnt[u] = 1
          BY <4>1, <2>5, <2>6
        <5>2. t \notin procKeys' => Len(e) = 0
          BY <5>1, <2>9
        <5>3. Len(e) = 0 => e = <<>>
          BY <2>8
        <5>4. QED
          BY <4>1, <5>2, <5>3, <2>10
      <4>2. CASE t # u
        BY <4>2, <2>3, <2>6, <2>10
      <4>3. QED
        BY <4>1, <4>2
    <3>3. QED
      BY <3>1, <3>2 DEF CountsExact
  <2>14. WithinCapacity'
    <3>1. Len(devRecLru') <= DevCapacity
      BY <2>1, <2>4, <2>6, <2>7 DEF IInv, TypeOK
    <3>2. ASSUME NEW t \in Tokens PROVE Len(recList'[t]) <= ProcCapacity
      BY <2>3, <2>5, <2>8, <2>10
    <3>3. QED
      BY <3>1, <3>2 DEF WithinCapacity
  <2>15. QED
    BY <2>11, <2>12, <2>13, <2>14 DEF IInv
<1>3. ASSUME NEW r \in Recs, r \notin Range(devRecLru), PutProcFull(r) PROVE IInv'
  <2> DEFINE t == TokenOf[r]
             out == Head(recList[t])
             dev == Erase(devRecLru, out)
             lst == Append(Tail(recList[t]), r)
  <2>1. t \in Tokens /\ recList[t] \in Seq(Recs) /\ NoDuplicates(recList[t]) /\ recList[t] # <<>>
    BY <1>3 DEF PutProcFull, Full, IInv, TypeOK, ListsAgree, CountsExact
  <2>2. /\ Tail(recList[t]) \in Seq(Recs)
        /\ NoDuplicates(Tail(recList[t]))
        /\ Range(Tail(recList[t])) = Range(recList[t]) \ {out}
        /\ Len(Tail(recList[t])) = Len(recList[t]) - 1
        /\ out \in Range(recList[t]) /\ out \in Recs
    BY <2>1, TailFacts
  <2>3. out \in Range(devRecLru) /\ TokenOf[out] = t /\ out # r /\ r \notin Range(Tail(recList[t]))
    BY <1>3, <2>1, <2>2 DEF IInv, ListsAgree
  <2>4. /\ lst \in Seq(Recs)
        /\ NoDuplicates(lst)
        /\ Range(lst) = (Range(recList[t]) \ {out}) \cup {r}
        /\ Len(lst) = Len(recList[t])
    <3>1. /\ lst \in Seq(Recs)
          /\ NoDuplicates(lst)
          /\ Range(lst) = Range(Tail(recList[t])) \cup {r}
          /\ Len(lst) = Len(Tail(recList[t])) + 1
      BY <2>2, <2>3, AppendFacts
    <3>2. Len(recList[t]) \in Nat
      BY <2>1
    <3>3. QED
      BY <3>1, <3>2, <2>2
  <2>5. /\ dev \in Seq(Recs)
        /\ NoDuplicates(dev)
        /\ Range(dev) = Range(devRecLru) \ {out}
        /\ Len(dev) = Len(devRecLru) - 1
    BY <2>3, EraseFacts DEF IInv, TypeOK, ListsAgree
  <2>6. /\ recList' = [recList EXCEPT ![t] = lst]
        /\ devRecLru' = Append(dev, r)
        /\ devLruCnt' = devLruCnt - 1 + 1
        /\ returned' = out
        /\ procKeys' = procKeys /\ cnt' = cnt
    BY <1>3, <2>3 DEF PutProcFull
  <2> HIDE DEF dev, lst, out
  <2>7. /\ devRecLru' \in Seq(Recs)
        /\ NoDuplicates(devRecLru')
        /\ Range(devRecLru') = (Range(devRecLru) \ {out}) \cup {r}
        /\ Len(devRecLru') = Len(devRecLru)
    <3>1. r \notin Range(dev)
      BY <1>3, <2>5
    <3>2. Len(devRecLru) \in Nat
      BY DEF IInv, TypeOK
    <3>3. QED
      BY <3>1, <3>2, <2>5, <2>6, AppendFacts
  <2>8. recList \in [Tokens -> Seq(Recs)]
    BY DEF IInv, TypeOK
  <2>9. /\ recList' \in [Tokens -> Seq(Recs)] /\ recList'[t] = lst
        /\ \A u \in Tokens \ {t} : recList'[u] = recList[u]
    BY <2>1, <2>4, <2>6, <2>8
  <2> HIDE DEF t
  <2>10. TypeOK'
    <3>1. devLruCnt' \in Nat /\ procKeys' \subseteq Tokens /\ cnt' \in [Tokens -> Nat]
      BY <2>6 DEF IInv, TypeOK
    <3>2. QED
      BY <3>1, <2>2, <2>6, <2>7, <2>9 DEF TypeOK
  <2>11. ListsAgree'
    <3>1. ASSUME NEW u \in Tokens
          PROVE  NoDuplicates(recList'[u]) /\ Range(recList'[u]) = {x \in Range(devRecLru') : TokenOf[x] = u}
      <4>1. CASE u = t
        BY <4>1, <2>3, <2>4, <2>7, <2>9 DEF IInv, ListsAgree, t
      <4>2. CASE u # t
        <5>1. TokenOf[out] # u /\ TokenOf[r] # u /\ recList'[u] = recList[u]
          BY <4>2, <2>3, <2>9 DEF t
        <5>2. QED
          BY <5>1, <2>7 DEF IInv, ListsAgree
      <4>3. QED
        BY <4>1, <4>2
    <3>2. QED
      BY <3>1, <2>7 DEF ListsAgree
  <2>12. CountsExact'
    <3>1. devLruCnt' = Len(devRecLru')
      BY <2>6, <2>7 DEF IInv, CountsExact, TypeOK
    <3>2. t \in procKeys
      BY <1>3 DEF PutProcFull, Full, t
    <3>3. QED
      BY <3>1, <3>2, <2>4, <2>6, <2>9 DEF IInv, CountsExact
  <2>13. WithinCapacity'
    BY <2>4, <2>7, <2>9 DEF IInv, WithinCapacity
  <2>14. QED
    BY <2>10, <2>11, <2>12, <2>13 DEF IInv
<1>4. ASSUME NEW r \in Recs, Remove(r) PROVE IInv'
  <2> DEFINE t == TokenOf[r]
  <2>1. t \in Tokens /\ (r \in Range(devRecLru) <=> r \in Range(recList[t]))
    BY DEF IInv, ListsAgree
  <2>2. r \in Range(recList[t]) => t \in procKeys
    BY <2>1 DEF IInv, CountsExact, Range
  <2>3. CASE r \in Range(devRecLru)
    <3>1. /\ recList' = [recList EXCEPT ![t] = Erase(recList[t], r)]
          /\ cnt' = [cnt EXCEPT ![t] = cnt[t] - 1]
          /\ procKeys' = IF cnt[t] = 1 THEN procKeys \ {t} ELSE procKeys
      BY <1>4, <2>1, <2>2, <2>3 DEF Remove, RemoveAbilityRecInProcList
    <3>2. devRecLru' = Erase(devRecLru, r) /\ devLruCnt' = devLruCnt - 1 /\ returned' = NoRec
      BY <1>4, <2>3 DEF Remove, RemoveAbilityRecInDevList
    <3>3. QED
      BY <2>3, <3>1, <3>2, LeaveBoth
  <2>4. CASE r \notin Range(devRecLru)
    <3>1. recList' = recList /\ cnt' = cnt /\ procKeys' = procKeys
      BY <1>4, <2>1, <2>4 DEF Remove, RemoveAbilityRecInProcList, IInv, TypeOK
    <3>2. devRecLru' = devRecLru /\ devLruCnt' = devLruCnt /\ returned' = NoRec
      BY <1>4, <2>4 DEF Remove, RemoveAbilityRecInDevList, Erase
    <3>3. QED
      BY <3>1, <3>2 DEF IInv, TypeOK, ListsAgree, CountsExact, WithinCapacity
  <2>5. QED
    BY <2>3, <2>4
<1>5. ASSUME NEW t \in Tokens, NEW n \in Names, Get(t, n) PROVE IInv'
  <2>1. PICK r \in Matches(t, n) :
           /\ recList' = [recList EXCEPT ![t] = Erase(@, r)]
           /\ cnt' = [cnt EXCEPT ![t] = @ - 1]
           /\ RemoveAbilityRecInDevList(r)
           /\ returned' = r
    BY <1>5 DEF Get
  <2>2. r \in Recs /\ r \in Range(recList[t])
    BY DEF Matches, Range
  <2>3. r \in Range(devRecLru) /\ TokenOf[r] = t
    BY <2>2 DEF IInv, ListsAgree
  <2>4. /\ recList' = [recList EXCEPT ![t] = Erase(recList[t], r)]
        /\ cnt' = [cnt EXCEPT ![t] = cnt[t] - 1]
        /\ devRecLru' = Erase(devRecLru, r) /\ devLruCnt' = devLruCnt - 1 /\ returned' = r
    BY <2>1, <2>3 DEF RemoveAbilityRecInDevList
  <2>5. procKeys' = procKeys
    BY <1>5 DEF Get
  <2>6. QED
    BY <2>2, <2>3, <2>4, <2>5, LeaveBoth
<1>6. ASSUME NEW t \in Tokens, NEW n \in Names, GetNothing(t, n) PROVE IInv'
  BY <1>6 DEF GetNothing, IInv, TypeOK, ListsAgree, CountsExact, WithinCapacity
<1>7. CASE UNCHANGED vars
  BY <1>7 DEF vars, IInv, TypeOK, ListsAgree, CountsExact, WithinCapacity
<1>8. QED
  BY <1>1, <1>2, <1>3, <1>4, <1>5, <1>6, <1>7 DEF Next, Put

\* Whatever is put, removed and requested, in any order: the counters are the
\* lengths of the lists, the lists hold the same records once each, and
\* neither limit is ever exceeded.
THEOREM CacheConsistent == Spec => [](TypeOK /\ ListsAgree /\ CountsExact /\ WithinCapacity)
<1>1. IInv => TypeOK /\ ListsAgree /\ CountsExact /\ WithinCapacity
  BY DEF IInv
<1>2. QED
  BY <1>1, InitIInv, NextIInv, PTL DEF Spec

\* The device list and the application lists hold the same records, each once:
\* no order of Put, Get, Remove and eliminations for either limit leaves a
\* record in one of them only.
THEOREM CachedInBothLists == Spec => []ListsAgree
BY CacheConsistent, PTL

\* devLruCnt_ and every cnt are the lengths of their lists, so that neither
\* wraps below zero and the tests with == never miss a limit.
THEOREM CountersExact == Spec => []CountsExact
BY CacheConsistent, PTL
-------------------------------------------------------------------------------
(***************************************************************************)
(* The cache implements the one list of AbilityLru.  Both limits and Get   *)
(* take "the first record" of an application list, AbilityLru the oldest   *)
(* record of the device list that qualifies: they are the same record only *)
(* because an application list has its records in the order of the device  *)
(* list (InOrder), whatever was put, eliminated, got and removed before.   *)
(***************************************************************************)
Before(s, x, y) == \E i, j \in DOMAIN s : i < j /\ s[i] = x /\ s[j] = y

InOrder == \A t \in Tokens : \A x, y \in Recs :
              Before(recList[t], x, y) => Before(devRecLru, x, y)

\* The list that list::erase leaves: the records behind r move up by one.
LEMMA EraseShape ==
    ASSUME NEW S, NEW s \in Seq(S), NEW r \in Range(s), NoDuplicates(s)
    PROVE  \E k \in 1..Len(s) :
              /\ s[k] = r /\ Erase(s, r) = RemoveAt(s, k)
              /\ Len(Erase(s, r)) = Len(s) - 1 /\ DOMAIN Erase(s, r) = 1..(Len(s) - 1)
              /\ \A i \in 1..(Len(s) - 1) : Erase(s, r)[i] = IF i < k THEN s[i] ELSE s[i + 1]
<1> DEFINE First(i) == s[i] = r /\ \A j \in 1..(i - 1) : s[j] # r
           k == CHOOSE i \in DOMAIN s : First(i)
<1>1. \E i \in DOMAIN s : First(i)
  BY DEF Range, NoDuplicates
<1>2. k \in 1..Len(s) /\ s[k] = r
  BY <1>1
<1>3. Erase(s, r) = RemoveAt(s, k)
  BY DEF Erase
<1> HIDE DEF k
<1>4. Len(s) - 1 \in Nat
  BY <1>2
<1>5. /\ Len(RemoveAt(s, k)) = Len(s) - 1 /\ DOMAIN RemoveAt(s, k) = 1..(Len(s) - 1)
      /\ \A i \in 1..(Len(s) - 1) : RemoveAt(s, k)[i] = IF i < k THEN s[i] ELSE s[i + 1]
  BY <1>4 DEF RemoveAt
<1> QED
  BY <1>2, <1>3, <1>5

\* Erasing a record leaves the others in the order they were in.
LEMMA EraseOrder ==
    ASSUME NEW S, NEW s \in Seq(S), NEW r, NoDuplicates(s)
    PROVE  \A x, y : Before(Erase(s, r), x, y) <=> Before(s, x, y) /\ x # r /\ y # r
<1>1. CASE r \notin Range(s)
  BY <1>1 DEF Erase, Before, Range
<1>2. CASE r \in Range(s)
  <2> DEFINE e == Erase(s, r)
  <2>1. PICK k \in 1..Len(s) :
           /\ s[k] = r /\ Len(e) = Len(s) - 1 /\ DOMAIN e = 1..(Len(s) - 1)
           /\ \A i \in 1..(Len(s) - 1) : e[i] = IF i < k THEN s[i] ELSE s[i + 1]
    BY <1>2, EraseShape
  <2> HIDE DEF e
  <2>2. DOMAIN s = 1..Len(s) /\ Len(s) \in Nat
    OBVIOUS
  <2>3. ASSUME NEW x, NEW y, Before(e, x, y)
        PROVE  Before(s, x, y) /\ x # r /\ y # r
    <3>1. PICK i, j \in DOMAIN e : i < j /\ e[i] = x /\ e[j] = y
      BY <2>3 DEF Before
    <3> DEFINE up(n) == IF n < k THEN n ELSE n + 1
    <3>2. /\ up(i) \in DOMAIN s /\ up(j) \in DOMAIN s /\ up(i) < up(j)
          /\ up(i) # k /\ up(j) # k /\ s[up(i)] = x /\ s[up(j)] = y
      BY <2>1, <2>2, <3>1
    <3> QED
      BY <2>1, <2>2, <3>2 DEF Before, NoDuplicates
  <2>4. ASSUME NEW x, NEW y, Before(s, x, y), x # r, y # r
        PROVE  Before(e, x, y)
    <3>1. PICK i, j \in DOMAIN s : i < j /\ s[i] = x /\ s[j] = y
      BY <2>4 DEF Before
    <3> DEFINE down(n) == IF n < k THEN n ELSE n - 1
    <3>2. i # k /\ j # k
      BY <2>1, <2>4, <3>1
    <3>3. down(i) \in DOMAIN e /\ down(j) \in DOMAIN e /\ down(i) < down(j)
      BY <2>1, <2>2, <3>1, <3>2
    <3>4. e[down(i)] = x /\ e[down(j)] = y
      BY <2>1, <2>2, <3>1, <3>2, <3>3
    <3> QED
      BY <3>3, <3>4 DEF Before
  <2> QED
    BY <2>3, <2>4 DEF e
<1> QED
  BY <1>1, <1>2

\* A record that is appended comes after all others.
LEMMA AppendOrder ==
    ASSUME NEW S, NEW s \in Seq(S), NEW r \in S
    PROVE  \A x, y : Before(Append(s, r), x, y) <=> Before(s, x, y) \/ (x \in Range(s) /\ y = r)
<1> DEFINE a == Append(s, r)
<1>1. /\ DOMAIN a = 1..(Len(s) + 1) /\ DOMAIN s = 1..Len(s) /\ Len(s) \in Nat
      /\ \A i \in 1..Len(s) : a[i] = s[i]
      /\ a[Len(s) + 1] = r
  OBVIOUS
<1> HIDE DEF a
<1>2. ASSUME NEW x, NEW y, Before(a, x, y)
      PROVE  Before(s, x, y) \/ (x \in Range(s) /\ y = r)
  <2>1. PICK i, j \in DOMAIN a : i < j /\ a[i] = x /\ a[j] = y
    BY <1>2 DEF Before
  <2>2. i \in DOMAIN s /\ s[i] = x
    BY <1>1, <2>1
  <2>3. CASE j = Len(s) + 1
    BY <1>1, <2>1, <2>2, <2>3 DEF Range
  <2>4. CASE j # Len(s) + 1
    <3>1. j \in DOMAIN s /\ s[j] = y
      BY <1>1, <2>1, <2>4
    <3> QED
      BY <2>1, <2>2, <3>1 DEF Before
  <2> QED
    BY <2>3, <2>4
<1>3. ASSUME NEW x, NEW y, Before(s, x, y)
      PROVE  Before(a, x, y)
  BY <1>1, <1>3 DEF Before
<1>4. ASSUME NEW x \in Range(s)
      PROVE  Before(a, x, r)
  <2>1. PICK i \in DOMAIN s : s[i] = x
    BY DEF Range
  <2>2. i \in DOMAIN a /\ Len(s) + 1 \in DOMAIN a /\ i < Len(s) + 1 /\ a[i] = x
    BY <1>1, <2>1
  <2> QED
    BY <1>1, <2>2 DEF Before
<1> QED
  BY <1>2, <1>3, <1>4 DEF a

\* pop_front is the erasure of the front record.
LEMMA TailIsErase ==
    ASSUME NEW S, NEW s \in Seq(S), NoDuplicates(s), s # <<>>
    PROVE  Tail(s) = Erase(s, Head(s))
<1>1. /\ DOMAIN Tail(s) = 1..(Len(s) - 1) /\ Tail(s) \in Seq(S)
      /\ \A i \in 1..(Len(s) - 1) : Tail(s)[i] = s[i + 1]
      /\ Head(s) = s[1] /\ DOMAIN s = 1..Len(s) /\ Len(s) \in Nat \ {0}
  OBVIOUS
<1>2. Head(s) \in Range(s)
  BY <1>1 DEF Range
<1>3. PICK k \in 1..Len(s) : s[k] = Head(s) /\ Erase(s, Head(s)) = RemoveAt(s, k)
  BY <1>2, EraseShape
<1>4. k = 1
  BY <1>1, <1>3 DEF NoDuplicates
<1>5. RemoveAt(s, 1) = [j \in 1..(Len(s) - 1) |-> s[j + 1]]
  BY <1>1 DEF RemoveAt
<1> QED
  BY <1>1, <1>3, <1>4, <1>5

\* The list of AbilityLru without a record is the device list after its erasure.
LEMMA WithoutIsErase ==
    ASSUME devRecLru \in Seq(Recs), NoDuplicates(devRecLru), NEW r
    PROVE  Lru!Without(r) = Erase(devRecLru, r)
<1>1. CASE r \notin Range(devRecLru)
  BY <1>1 DEF Lru!Without, Lru!Cached, Erase, Range
<1>2. CASE r \in Range(devRecLru)
  <2>1. PICK k \in 1..Len(devRecLru) :
           devRecLru[k] = r /\ Erase(devRecLru, r) = RemoveAt(devRecLru, k)
    BY <1>2, EraseShape
  <2>2. \A i \in 1..(Len(devRecLru) - 1) : (\E j \in 1..i : devRecLru[j] = r) <=> ~(i < k)
    BY <2>1 DEF NoDuplicates
  <2>3. Lru!Without(r)
          = [i \in 1..(Len(devRecLru) - 1) |-> IF \E j \in 1..i : devRecLru[j] = r
                                                 THEN devRecLru[i + 1] ELSE devRecLru[i]]
    BY <1>2 DEF Lru!Without, Lru!Cached, Range
  <2> QED
    BY <2>1, <2>2, <2>3 DEF RemoveAt
<1> QED
  BY <1>1, <1>2

\* The two modules count with the same operator.
LEMMA SameCardinality == \A S : Lru!Cardinality(S) = Cardinality(S)
BY Zenon DEF Lru!Cardinality, Cardinality

\* A list without repetition has as many records as places.
LEMMA LengthIsCardinality ==
    ASSUME NEW S, NEW s \in Seq(S), NoDuplicates(s)
    PROVE  Cardinality(Range(s)) = Len(s)
<1>1. s \in Bijection(1..Len(s), Range(s))
  BY DEF Bijection, Injection, Surjection, IsInjective, Range, NoDuplicates
<1>2. IsFiniteSet(1..Len(s)) /\ Cardinality(1..Len(s)) = Len(s)
  <2>1. \A n \in Nat : IsFiniteSet(1..n) /\ Cardinality(1..n) = n
    BY FS_Interval
  <2> QED
    BY <2>1
<1>3. ExistsBijection(1..Len(s), Range(s))
  BY <1>1 DEF ExistsBijection
<1> QED
  BY <1>2, <1>3, FS_Bijection

\* A record of one application's list is in no other application's list.
LEMMA OtherLists ==
    ASSUME IInv, NEW t \in Tokens, NEW q \in Recs, TokenOf[q] # t
    PROVE  \A x, y : Before(recList[t], x, y) => x # q /\ y # q
<1>1. q \notin Range(recList[t])
  BY DEF IInv, ListsAgree
<1> QED
  BY <1>1 DEF Before, Range

\* An application list is part of the device list, and no longer than its set.
LEMMA ListFacts ==
    ASSUME IInv, NEW t \in Tokens
    PROVE  /\ recList[t] \in Seq(Recs) /\ NoDuplicates(recList[t])
           /\ devRecLru \in Seq(Recs) /\ NoDuplicates(devRecLru)
           /\ Range(devRecLru) \subseteq Recs
           /\ Lru!OfToken(t) = Range(recList[t])
           /\ Lru!Cached = Range(devRecLru)
           /\ Lru!Cardinality(Lru!OfToken(t)) = Len(recList[t])
<1>1. /\ recList[t] \in Seq(Recs) /\ NoDuplicates(recList[t])
      /\ devRecLru \in Seq(Recs) /\ NoDuplicates(devRecLru)
      /\ Range(recList[t]) = {r \in Range(devRecLru) : TokenOf[r] = t}
  BY DEF IInv, TypeOK, ListsAgree
<1>2. Lru!Cached = Range(devRecLru)
  BY DEF Lru!Cached, Range
<1>3. Lru!OfToken(t) = Range(recList[t])
  BY <1>1, <1>2 DEF Lru!OfToken
<1>4. Range(devRecLru) \subseteq Recs
  BY <1>1 DEF Range
<1> QED
  BY <1>1, <1>2, <1>3, <1>4, LengthIsCardinality, SameCardinality

\* The first record of an application's list that satisfies a test is the oldest
\* record of the cache that is in the list and satisfies it.
LEMMA FirstIsOldest ==
    ASSUME IInv, InOrder, NEW t \in Tokens, NEW S, NEW i \in DOMAIN recList[t],
           S \subseteq Range(recList[t]),
           recList[t][i] \in S, \A j \in 1..(i - 1) : recList[t][j] \notin S
    PROVE  Lru!IsOldest(recList[t][i], S)
<1> DEFINE l == recList[t]
           r == l[i]
<1>1. /\ l \in Seq(Recs) /\ NoDuplicates(l) /\ devRecLru \in Seq(Recs)
      /\ NoDuplicates(devRecLru) /\ Range(l) \subseteq Range(devRecLru) /\ r \in Range(l)
  BY DEF IInv, TypeOK, ListsAgree, Range
<1>2. PICK k \in DOMAIN devRecLru : devRecLru[k] = r
  BY <1>1 DEF Range
<1>3. ASSUME NEW j \in 1..(k - 1), devRecLru[j] \in S
      PROVE  FALSE
  <2>1. PICK m \in DOMAIN l : l[m] = devRecLru[j]
    BY <1>3 DEF Range
  <2>2. j \in DOMAIN devRecLru /\ j < k
    BY <1>1, <1>2
  <2>3. m # i
    BY <1>1, <1>2, <2>1, <2>2 DEF NoDuplicates
  <2>4. ~(m < i)
    BY <1>1, <1>3, <2>1
  <2>5. i < m
    BY <1>1, <2>1, <2>3, <2>4
  <2>6. Before(l, r, devRecLru[j]) /\ r \in Recs /\ devRecLru[j] \in Recs
    BY <1>1, <2>1, <2>2, <2>5 DEF Before
  <2>7. Before(devRecLru, r, devRecLru[j])
    BY <2>6 DEF InOrder
  <2>8. PICK a, b \in DOMAIN devRecLru : a < b /\ devRecLru[a] = r /\ devRecLru[b] = devRecLru[j]
    BY <2>7 DEF Before
  <2>9. a = k /\ b = j
    BY <1>1, <1>2, <2>2, <2>8 DEF NoDuplicates
  <2> QED
    BY <2>2, <2>8, <2>9, <1>1
<1> QED
  BY <1>2, <1>3 DEF Lru!IsOldest

\* AddToProcLru appends the record to its application's list.
LEMMA AddedList ==
    ASSUME IInv, NEW r \in Recs
    PROVE  AddedToProc(r).list = [recList EXCEPT ![TokenOf[r]] = Append(recList[TokenOf[r]], r)]
<1>1. Append(<<>>, r) = <<r>>
  OBVIOUS
<1>2. TokenOf[r] \notin procKeys => Append(recList[TokenOf[r]], r) = <<r>>
  BY <1>1, RecAssumption DEF IInv, CountsExact
<1> QED
  BY <1>2 DEF AddedToProc

\* A put below both limits is PutFits of AbilityLru.
LEMMA PutFitsRefines ==
    ASSUME IInv, InOrder, NEW r \in Recs, r \notin Range(devRecLru), PutFits(r)
    PROVE  InOrder' /\ Lru!PutFits(r)
<1> DEFINE t == TokenOf[r]
<1>1. t \in Tokens
  BY RecAssumption
<1>2. /\ devRecLru' = Append(devRecLru, r) /\ returned' = NoRec
      /\ recList' = [recList EXCEPT ![t] = Append(recList[t], r)]
  BY AddedList DEF PutFits
<1>3. /\ \A u \in Tokens : recList[u] \in Seq(Recs)
      /\ recList \in [Tokens -> Seq(Recs)] /\ devRecLru \in Seq(Recs)
  BY DEF IInv, TypeOK
<1>4. InOrder'
  <2>1. \A x, y : Before(devRecLru', x, y)
           <=> Before(devRecLru, x, y) \/ (x \in Range(devRecLru) /\ y = r)
    BY <1>2, <1>3, AppendOrder
  <2>2. \A x, y : Before(recList'[t], x, y)
           <=> Before(recList[t], x, y) \/ (x \in Range(recList[t]) /\ y = r)
    BY <1>1, <1>2, <1>3, AppendOrder
  <2>3. \A u \in Tokens \ {t} : recList'[u] = recList[u]
    BY <1>2, <1>3
  <2>4. \A u \in Tokens : Range(recList[u]) \subseteq Range(devRecLru)
    BY DEF IInv, ListsAgree
  <2> QED
    BY <2>1, <2>2, <2>3, <2>4 DEF InOrder
<1>5. Len(devRecLru) # DevCapacity
  BY CapacityAssumption DEF PutFits, DevFull, IInv, CountsExact
<1>6. Len(recList[t]) # ProcCapacity
  <2>1. CASE t \in procKeys
    BY <1>1, <2>1 DEF PutFits, Full, IInv, CountsExact
  <2>2. CASE t \notin procKeys
    BY <1>1, <2>2, CapacityAssumption DEF IInv, CountsExact
  <2> QED
    BY <2>1, <2>2
<1>7. Lru!Cached = Range(devRecLru) /\ Lru!Cardinality(Lru!OfToken(t)) = Len(recList[t])
  BY <1>1, ListFacts
<1>8. Lru!PutFits(r)
  BY <1>2, <1>5, <1>6, <1>7 DEF Lru!PutFits
<1> QED
  BY <1>4, <1>8

\* A put into a full application is PutEliminates of AbilityLru for the front
\* record of the application's list.
LEMMA PutProcFullRefines ==
    ASSUME IInv, InOrder, NEW r \in Recs, r \notin Range(devRecLru), PutProcFull(r)
    PROVE  InOrder' /\ \E out \in Recs : Lru!PutEliminates(r, out)
<1> DEFINE t == TokenOf[r]
           out == Head(recList[t])
<1>1. /\ t \in Tokens /\ recList[t] \in Seq(Recs) /\ NoDuplicates(recList[t])
      /\ devRecLru \in Seq(Recs) /\ NoDuplicates(devRecLru)
      /\ recList \in [Tokens -> Seq(Recs)]
      /\ Range(recList[t]) = {x \in Range(devRecLru) : TokenOf[x] = t}
  BY RecAssumption DEF IInv, TypeOK, ListsAgree
<1>2. Len(recList[t]) = ProcCapacity
  BY <1>1 DEF PutProcFull, Full, IInv, CountsExact
<1>3. recList[t] # <<>>
  BY <1>1, <1>2, CapacityAssumption
<1>4. /\ Tail(recList[t]) \in Seq(Recs) /\ Range(Tail(recList[t])) = Range(recList[t]) \ {out}
      /\ out \in Range(recList[t]) /\ out \in Recs
  BY <1>1, <1>3, TailFacts
<1>5. /\ recList' = [recList EXCEPT ![t] = Append(Tail(recList[t]), r)]
      /\ devRecLru' = Append(Erase(devRecLru, out), r)
      /\ returned' = out
  BY DEF PutProcFull
<1>6. Tail(recList[t]) = Erase(recList[t], out)
  BY <1>1, <1>3, TailIsErase
<1>7. 1 \in DOMAIN recList[t] /\ out = recList[t][1]
  BY <1>1, <1>3
<1> HIDE DEF out, t
<1>8. InOrder'
  <2>1. \A x, y : Before(devRecLru', x, y)
           <=> \/ Before(devRecLru, x, y) /\ x # out /\ y # out
               \/ x \in Range(devRecLru) \ {out} /\ y = r
    <3>1. /\ Erase(devRecLru, out) \in Seq(Recs)
          /\ Range(Erase(devRecLru, out)) = Range(devRecLru) \ {out}
      BY <1>1, EraseFacts
    <3>2. \A x, y : Before(Append(Erase(devRecLru, out), r), x, y)
             <=> \/ Before(Erase(devRecLru, out), x, y)
                 \/ x \in Range(Erase(devRecLru, out)) /\ y = r
      BY <3>1, AppendOrder
    <3> QED
      BY <1>1, <1>5, <3>1, <3>2, EraseOrder
  <2>2. \A x, y : Before(recList'[t], x, y)
           <=> \/ Before(recList[t], x, y) /\ x # out /\ y # out
               \/ x \in Range(recList[t]) \ {out} /\ y = r
    <3>1. \A x, y : Before(Append(Tail(recList[t]), r), x, y)
             <=> \/ Before(Tail(recList[t]), x, y)
                 \/ x \in Range(Tail(recList[t])) /\ y = r
      BY <1>4, AppendOrder
    <3>2. \A x, y : Before(Tail(recList[t]), x, y) <=> Before(recList[t], x, y) /\ x # out /\ y # out
      <4>1. \A x, y : Before(Erase(recList[t], out), x, y)
                        <=> Before(recList[t], x, y) /\ x # out /\ y # out
        BY <1>1, EraseOrder
      <4> QED
        BY ONLY <1>6, <4>1
    <3>3. recList'[t] = Append(Tail(recList[t]), r)
      BY <1>1, <1>5
    <3> QED
      BY <1>4, <3>1, <3>2, <3>3
  <2>3. \A u \in Tokens \ {t} : recList'[u] = recList[u]
    BY <1>1, <1>5
  <2>4. \A u \in Tokens \ {t} : \A x, y : Before(recList[u], x, y) => x # out /\ y # out
    <3>1. TokenOf[out] = t
      BY <1>1, <1>4
    <3> QED
      BY <1>4, <3>1, OtherLists
  <2>5. \A u \in Tokens : Range(recList[u]) \subseteq Range(devRecLru)
    BY DEF IInv, ListsAgree
  <2> QED
    BY <2>1, <2>2, <2>3, <2>4, <2>5 DEF InOrder
<1>9. Lru!IsOldest(out, Range(recList[t]))
  BY <1>1, <1>4, <1>7, FirstIsOldest
<1>10. /\ Lru!Cached = Range(devRecLru) /\ Lru!OfToken(t) = Range(recList[t])
       /\ Lru!Cardinality(Lru!OfToken(t)) = Len(recList[t])
       /\ Lru!Without(out) = Erase(devRecLru, out)
  BY <1>1, ListFacts, WithoutIsErase
<1>11. Lru!PutEliminates(r, out)
  BY <1>2, <1>5, <1>9, <1>10 DEF Lru!PutEliminates, t
<1> QED
  BY <1>4, <1>8, <1>11

\* A put into a full device is PutEliminates of AbilityLru for the front record
\* of the device list.
LEMMA PutDevFullRefines ==
    ASSUME IInv, InOrder, NEW r \in Recs, r \notin Range(devRecLru), PutDevFull(r)
    PROVE  InOrder' /\ \E out \in Recs : Lru!PutEliminates(r, out)
<1> DEFINE t == TokenOf[r]
           out == Head(devRecLru)
           u == TokenOf[out]
           l == [recList EXCEPT ![t] = Append(recList[t], r)]
<1>1. /\ t \in Tokens /\ recList \in [Tokens -> Seq(Recs)]
      /\ devRecLru \in Seq(Recs) /\ NoDuplicates(devRecLru)
  BY RecAssumption DEF IInv, TypeOK, ListsAgree
<1>2. devRecLru # <<>> /\ Len(devRecLru) = DevCapacity
  BY CapacityAssumption DEF PutDevFull, DevFull, IInv, CountsExact, TypeOK
<1>3. /\ Tail(devRecLru) \in Seq(Recs) /\ Range(Tail(devRecLru)) = Range(devRecLru) \ {out}
      /\ out \in Range(devRecLru) /\ out \in Recs /\ out # r
      /\ 1 \in DOMAIN devRecLru /\ out = devRecLru[1]
  BY <1>1, <1>2, TailFacts
<1>4. Tail(devRecLru) = Erase(devRecLru, out)
  BY <1>1, <1>2, TailIsErase
<1>5. u \in Tokens /\ out \in Range(recList[u])
  BY <1>3, RecAssumption DEF IInv, ListsAgree
<1>6. ~ Full(t)
  BY DEF PutDevFull
<1>7. /\ AddedToProc(r).list = l
      /\ \A v \in Tokens : /\ NoDuplicates(l[v]) /\ l[v] \in Seq(Recs)
                           /\ Range(l[v]) = {x \in Range(devRecLru) \cup {r} : TokenOf[x] = v}
                           /\ v \notin AddedToProc(r).keys => l[v] = <<>>
  <2>1. AddedToProc(r).list = l
    BY AddedList
  <2>2. \A v \in Tokens : AddedToProc(r).list[v] \in Seq(Recs)
    BY <1>6, AddedToProcFacts
  <2>3. \A v \in Tokens :
           /\ NoDuplicates(AddedToProc(r).list[v])
           /\ Range(AddedToProc(r).list[v]) = {x \in Range(devRecLru) \cup {r} : TokenOf[x] = v}
           /\ v \notin AddedToProc(r).keys => AddedToProc(r).list[v] = <<>>
    BY <1>6, AddedToProcFacts
  <2> HIDE DEF l
  <2> QED
    BY <2>1, <2>2, <2>3
<1>8. /\ recList' = [l EXCEPT ![u] = Erase(l[u], out)]
      /\ devRecLru' = Append(Tail(devRecLru), r)
      /\ returned' = out
  <2>1. out \in Range(l[u])
    BY <1>3, <1>5, <1>7
  <2>2. u \in AddedToProc(r).keys
    BY <1>5, <1>7, <2>1 DEF Range
  <2> QED
    BY <1>7, <2>1, <2>2 DEF PutDevFull
<1>9. \A v \in Tokens \ {t} : l[v] = recList[v]
  BY <1>1
<1>10. l[t] = Append(recList[t], r) /\ DOMAIN l = Tokens
  BY <1>1
<1>11. /\ \A x, y : Before(l[t], x, y)
             <=> Before(recList[t], x, y) \/ (x \in Range(recList[t]) /\ y = r)
       /\ \A v \in Tokens \ {t} : \A x, y : Before(l[v], x, y) <=> Before(recList[v], x, y)
  BY <1>1, <1>9, <1>10, AppendOrder
<1> HIDE DEF out, t, u, l
<1>12. InOrder'
  <2>1. \A x, y : Before(devRecLru', x, y)
           <=> \/ Before(devRecLru, x, y) /\ x # out /\ y # out
               \/ x \in Range(devRecLru) \ {out} /\ y = r
    <3>1. \A x, y : Before(Append(Tail(devRecLru), r), x, y)
             <=> Before(Tail(devRecLru), x, y) \/ (x \in Range(Tail(devRecLru)) /\ y = r)
      BY <1>3, AppendOrder
    <3>2. \A x, y : Before(Tail(devRecLru), x, y) <=> Before(devRecLru, x, y) /\ x # out /\ y # out
      <4>1. \A x, y : Before(Erase(devRecLru, out), x, y)
                        <=> Before(devRecLru, x, y) /\ x # out /\ y # out
        BY <1>1, EraseOrder
      <4> QED
        BY ONLY <1>4, <4>1
    <3> QED
      BY <1>3, <1>8, <3>1, <3>2
  <2>2. \A v \in Tokens : \A x, y : Before(recList'[v], x, y) => Before(l[v], x, y) /\ x # out /\ y # out
    <3>1. \A x, y : Before(recList'[u], x, y) => Before(l[u], x, y) /\ x # out /\ y # out
      <4>1. recList'[u] = Erase(l[u], out)
        BY <1>5, <1>8, <1>10
      <4> QED
        BY <1>5, <1>7, <4>1, EraseOrder
    <3>2. ASSUME NEW v \in Tokens \ {u}
          PROVE  \A x, y : Before(recList'[v], x, y) => Before(l[v], x, y) /\ x # out /\ y # out
      <4>1. recList'[v] = l[v]
        BY <1>8, <1>10
      <4>2. out \notin Range(l[v])
        BY <1>7 DEF u
      <4> QED
        BY <4>1, <4>2 DEF Before, Range
    <3> QED
      BY <3>1, <3>2
  <2>3. \A v \in Tokens : Range(recList[v]) \subseteq Range(devRecLru)
    BY DEF IInv, ListsAgree
  <2>4. ASSUME NEW v \in Tokens, NEW x \in Recs, NEW y \in Recs, Before(recList'[v], x, y)
        PROVE  Before(devRecLru', x, y)
    <3>1. Before(l[v], x, y) /\ x # out /\ y # out
      BY <2>2, <2>4
    <3>2. Before(recList[v], x, y) \/ (x \in Range(recList[v]) /\ y = r)
      BY <1>11, <3>1
    <3> QED
      BY <2>1, <2>3, <3>1, <3>2 DEF InOrder
  <2> QED
    BY <2>4 DEF InOrder
<1>13. Lru!IsOldest(out, Range(devRecLru))
  BY <1>3 DEF Lru!IsOldest
<1>14. Len(recList[t]) # ProcCapacity
  <2>1. CASE t \in procKeys
    BY <1>1, <1>6, <2>1 DEF Full, IInv, CountsExact
  <2>2. CASE t \notin procKeys
    BY <1>1, <2>2, CapacityAssumption DEF IInv, CountsExact
  <2> QED
    BY <2>1, <2>2
<1>15. /\ Lru!Cached = Range(devRecLru) /\ Lru!Cardinality(Lru!OfToken(t)) = Len(recList[t])
       /\ Lru!Without(out) = Tail(devRecLru)
  BY <1>1, <1>4, ListFacts, WithoutIsErase
<1>16. Lru!PutEliminates(r, out)
  BY <1>2, <1>8, <1>13, <1>14, <1>15 DEF Lru!PutEliminates, t
<1> QED
  BY <1>3, <1>12, <1>16

\* A record that leaves both lists leaves the order of the others as it was.
LEMMA LeaveOrder ==
    ASSUME IInv, InOrder, NEW r \in Recs,
           devRecLru' = Erase(devRecLru, r),
           recList' = [recList EXCEPT ![TokenOf[r]] = Erase(recList[TokenOf[r]], r)]
    PROVE  InOrder'
<1> DEFINE t == TokenOf[r]
<1>1. /\ t \in Tokens /\ recList \in [Tokens -> Seq(Recs)] /\ NoDuplicates(recList[t])
      /\ devRecLru \in Seq(Recs) /\ NoDuplicates(devRecLru)
  BY RecAssumption DEF IInv, TypeOK, ListsAgree
<1>2. \A x, y : Before(devRecLru', x, y) <=> Before(devRecLru, x, y) /\ x # r /\ y # r
  BY <1>1, EraseOrder
<1>3. \A x, y : Before(recList'[t], x, y) <=> Before(recList[t], x, y) /\ x # r /\ y # r
  BY <1>1, EraseOrder
<1>4. \A u \in Tokens \ {t} : /\ recList'[u] = recList[u]
                              /\ \A x, y : Before(recList[u], x, y) => x # r /\ y # r
  BY <1>1, OtherLists
<1> QED
  BY <1>2, <1>3, <1>4 DEF InOrder

\* Remove is Remove of AbilityLru.
LEMMA RemoveRefines ==
    ASSUME IInv, InOrder, NEW r \in Recs, Remove(r)
    PROVE  InOrder' /\ Lru!Remove(r)
<1> DEFINE t == TokenOf[r]
<1>1. t \in Tokens /\ devRecLru \in Seq(Recs) /\ NoDuplicates(devRecLru)
  BY RecAssumption DEF IInv, TypeOK, ListsAgree
<1>2. /\ devRecLru' = Erase(devRecLru, r) /\ returned' = NoRec
      /\ recList' = [recList EXCEPT ![t] = IF t \in procKeys /\ r \in Range(recList[t])
                                             THEN Erase(recList[t], r) ELSE recList[t]]
  BY DEF Remove, RemoveAbilityRecInDevList, RemoveAbilityRecInProcList
<1>3. r \in Range(recList[t]) => t \in procKeys
  BY <1>1 DEF IInv, CountsExact, Range
<1>4. r \notin Range(recList[t]) => Erase(recList[t], r) = recList[t]
  BY DEF Erase
<1>5. recList' = [recList EXCEPT ![t] = Erase(recList[t], r)]
  BY <1>2, <1>3, <1>4
<1> QED
  BY <1>1, <1>2, <1>5, LeaveOrder, WithoutIsErase DEF Lru!Remove

\* Get is Get of AbilityLru for the first matching record of the application's
\* list.
LEMMA GetRefines ==
    ASSUME IInv, InOrder, NEW t \in Tokens, NEW n \in Names, Get(t, n)
    PROVE  InOrder' /\ \E r \in Recs : Lru!Get(t, n, r)
<1>1. PICK r \in Matches(t, n) :
         /\ recList' = [recList EXCEPT ![t] = Erase(recList[t], r)]
         /\ RemoveAbilityRecInDevList(r)
         /\ returned' = r
  BY DEF Get
<1>2. PICK i \in DOMAIN recList[t] : /\ recList[t][i] = r /\ NameOf[r] = n
                                     /\ \A j \in 1..(i - 1) : NameOf[recList[t][j]] # n
  BY DEF Matches
<1>3. r \in Recs /\ r \in Range(recList[t]) /\ TokenOf[r] = t
  BY <1>2 DEF Matches, Range, IInv, ListsAgree
<1>4. devRecLru \in Seq(Recs) /\ NoDuplicates(devRecLru) /\ devRecLru' = Erase(devRecLru, r)
  BY <1>1 DEF RemoveAbilityRecInDevList, IInv, TypeOK, ListsAgree
<1>5. InOrder'
  BY <1>1, <1>3, <1>4, LeaveOrder
<1> DEFINE S == {x \in Range(recList[t]) : NameOf[x] = n}
<1>6. S \subseteq Range(recList[t]) /\ recList[t][i] \in S
      /\ \A j \in 1..(i - 1) : recList[t][j] \notin S
  BY <1>2, <1>3
<1> HIDE DEF S
<1>7. Lru!IsOldest(r, S)
  BY <1>2, <1>6, FirstIsOldest
<1>8. Lru!Get(t, n, r)
  BY <1>1, <1>4, <1>7, ListFacts, WithoutIsErase DEF Lru!Get, S
<1> QED
  BY <1>3, <1>5, <1>8

\* Some place of a list comes first.
LEMMA LeastIn ==
    ASSUME NEW S, S \subseteq Nat, S # {}
    PROVE  \E x \in S : \A y \in S : x <= y
<1> DEFINE Less == {ss \in Nat \X Nat : ss[1] < ss[2]}
<1>1. IsWellFoundedOn(Less, Nat)
  BY NatLessThanWellFounded, Zenon DEF OpToRel
<1>2. \E x \in S : \A y \in S : ~ (<<y, x>> \in Less)
  <2> HIDE DEF Less
  <2> QED
    BY <1>1, WFMin
<1>3. \A x, y \in S : ~ (<<y, x>> \in Less) => x <= y
  OBVIOUS
<1> QED
  BY <1>2, <1>3

\* Get returns nothing only if the application has no record of the name.
LEMMA NothingFound ==
    ASSUME IInv, NEW t \in Tokens, NEW n \in Names, GetNothing(t, n)
    PROVE  \A r \in Range(recList[t]) : NameOf[r] # n
<1>1. recList[t] \in Seq(Recs)
  BY DEF IInv, TypeOK
<1>2. CASE t \notin procKeys
  BY <1>1, <1>2 DEF IInv, CountsExact, Range
<1>3. CASE Matches(t, n) = {}
  <2> SUFFICES ASSUME NEW k \in DOMAIN recList[t], NameOf[recList[t][k]] = n
               PROVE  FALSE
    BY DEF Range
  <2> DEFINE S == {i \in DOMAIN recList[t] : NameOf[recList[t][i]] = n}
  <2>1. S \subseteq Nat /\ k \in S
    BY <1>1
  <2>2. PICK i \in S : \A j \in S : i <= j
    BY <2>1, LeastIn
  <2>3. /\ recList[t][i] \in Recs /\ i \in DOMAIN recList[t]
        /\ \A j \in 1..(i - 1) : j \in DOMAIN recList[t] /\ ~(i <= j)
    BY <1>1, <2>2
  <2>4. recList[t][i] \in Matches(t, n)
    BY <2>2, <2>3 DEF Matches
  <2> QED
    BY <1>3, <2>4
<1> QED
  BY <1>2, <1>3 DEF GetNothing

\* A request that nothing matches is GetNothing of AbilityLru.
LEMMA GetNothingRefines ==
    ASSUME IInv, InOrder, NEW t \in Tokens, NEW n \in Names, GetNothing(t, n)
    PROVE  InOrder' /\ Lru!GetNothing(t, n)
<1>1. returned' = NoRec /\ devRecLru' = devRecLru /\ recList' = recList
  BY DEF GetNothing
<1>2. InOrder'
  BY <1>1 DEF InOrder
<1>3. \A r \in Lru!OfToken(t) : NameOf[r] # n
  BY ListFacts, NothingFound
<1> QED
  BY <1>1, <1>2, <1>3 DEF Lru!GetNothing

\* Every step of the cache keeps the order and is a step of the one list.
LEMMA StepRefines == IInv /\ InOrder /\ [Next]_vars => InOrder' /\ [Lru!Next]_(Lru!vars)
<1> SUFFICES ASSUME IInv, InOrder, [Next]_vars
             PROVE  InOrder' /\ [Lru!Next]_(Lru!vars)
  OBVIOUS
<1>1. CASE UNCHANGED vars
  BY <1>1 DEF vars, InOrder, Before, Lru!vars
<1>2. ASSUME NEW r \in Recs, Put(r)
      PROVE  InOrder' /\ Lru!Next
  BY <1>2, PutFitsRefines, PutProcFullRefines, PutDevFullRefines DEF Put, Lru!Next
<1>3. ASSUME NEW r \in Recs, Remove(r)
      PROVE  InOrder' /\ Lru!Next
  BY <1>3, RemoveRefines DEF Lru!Next
<1>4. ASSUME NEW t \in Tokens, NEW n \in Names, Get(t, n)
      PROVE  InOrder' /\ Lru!Next
  BY <1>4, GetRefines DEF Lru!Next
<1>5. ASSUME NEW t \in Tokens, NEW n \in Names, GetNothing(t, n)
      PROVE  InOrder' /\ Lru!Next
  BY <1>5, GetNothingRefines DEF Lru!Next
<1> QED
  BY <1>1, <1>2, <1>3, <1>4, <1>5 DEF Next

\* The two lists with their counters implement the one list of AbilityLru: every
\* Put gives back the oldest record of the limit that is reached and no other,
\* every Get the oldest record that matches, for any records, applications,
\* names and positive limits.
THEOREM CacheIsLru == Spec => ImplementsLru
<1>1. Init => Lru!Init /\ InOrder
  BY DEF Init, Lru!Init, InOrder, Before
<1>2. IInv /\ InOrder /\ [Next]_vars => IInv' /\ InOrder' /\ [Lru!Next]_(Lru!vars)
  BY NextIInv, StepRefines
<1> QED
  BY <1>1, <1>2, InitIInv, PTL DEF Spec, ImplementsLru, Lru!Spec
===============================================================================
