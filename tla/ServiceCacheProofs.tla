-------------------------- MODULE ServiceCacheProofs --------------------------
(***************************************************************************)
(* The managers of all users move records through the one cache without    *)
(* losing or doubling any, for any users, services, limits of the cache    *)
(* and environments.  What the cache does is taken from AbilityCacheProofs.*)
(***************************************************************************)
EXTENDS ServiceCache, TLAPS, FiniteSetTheorems

P == INSTANCE AbilityCacheProofs

RecordType == [link : {"none", "connecting", "connected", "disconnecting"},
               proc : {"none", "alive", "dead"}, state : {"INITIAL", "ACTIVE", "TERMINATING"},
               asked : BOOLEAN, timer : Users \cup {NoUser}, again : Users \cup {NoUser},
               tasks : SUBSET {"schedulerDied", "abilityDied"}]
-------------------------------------------------------------------------------
(***************************************************************************)
(* The inductive invariant.  That a record is in one place (KnownOnce)     *)
(* rests on its state, which says what kind of place it can be in, and     *)
(* that no service is lost on what a manager may find in its own slot when *)
(* it terminates a record of its own that was eliminated (SlotFree): only  *)
(* OneInstance, at the moment of the Put, says that the slot is free, and  *)
(* serialMutex_ that it stays so.  A record that two managers end is told  *)
(* apart by the history variable raced; that both are watched rests on the *)
(* second time-out task being free when the second of them comes (RacedOK).*)
(***************************************************************************)
Typed == /\ env \in Environments
         /\ running \subseteq Users
         /\ serviceMap \in [Users -> [Keys -> Recs \cup {NoRec}]]
         /\ terminating \in [Users -> SUBSET Recs]
         /\ evicted \in [Users -> Recs \cup {NoRec}]
         /\ found \in [Users -> Recs \cup {NoRec}]
         /\ raced \subseteq Recs
         /\ rec \in [Recs -> RecordType]

\* A manager's map holds its own user's services, each under its key.
MapOwn == \A m \in Users, k \in Keys :
             serviceMap[m][k] # NoRec => Owner(serviceMap[m][k]) = m /\ Key(serviceMap[m][k]) = k

\* The state of a record says where it can be and what can be under way for it.
StatesOK ==
    \A r \in Recs :
        /\ InMap(Owner(r), r) \/ Cached(r) => rec[r].state = "ACTIVE"
        /\ \A m \in Users : /\ evicted[m] = r /\ r \notin raced => rec[r].state = "ACTIVE"
                            /\ r \in terminating[m] => rec[r].state = "TERMINATING"
        /\ rec[r].timer # NoUser \/ rec[r].again # NoUser => rec[r].state = "TERMINATING"
        /\ rec[r].link # "none" => InMap(Owner(r), r)
        /\ rec[r].state # "INITIAL" => r \in env.recs
        /\ rec[r].tasks # {} => rec[r].proc = "dead"

\* A record is in one place; terminating is told from the others by the state.
Apart ==
    \A r \in Recs :
        /\ ~(InMap(Owner(r), r) /\ Cached(r))
        /\ \A m \in Users : evicted[m] = r => ~Cached(r) /\ ~InMap(Owner(r), r)
        /\ \A m, n \in Users : /\ evicted[m] = r /\ evicted[n] = r => m = n
                               /\ r \in terminating[m] /\ r \in terminating[n] /\ r \notin raced
                                     => m = n

\* What a manager found in the cache is its own user's and still cached, unless
\* another manager eliminated it.
FoundOK ==
    \A u \in Users :
        found[u] # NoRec => /\ Owner(found[u]) = u /\ evicted[u] = NoRec
                            /\ found[u] \in raced \/ Cached(found[u])

\* A record that two managers end is out of service, was not ended by either while
\* both have still to do so, and has its second time-out task free until both did.
RacedOK ==
    \A r \in raced :
        /\ ~Cached(r) /\ ~InMap(Owner(r), r) /\ rec[r].state # "INITIAL"
        /\ found[Owner(r)] = r => rec[r].again = NoUser
        /\ \A m \in Users :
              evicted[m] = r => /\ rec[r].again = NoUser
                                /\ found[Owner(r)] = r => rec[r].state = "ACTIVE"

\* A manager that holds a record of its own user which the cache eliminated has
\* no other record of that service.
SlotFree == \A m \in Users :
               evicted[m] # NoRec /\ Owner(evicted[m]) = m => serviceMap[m][Key(evicted[m])] = NoRec

\* Only the users that StopUser stops are ever without their managers.
Served == Users \ env.stopped \subseteq running

\* A service that is running and was not told to end is in some place.
NotLost ==
    \A r \in Recs :
        rec[r].proc = "alive" /\ rec[r].state = "ACTIVE" /\ ~Shared(Key(r))
            => InMap(Owner(r), r) \/ Cached(r) \/ \E m \in Users : evicted[m] = r

Managers ==
    MapOwn /\ StatesOK /\ Apart /\ FoundOK /\ RacedOK /\ OneInstance /\ SlotFree /\ Served
Promises == EndIsWatched /\ NotLost /\ DeathHandled

IInv == Typed /\ P!IInv /\ Managers /\ Promises
-------------------------------------------------------------------------------
(* What the cache does, in terms of the set of its records.                *)

\* The services and limits of this module are as AbilityCache assumes.
LEMMA CacheAssumptions == P!RecAssumption /\ P!CapacityAssumption
<1>1. TokenOf \in [Recs -> Tokens] /\ NameOf \in [Recs -> Names]
  BY DEF TokenOf, NameOf, Tokens, Names, Recs, Owner, Key
<1> QED
  BY <1>1, ServiceAssumption DEF P!RecAssumption, P!CapacityAssumption

\* The application and the name under which a record is cached.
LEMMA CacheNames ==
    ASSUME NEW r \in Recs
    PROVE  /\ Owner(r) \in Users /\ Key(r) \in Keys
           /\ TokenOf[r] = <<Owner(r), AppOf[Key(r)]>> /\ NameOf[r] = Key(r)
BY DEF TokenOf, NameOf, Recs, Owner, Key

\* The operations of the cache are the ones AbilityCacheProofs is about.
LEMMA SamePut == \A r : C!Put(r) <=> P!Put(r)
BY DEF C!Put, C!PutFits, C!PutDevFull, C!PutProcFull, C!AddedToProc, C!Full, C!DevFull,
       C!Range, C!Erase, C!RemoveAt, P!Put, P!PutFits, P!PutDevFull, P!PutProcFull,
       P!AddedToProc, P!Full, P!DevFull, P!Range, P!Erase, P!RemoveAt

\* Removing a record is the same action in both instances of the cache.
LEMMA SameRemove == \A r : C!Remove(r) <=> P!Remove(r)
BY DEF C!Remove, C!RemoveAbilityRecInProcList, C!RemoveAbilityRecInDevList, C!Range, C!Erase,
       C!RemoveAt, P!Remove, P!RemoveAbilityRecInProcList, P!RemoveAbilityRecInDevList, P!Range,
       P!Erase, P!RemoveAt

\* So is taking a record out of it, and finding none.
LEMMA SameGet == \A t, n : (C!Get(t, n) <=> P!Get(t, n)) /\ (C!GetNothing(t, n) <=> P!GetNothing(t, n))
BY DEF C!Get, C!GetNothing, C!Matches, C!RemoveAbilityRecInDevList, C!Range, C!Erase, C!RemoveAt,
       P!Get, P!GetNothing, P!Matches, P!RemoveAbilityRecInDevList, P!Range, P!Erase, P!RemoveAt

\* The records of the cache as both instances write them.
LEMMA SameRange == \A s : C!Range(s) = P!Range(s)
BY DEF C!Range, P!Range

\* Put adds the record and takes out the one it returns, if any.
LEMMA CachePut ==
    ASSUME P!IInv, NEW r \in Recs, C!Put(r)
    PROVE  /\ P!IInv'
           /\ returned' = NoRec \/ (returned' \in Recs /\ Cached(returned') /\ returned' # r)
           /\ ~Cached(r)
           /\ \A q \in Recs : Cached(q)' <=> (Cached(q) /\ q # returned') \/ q = r
<1>1. P!Put(r) /\ r \notin P!Range(devRecLru)
  BY SamePut DEF P!Put
<1>2. P!IInv'
  BY <1>1, CacheAssumptions, P!NextIInv DEF P!Next
<1>3. devRecLru \in Seq(Recs) /\ P!NoDuplicates(devRecLru)
  BY DEF P!IInv, P!TypeOK, P!ListsAgree
<1>4. CASE P!PutFits(r)
  <2>1. devRecLru' = Append(devRecLru, r) /\ returned' = NoRec
    BY <1>4 DEF P!PutFits
  <2>2. P!Range(Append(devRecLru, r)) = P!Range(devRecLru) \cup {r}
    BY <1>1, <1>3, P!AppendFacts, CacheAssumptions
  <2> QED
    BY <1>1, <1>2, <2>1, <2>2, ServiceAssumption, SameRange DEF Cached
<1>5. ASSUME NEW e \in Recs, e \in P!Range(devRecLru), NEW d \in Seq(Recs),
             P!NoDuplicates(d), P!Range(d) = P!Range(devRecLru) \ {e},
             devRecLru' = Append(d, r), returned' = e
      PROVE  /\ returned' \in Recs /\ Cached(returned') /\ returned' # r
             /\ \A q \in Recs : Cached(q)' <=> (Cached(q) /\ q # returned') \/ q = r
  <2>1. P!Range(Append(d, r)) = P!Range(d) \cup {r}
    BY <1>1, <1>5, P!AppendFacts, CacheAssumptions
  <2> QED
    BY <1>1, <1>5, <2>1, SameRange DEF Cached
<1>6. CASE P!PutDevFull(r)
  <2>1. devRecLru' = Append(Tail(devRecLru), r) /\ returned' = Head(devRecLru)
    BY <1>6 DEF P!PutDevFull
  <2>2. devRecLru # <<>>
    BY <1>6, CacheAssumptions DEF P!PutDevFull, P!DevFull, P!IInv, P!CountsExact, P!TypeOK,
       P!CapacityAssumption
  <2>3. /\ Tail(devRecLru) \in Seq(Recs) /\ P!NoDuplicates(Tail(devRecLru))
        /\ P!Range(Tail(devRecLru)) = P!Range(devRecLru) \ {Head(devRecLru)}
        /\ Head(devRecLru) \in P!Range(devRecLru) /\ Head(devRecLru) \in Recs
    BY <1>3, <2>2, P!TailFacts, CacheAssumptions
  <2> QED
    BY <1>1, <1>2, <1>5, <2>1, <2>3, SameRange DEF Cached
<1>7. CASE P!PutProcFull(r)
  <2> DEFINE t == TokenOf[r]
             e == Head(recList[t])
  <2>1. devRecLru' = Append(P!Erase(devRecLru, e), r) /\ returned' = e
    BY <1>7 DEF P!PutProcFull
  <2>2. /\ t \in Tokens /\ recList[t] \in Seq(Recs) /\ P!NoDuplicates(recList[t])
        /\ P!Range(recList[t]) \subseteq P!Range(devRecLru)
    BY CacheAssumptions DEF P!RecAssumption, P!IInv, P!TypeOK, P!ListsAgree
  <2>3. recList[t] # <<>>
    <3>1. Len(recList[t]) = ProcCapacity /\ ProcCapacity # 0
      BY <1>7, <2>2, CacheAssumptions DEF P!PutProcFull, P!Full, P!IInv, P!CountsExact,
         P!CapacityAssumption
    <3> QED
      BY <3>1
  <2> HIDE DEF t
  <2>4. e \in P!Range(recList[t]) /\ e \in Recs
    BY <2>2, <2>3, P!TailFacts, CacheAssumptions
  <2>5. /\ P!Erase(devRecLru, e) \in Seq(Recs) /\ P!NoDuplicates(P!Erase(devRecLru, e))
        /\ P!Range(P!Erase(devRecLru, e)) = P!Range(devRecLru) \ {e}
    BY <1>3, P!EraseFacts, CacheAssumptions
  <2> HIDE DEF e
  <2> QED
    BY <1>1, <1>2, <1>5, <2>1, <2>2, <2>4, <2>5, SameRange DEF Cached
<1> QED
  BY <1>1, <1>4, <1>6, <1>7 DEF P!Put

\* Remove takes out the record, if it is there.
LEMMA CacheRemove ==
    ASSUME P!IInv, NEW r \in Recs, C!Remove(r)
    PROVE  P!IInv' /\ \A q \in Recs : Cached(q)' <=> Cached(q) /\ q # r
<1>1. P!Remove(r) /\ devRecLru' = P!Erase(devRecLru, r)
  BY SameRemove DEF P!Remove, P!RemoveAbilityRecInDevList
<1>2. P!IInv'
  BY <1>1, CacheAssumptions, P!NextIInv DEF P!Next
<1>3. devRecLru \in Seq(Recs) /\ P!NoDuplicates(devRecLru)
  BY DEF P!IInv, P!TypeOK, P!ListsAgree
<1>4. P!Range(P!Erase(devRecLru, r)) = P!Range(devRecLru) \ {r}
  BY <1>3, P!EraseFacts, CacheAssumptions
<1> QED
  BY <1>1, <1>2, <1>4, SameRange DEF Cached

\* Get takes out a record of the user and the service that are asked for.
LEMMA CacheGet ==
    ASSUME P!IInv, NEW u \in Users, NEW k \in Keys, C!Get(<<u, AppOf[k]>>, k)
    PROVE  /\ P!IInv'
           /\ returned' \in Recs /\ Cached(returned')
           /\ Owner(returned') = u /\ Key(returned') = k
           /\ \A q \in Recs : Cached(q)' <=> Cached(q) /\ q # returned'
<1> DEFINE t == <<u, AppOf[k]>>
<1>1. P!Get(t, k) /\ t \in Tokens /\ k \in Names
  BY SameGet DEF Tokens, Names
<1>2. P!IInv'
  BY <1>1, CacheAssumptions, P!NextIInv DEF P!Next
<1>3. PICK r \in P!Matches(t, k) : P!RemoveAbilityRecInDevList(r) /\ returned' = r
  BY <1>1 DEF P!Get
<1>4. devRecLru \in Seq(Recs) /\ P!NoDuplicates(devRecLru)
  BY DEF P!IInv, P!TypeOK, P!ListsAgree
<1>5. r \in Recs /\ r \in P!Range(recList[t]) /\ NameOf[r] = k
  BY DEF P!Matches, P!Range
<1>6. r \in P!Range(devRecLru) /\ TokenOf[r] = t
  BY <1>1, <1>5 DEF P!IInv, P!ListsAgree
<1>7. Owner(r) = u /\ Key(r) = k
  BY <1>5, <1>6, CacheNames
<1>8. P!Range(P!Erase(devRecLru, r)) = P!Range(devRecLru) \ {r}
  BY <1>4, P!EraseFacts, CacheAssumptions
<1>9. devRecLru' = P!Erase(devRecLru, r)
  BY <1>3 DEF P!RemoveAbilityRecInDevList
<1> QED
  BY <1>2, <1>3, <1>5, <1>6, <1>7, <1>8, <1>9, SameRange DEF Cached

\* Get returns nothing only if no record of the user and the service is cached.
LEMMA CacheGetNothing ==
    ASSUME P!IInv, NEW u \in Users, NEW k \in Keys, C!GetNothing(<<u, AppOf[k]>>, k)
    PROVE  /\ P!IInv'
           /\ \A q \in Recs : Cached(q)' <=> Cached(q)
           /\ \A q \in Recs : Cached(q) => ~(Owner(q) = u /\ Key(q) = k)
<1> DEFINE t == <<u, AppOf[k]>>
<1>1. P!GetNothing(t, k) /\ t \in Tokens /\ k \in Names
  BY SameGet DEF Tokens, Names
<1>2. P!IInv'
  BY <1>1, CacheAssumptions, P!NextIInv DEF P!Next
<1>3. devRecLru' = devRecLru
  BY <1>1 DEF P!GetNothing
<1>4. \A q \in P!Range(recList[t]) : NameOf[q] # k
  BY <1>1, CacheAssumptions, P!NothingFound
<1>5. ASSUME NEW q \in Recs, Cached(q), Owner(q) = u, Key(q) = k
      PROVE  FALSE
  <2>1. TokenOf[q] = t /\ NameOf[q] = k
    BY <1>5, CacheNames
  <2>2. q \in P!Range(devRecLru)
    BY <1>5, SameRange DEF Cached
  <2>3. q \in P!Range(recList[t])
    BY <1>1, <2>1, <2>2 DEF P!IInv, P!ListsAgree
  <2> QED
    BY <1>4, <2>1, <2>3
<1> QED
  BY <1>2, <1>3, <1>5, SameRange DEF Cached

\* Steps that leave the cache alone.
LEMMA CacheStays ==
    ASSUME IInv, UNCHANGED cache
    PROVE  P!IInv' /\ \A q \in Recs : Cached(q)' <=> Cached(q)
BY P!NextIInv, CacheAssumptions DEF IInv, cache, P!vars, Cached
-------------------------------------------------------------------------------
(* The shapes of the managers' steps.                                      *)

\* Manager m, which is to end the record r, takes it to its terminating list and
\* watches it: a record of its own that is in service or in the cache, one that it
\* found in the cache, or one that was eliminated for it.
Ends(m, r) ==
    /\ \/ Owner(r) = m /\ (InMap(m, r) \/ Cached(r))
       \/ evicted[m] = r
       \/ found[m] = r
    /\ \A n \in Users, k \in Keys :
          serviceMap'[n][k] = IF serviceMap[n][k] = r THEN NoRec ELSE serviceMap[n][k]
    /\ \A n \in Users : terminating'[n] = IF n = m THEN terminating[n] \cup {r} ELSE terminating[n]
    /\ \A n \in Users : /\ evicted'[n] = IF n = m THEN NoRec ELSE evicted[n]
                        /\ found'[n] = IF n = m THEN NoRec ELSE found[n]
    /\ \A q \in Recs : Cached(q)' <=> Cached(q) /\ q # r
    /\ rec'[r].link = "none" /\ rec'[r].state = "TERMINATING"
    /\ rec'[r].timer = IF rec[r].timer = NoUser THEN m ELSE rec[r].timer
    /\ rec'[r].again = IF rec[r].timer = NoUser THEN rec[r].again ELSE m
    /\ rec'[r].tasks = rec[r].tasks /\ rec'[r].proc = rec[r].proc
    /\ \A q \in Recs : q # r => rec'[q] = rec[q]
    /\ evicted[m] \in {r, NoRec} /\ found[m] \in {r, NoRec}
    /\ UNCHANGED <<env, running, raced>>

\* A step of that shape keeps the inductive invariant, whichever manager m takes it.
LEMMA EndsKeeps ==
    ASSUME IInv, NEW m \in Users, NEW r \in Recs, Ends(m, r), Typed', P!IInv'
    PROVE  IInv'
<1>1. NoRec \notin Recs /\ NoUser \notin Users
  BY ServiceAssumption
<1>2. \A q \in Recs : Owner(q) \in Users /\ Key(q) \in Keys
  BY CacheNames
<1>3. /\ \/ Owner(r) = m /\ (InMap(m, r) \/ Cached(r))
         \/ evicted[m] = r
         \/ found[m] = r
      /\ evicted[m] \in {r, NoRec} /\ found[m] \in {r, NoRec}
      /\ raced' = raced /\ env' = env /\ running' = running
      /\ \A q \in Recs : Cached(q)' <=> Cached(q) /\ q # r
      /\ \A q \in Recs : q # r => rec'[q] = rec[q]
  BY DEF Ends
<1>4. \A q \in Recs : InMap(Owner(q), q)' <=> InMap(Owner(q), q) /\ q # r
  BY <1>1, <1>2 DEF Ends, InMap
<1>5. /\ \A n \in Users, q \in Recs : evicted'[n] = q <=> evicted[n] = q /\ n # m
      /\ \A n \in Users, q \in Recs : found'[n] = q <=> found[n] = q /\ n # m
      /\ \A n \in Users : evicted[n] = NoRec => evicted'[n] = NoRec
  BY <1>1 DEF Ends
<1>6. \A n \in Users, q \in Recs : q \in terminating'[n] <=> q \in terminating[n] \/ (q = r /\ n = m)
  <2>1. \A n \in Users :
           terminating'[n] = IF n = m THEN terminating[n] \cup {r} ELSE terminating[n]
    BY DEF Ends
  <2>2. \A n \in Users : n # m => terminating'[n] = terminating[n]
    BY <2>1
  <2>3. terminating'[m] = terminating[m] \cup {r}
    BY <2>1
  <2> QED
    BY ONLY <2>2, <2>3, m \in Users
<1>7. \A n \in Users :
         found[n] = r => Owner(r) = n /\ evicted[n] = NoRec /\ (r \in raced \/ Cached(r))
  BY <1>1 DEF IInv, Managers, FoundOK
<1>8. r \notin raced => /\ rec[r].state = "ACTIVE"
                        /\ \A n \in Users : /\ r \notin terminating[n]
                                            /\ evicted'[n] # r /\ found'[n] # r
  <2> SUFFICES ASSUME r \notin raced
               PROVE  /\ rec[r].state = "ACTIVE"
                      /\ \A n \in Users : /\ r \notin terminating[n]
                                          /\ evicted'[n] # r /\ found'[n] # r
    OBVIOUS
  <2>1. rec[r].state = "ACTIVE"
    BY <1>3, <1>7 DEF IInv, Managers, StatesOK
  <2>2. \A n \in Users : r \notin terminating[n]
    BY <2>1 DEF IInv, Managers, StatesOK
  <2>3. \A n \in Users : evicted[n] = r => n = m
    BY <1>3, <1>7 DEF IInv, Managers, Apart
  <2>4. \A n \in Users : found[n] = r => n = m
    BY <1>3, <1>7 DEF IInv, Managers, Apart
  <2> QED
    BY <1>5, <2>1, <2>2, <2>3, <2>4
<1>9. r \in raced => /\ evicted[m] = r \/ found[m] = r
                     /\ rec[r].state # "INITIAL" /\ rec[r].again = NoUser
  BY <1>2, <1>3, <1>7 DEF IInv, Managers, RacedOK
<1>10. MapOwn'
  BY DEF IInv, Managers, MapOwn, Ends
<1>11. StatesOK'
  <2>1. ASSUME NEW q \in Recs, q # r
        PROVE  /\ rec'[q] = rec[q] /\ (Cached(q)' <=> Cached(q)) /\ env' = env /\ raced' = raced
               /\ InMap(Owner(q), q)' <=> InMap(Owner(q), q)
               /\ \A n \in Users : /\ evicted'[n] = q => evicted[n] = q
                                   /\ q \in terminating'[n] <=> q \in terminating[n]
    BY <1>3, <1>4, <1>5, <1>6, <2>1
  <2>2. /\ ~Cached(r)' /\ ~InMap(Owner(r), r)' /\ raced' = raced
        /\ rec'[r].link = "none" /\ rec'[r].state = "TERMINATING" /\ rec'[r].tasks = rec[r].tasks
        /\ rec'[r].proc = rec[r].proc /\ env' = env
    BY <1>3, <1>4 DEF Ends
  <2>3. rec[r].tasks # {} => rec[r].proc = "dead"
    BY DEF IInv, Managers, StatesOK
  <2>4. r \in env.recs
    BY <1>8, <1>9 DEF IInv, Managers, StatesOK
  <2> QED
    BY <1>8, <2>1, <2>2, <2>3, <2>4 DEF IInv, Managers, StatesOK
<1>12. Apart'
  BY <1>3, <1>4, <1>5, <1>6, <1>8 DEF IInv, Managers, Apart
<1>13. FoundOK'
  <2> SUFFICES ASSUME NEW u \in Users, found'[u] # NoRec
               PROVE  /\ Owner(found'[u]) = u /\ evicted'[u] = NoRec
                      /\ found'[u] \in raced' \/ Cached(found[u])'
    BY DEF FoundOK
  <2>1. u # m /\ found'[u] = found[u] /\ found[u] \in Recs
    BY <1>1 DEF Ends, IInv, Typed
  <2>2. Owner(found[u]) = u /\ evicted[u] = NoRec /\ (found[u] \in raced \/ Cached(found[u]))
    BY <2>1 DEF IInv, Managers, FoundOK
  <2> DEFINE f == found[u]
  <2>3. f = r => r \in raced
    BY <1>5, <1>8, <2>1
  <2>4. f \in raced \/ (Cached(f) /\ f # r)
    BY <2>2, <2>3
  <2>5. Cached(f)' <=> f \in C!Range(devRecLru')
    BY <2>1 DEF Cached
  <2>6. \A q \in Recs : q \in C!Range(devRecLru') <=> Cached(q) /\ q # r
    BY <1>3 DEF Cached
  <2> QED
    BY <1>3, <1>5, <2>1, <2>2, <2>4, <2>6 DEF Cached
<1>14. RacedOK'
  <2> SUFFICES ASSUME NEW q \in raced
               PROVE  /\ ~Cached(q)' /\ ~InMap(Owner(q), q)' /\ rec'[q].state # "INITIAL"
                      /\ found'[Owner(q)] = q => rec'[q].again = NoUser
                      /\ \A n \in Users :
                            evicted'[n] = q => /\ rec'[q].again = NoUser
                                               /\ found'[Owner(q)] = q => rec'[q].state = "ACTIVE"
    BY <1>3 DEF RacedOK
  <2>1. q \in Recs /\ Owner(q) \in Users
    BY <1>2 DEF IInv, Typed
  <2>2. ~Cached(q)' /\ ~InMap(Owner(q), q)'
    BY <1>3, <1>4, <2>1 DEF IInv, Managers, RacedOK
  <2>3. CASE q # r
    BY <1>3, <1>5, <2>1, <2>2, <2>3 DEF IInv, Managers, RacedOK
  <2>4. CASE q = r
    <3>1. rec'[r].state = "TERMINATING"
      BY DEF Ends
    <3>2. rec[r].state = "ACTIVE" => rec[r].timer = NoUser
      BY DEF IInv, Managers, StatesOK
    <3>3. rec[r].state = "ACTIVE" => rec'[r].again = NoUser
      BY <1>9, <2>4, <3>2 DEF Ends
    <3>4. ASSUME found'[Owner(r)] = r
          PROVE  rec[r].state = "ACTIVE" /\ \A n \in Users : evicted'[n] # r
      <4>1. found[Owner(r)] = r /\ Owner(r) # m
        BY <1>5, <2>1, <2>4, <3>4
      <4>2. evicted[m] = r
        BY <1>7, <1>9, <2>4, <4>1
      <4> QED
        BY <1>5, <2>4, <4>1, <4>2 DEF IInv, Managers, RacedOK, Apart
    <3>5. ASSUME NEW n \in Users, evicted'[n] = r
          PROVE  rec[r].state = "ACTIVE"
      <4>1. evicted[n] = r /\ n # m
        BY <1>5, <3>5
      <4>2. found[m] = r
        BY <1>9, <2>4, <4>1 DEF IInv, Managers, Apart
      <4>3. found[Owner(r)] = r
        BY <1>7, <4>2
      <4> QED
        BY <2>4, <4>1, <4>3 DEF IInv, Managers, RacedOK
    <3> QED
      BY <2>2, <2>4, <3>1, <3>3, <3>4, <3>5
  <2> QED
    BY <2>3, <2>4
<1>15. OneInstance'
  BY <1>2, <1>4 DEF IInv, Managers, OneInstance, Ends
<1>16. SlotFree'
  BY <1>1, <1>2 DEF IInv, Typed, Managers, SlotFree, Ends
<1>17. Served'
  BY <1>3 DEF IInv, Managers, Served
<1>18. EndIsWatched'
  <2> SUFFICES ASSUME NEW q \in Recs, NEW n \in Users, q \in terminating'[n]
               PROVE  n \in {rec'[q].timer, rec'[q].again} \/ rec'[q].proc = "dead"
    BY DEF EndIsWatched
  <2>1. CASE q # r
    BY <1>3, <1>6, <2>1 DEF IInv, Promises, EndIsWatched
  <2>2. CASE q = r /\ n = m
    BY <2>2 DEF Ends
  <2>3. CASE q = r /\ n # m
    <3>1. r \in terminating[n]
      BY <1>6, <2>3
    <3>2. n \in {rec[r].timer, rec[r].again} \/ rec[r].proc = "dead"
      BY <3>1 DEF IInv, Promises, EndIsWatched
    <3>3. rec[r].again = NoUser
      BY <1>8, <1>9, <3>1
    <3> QED
      BY <1>1, <2>3, <3>2, <3>3 DEF Ends
  <2> QED
    BY <2>1, <2>2, <2>3
<1>19. NotLost'
  <2>1. \A k : Shared(k)' <=> Shared(k)
    BY <1>3 DEF Shared
  <2>2. rec'[r].state = "TERMINATING"
    BY DEF Ends
  <2>3. \A n \in Users, q \in Recs : q # r => (evicted'[n] = q <=> evicted[n] = q)
    BY <1>1, <1>3, <1>5
  <2> QED
    BY <1>3, <1>4, <2>1, <2>2, <2>3 DEF IInv, Promises, NotLost
<1>20. DeathHandled'
  BY <1>3, <1>4 DEF IInv, Promises, DeathHandled
<1> QED
  BY <1>10, <1>11, <1>12, <1>13, <1>14, <1>15, <1>16, <1>17, <1>18, <1>19, <1>20
     DEF IInv, Managers, Promises

\* Only the record r itself changes, and no list gets longer.
Advances(r) ==
    /\ UNCHANGED <<env, running, serviceMap, evicted, found, raced>>
    /\ \A n \in Users : terminating'[n] \subseteq terminating[n]
    /\ \A q \in Recs : Cached(q)' <=> Cached(q)
    /\ rec'[r].state = rec[r].state
    /\ rec'[r].timer \in {rec[r].timer, NoUser} /\ rec'[r].again \in {rec[r].again, NoUser}
    /\ \/ rec'[r].timer = rec[r].timer /\ rec'[r].again = rec[r].again
       \/ rec'[r].proc = "dead"
    /\ rec'[r].link # "none" => rec[r].link # "none"
    /\ rec'[r].tasks # {} => rec'[r].proc = "dead"
    /\ rec'[r].proc # rec[r].proc => rec'[r].proc = "dead"
    /\ rec'[r].proc = "dead" /\ (Cached(r) \/ InMap(Owner(r), r)) /\ Owner(r) \notin env.stopped
          => rec'[r].tasks # {}
    /\ \A q \in Recs : q # r => rec'[q] = rec[q]

\* A step that changes one record only, and forgets no death, keeps it.
LEMMA AdvancesKeeps ==
    ASSUME IInv, NEW r \in Recs, Advances(r), Typed', P!IInv'
    PROVE  IInv'
<1>1. \A q \in Recs : InMap(Owner(q), q)' <=> InMap(Owner(q), q)
  BY DEF Advances, InMap
<1>2. MapOwn' /\ SlotFree' /\ Served'
  BY DEF IInv, Managers, MapOwn, SlotFree, Served, Advances
<1>3. StatesOK'
  BY <1>1 DEF IInv, Managers, StatesOK, Advances
<1>4. Apart' /\ OneInstance'
  BY <1>1 DEF IInv, Managers, Apart, OneInstance, Advances
<1>5. FoundOK' /\ RacedOK'
  <2>1. /\ evicted' = evicted /\ found' = found /\ raced' = raced /\ raced \subseteq Recs
        /\ \A q \in Recs : Cached(q)' <=> Cached(q)
        /\ \A q \in Recs : /\ rec'[q].state = rec[q].state
                           /\ rec[q].again = NoUser => rec'[q].again = NoUser
    BY DEF Advances, IInv, Typed
  <2>2. FoundOK'
    BY <2>1 DEF IInv, Typed, Managers, FoundOK, Cached
  <2>3. RacedOK'
    BY <1>1, <2>1 DEF IInv, Managers, RacedOK
  <2> QED
    BY <2>2, <2>3
<1>6. EndIsWatched'
  BY DEF IInv, Promises, EndIsWatched, Advances
<1>7. NotLost' /\ DeathHandled'
  BY <1>1 DEF IInv, Promises, NotLost, DeathHandled, Shared, Advances
<1> QED
  BY <1>2, <1>3, <1>4, <1>5, <1>6, <1>7 DEF IInv, Managers, Promises
-------------------------------------------------------------------------------
(* The steps.                                                              *)

\* AbilityRecord::Terminate leaves a record, with the process it had.
LEMMA TerminateFields ==
    ASSUME NEW x \in RecordType, NEW m \in Users
    PROVE  /\ Terminate(x, m) \in RecordType
           /\ Terminate(x, m).link = "none" /\ Terminate(x, m).state = "TERMINATING"
           /\ Terminate(x, m).timer = IF x.timer = NoUser THEN m ELSE x.timer
           /\ Terminate(x, m).again = IF x.timer = NoUser THEN x.again ELSE m
           /\ Terminate(x, m).tasks = x.tasks /\ Terminate(x, m).proc = x.proc
BY DEF Terminate, RecordType

\* TerminateRecord by the manager of the record's user: of a record that is in its
\* map or in the cache, or of one it found there.
LEMMA TerminateRecordKeeps ==
    ASSUME IInv, NEW m \in Users, NEW r \in Recs,
           \/ Owner(r) = m /\ found[m] = NoRec /\ (InMap(m, r) \/ Cached(r))
           \/ found[m] = r,
           evicted[m] = NoRec,
           TerminateRecord(m, r, rec[r]), found' = [found EXCEPT ![m] = NoRec]
    PROVE  IInv'
<1>1. Owner(r) = m /\ Key(r) \in Keys /\ NoRec \notin Recs
  BY CacheNames, ServiceAssumption DEF IInv, Managers, FoundOK
<1>2. P!IInv' /\ \A q \in Recs : Cached(q)' <=> Cached(q) /\ q # r
  BY CacheRemove DEF IInv, TerminateRecord
<1>3. /\ serviceMap' = Erase(m, r)
      /\ terminating' = [terminating EXCEPT ![m] = terminating[m] \cup {r}]
      /\ rec' = [rec EXCEPT ![r] = Terminate(rec[r], m)]
      /\ UNCHANGED <<env, running, evicted, raced>>
  BY DEF TerminateRecord
<1>4. \A n \in Users, k \in Keys :
         serviceMap'[n][k] = IF serviceMap[n][k] = r THEN NoRec ELSE serviceMap[n][k]
  BY <1>1, <1>3 DEF Erase, InMap, IInv, Typed, Managers, MapOwn
<1>5. Terminate(rec[r], m) \in RecordType
  BY TerminateFields DEF IInv, Typed
<1>6. Typed'
  <2>1. serviceMap' \in [Users -> [Keys -> Recs \cup {NoRec}]]
    BY <1>1, <1>3 DEF IInv, Typed, Erase
  <2>2. terminating' \in [Users -> SUBSET Recs]
    BY <1>3 DEF IInv, Typed
  <2>3. rec' \in [Recs -> RecordType]
    BY <1>3, <1>5 DEF IInv, Typed
  <2>4. found' \in [Users -> Recs \cup {NoRec}]
    BY DEF IInv, Typed
  <2> QED
    BY <1>3, <2>1, <2>2, <2>3, <2>4 DEF IInv, Typed
<1>7. rec' = [rec EXCEPT ![r] = Terminate(rec[r], m)] /\ rec[r] \in RecordType
  BY <1>3 DEF IInv, Typed
<1>8. /\ rec'[r] = Terminate(rec[r], m)
      /\ \A q \in Recs : q # r => rec'[q] = rec[q]
  BY <1>7 DEF IInv, Typed
<1>9. /\ rec'[r].link = "none" /\ rec'[r].state = "TERMINATING"
      /\ rec'[r].timer = IF rec[r].timer = NoUser THEN m ELSE rec[r].timer
      /\ rec'[r].again = IF rec[r].timer = NoUser THEN rec[r].again ELSE m
      /\ rec'[r].tasks = rec[r].tasks /\ rec'[r].proc = rec[r].proc
  BY <1>7, <1>8, TerminateFields
<1>10. \A n \in Users :
          terminating'[n] = IF n = m THEN terminating[n] \cup {r} ELSE terminating[n]
  BY <1>3 DEF IInv, Typed
<1>11. \A n \in Users : /\ evicted'[n] = IF n = m THEN NoRec ELSE evicted[n]
                        /\ found'[n] = IF n = m THEN NoRec ELSE found[n]
  BY <1>3 DEF IInv, Typed
<1>12. Ends(m, r)
  BY <1>1, <1>2, <1>3, <1>4, <1>8, <1>9, <1>10, <1>11 DEF Ends
<1> QED
  BY <1>2, <1>6, <1>12, EndsKeeps

\* A manager that found nothing in the cache has nothing to forget.
LEMMA NothingFound ==
    ASSUME IInv, NEW m \in Users, found[m] = NoRec, UNCHANGED found
    PROVE  found' = [found EXCEPT ![m] = NoRec]
BY DEF IInv, Typed

\* Every record that has a client is in service, so the timer and the service
\* itself end a record that is in the map, or in the cache.
LEMMA HandleConnectTimeoutTaskKeeps ==
    ASSUME IInv, NEW r \in Recs, HandleConnectTimeoutTask(r)
    PROVE  IInv'
<1>1. InMap(Owner(r), r)
  BY DEF IInv, Managers, StatesOK, HandleConnectTimeoutTask
<1> QED
  BY <1>1, TerminateRecordKeeps, NothingFound, CacheNames DEF HandleConnectTimeoutTask, Free

\* A terminate request ends its record like the other requests do, or finds it in
\* the cache.
LEMMA TerminateAbilityKeeps ==
    ASSUME IInv, NEW r \in Recs, TerminateAbility(r)
    PROVE  IInv'
<1> DEFINE u == Owner(r)
<1>1. u \in Users /\ evicted[u] = NoRec /\ found[u] = NoRec
  BY CacheNames DEF TerminateAbility, Free
<1>2. CASE InMap(u, r)
  <2>1. TerminateRecord(u, r, rec[r]) /\ UNCHANGED found
    BY <1>2 DEF TerminateAbility
  <2> QED
    BY <1>1, <1>2, <2>1, NothingFound, TerminateRecordKeeps
<1>3. CASE ~InMap(u, r)
  <2>1. /\ Cached(r) /\ found' = [found EXCEPT ![u] = r]
        /\ UNCHANGED <<env, running, serviceMap, terminating, evicted, rec, raced, cache>>
    BY <1>3 DEF TerminateAbility
  <2>2. P!IInv' /\ \A q \in Recs : Cached(q)' <=> Cached(q)
    BY <2>1, CacheStays
  <2>3. \A q \in Recs : InMap(Owner(q), q)' <=> InMap(Owner(q), q)
    BY <2>1 DEF InMap
  <2>4. /\ found'[u] = r /\ found' \in [Users -> Recs \cup {NoRec}]
        /\ \A n \in Users : n # u => found'[n] = found[n]
    BY <1>1, <2>1 DEF IInv, Typed
  <2>5. Typed'
    BY <2>1, <2>4 DEF IInv, Typed
  <2>6. r \notin raced
    BY <2>1 DEF IInv, Managers, RacedOK
  <2>7. MapOwn' /\ StatesOK' /\ Apart' /\ OneInstance' /\ SlotFree' /\ Served'
    BY <2>1, <2>2, <2>3
       DEF IInv, Managers, MapOwn, StatesOK, Apart, OneInstance, SlotFree, Served
  <2>8. FoundOK'
    <3>1. devRecLru' = devRecLru
      BY <2>1 DEF cache
    <3> QED
      BY <1>1, <2>1, <2>4, <3>1 DEF IInv, Managers, FoundOK, Cached
  <2>9. RacedOK'
    <3>1. \A q \in raced : q \in Recs /\ q # r
      BY <2>6 DEF IInv, Typed
    <3>2. \A q \in raced : found'[Owner(q)] = q => found[Owner(q)] = q
      BY <2>4, <3>1, CacheNames
    <3> QED
      BY <2>1, <2>2, <2>3, <3>1, <3>2 DEF IInv, Managers, RacedOK
  <2>10. Promises'
    BY <2>1, <2>2, <2>3 DEF IInv, Promises, EndIsWatched, NotLost, DeathHandled, Shared
  <2> QED
    BY <2>2, <2>5, <2>7, <2>8, <2>9, <2>10 DEF IInv, Managers
<1> QED
  BY <1>2, <1>3

\* What a manager found it ends, although another may have eliminated it meanwhile.
LEMMA TerminateFoundKeeps ==
    ASSUME IInv, NEW u \in Users, TerminateFound(u)
    PROVE  IInv'
<1> DEFINE r == found[u]
<1>1. /\ r \in Recs /\ found[u] = r /\ evicted[u] = NoRec
      /\ TerminateRecord(u, r, rec[r]) /\ found' = [found EXCEPT ![u] = NoRec]
  BY DEF IInv, Typed, Managers, FoundOK, TerminateFound
<1> HIDE DEF r
<1> QED
  BY <1>1, TerminateRecordKeeps

\* StopServiceAbilityLocked ends the record in service, or the cached one.
LEMMA StopServiceAbilityLockedKeeps ==
    ASSUME IInv, NEW u \in Users, NEW k \in Keys, StopServiceAbilityLocked(u, k)
    PROVE  IInv'
<1> USE DEF Free
<1>0. evicted[u] = NoRec /\ found[u] = NoRec /\ found' = found
  BY DEF StopServiceAbilityLocked
<1>1. CASE serviceMap[u][k] # NoRec
  <2> DEFINE r == serviceMap[u][k]
  <2>1. r \in Recs /\ Owner(r) = u /\ Key(r) = k
    BY <1>1 DEF IInv, Typed, Managers, MapOwn
  <2>2. TerminateRecord(u, r, rec[r])
    BY <1>1 DEF StopServiceAbilityLocked
  <2>3. InMap(Owner(r), r)
    BY <2>1 DEF InMap
  <2> HIDE DEF r
  <2> QED
    BY <1>0, <2>1, <2>2, <2>3, NothingFound, TerminateRecordKeeps
<1>2. CASE serviceMap[u][k] = NoRec
  <2> DEFINE r == returned'
  <2>1. /\ C!Get(<<u, AppOf[k]>>, k)
        /\ terminating' = [terminating EXCEPT ![u] = terminating[u] \cup {r}]
        /\ rec' = [rec EXCEPT ![r] = Terminate(rec[r], u)]
        /\ UNCHANGED <<env, running, serviceMap, evicted, raced>>
    BY <1>2 DEF StopServiceAbilityLocked
  <2>2. /\ P!IInv' /\ r \in Recs /\ Cached(r) /\ Owner(r) = u /\ Key(r) = k
        /\ \A q \in Recs : Cached(q)' <=> Cached(q) /\ q # r
    BY <2>1, CacheGet DEF IInv
  <2> HIDE DEF r
  <2>3. \A n \in Users, j \in Keys : serviceMap[n][j] # r
    BY <1>2, <2>2, ServiceAssumption DEF IInv, Managers, MapOwn
  <2>4. Terminate(rec[r], u) \in RecordType
    BY <2>2, TerminateFields DEF IInv, Typed
  <2>5. Typed'
    <3>1. terminating' \in [Users -> SUBSET Recs]
      BY <2>1, <2>2 DEF IInv, Typed
    <3>2. rec' \in [Recs -> RecordType]
      BY <2>1, <2>2, <2>4 DEF IInv, Typed
    <3> QED
      BY <1>0, <2>1, <3>1, <3>2 DEF IInv, Typed
  <2>6. /\ rec'[r] = Terminate(rec[r], u) /\ rec[r] \in RecordType
        /\ \A q \in Recs : q # r => rec'[q] = rec[q]
    BY <2>1, <2>2 DEF IInv, Typed
  <2>7. \A n \in Users : terminating'[n] = IF n = u THEN terminating[n] \cup {r} ELSE terminating[n]
    BY <2>1 DEF IInv, Typed
  <2>8. /\ rec'[r].link = "none" /\ rec'[r].state = "TERMINATING"
        /\ rec'[r].timer = IF rec[r].timer = NoUser THEN u ELSE rec[r].timer
        /\ rec'[r].again = IF rec[r].timer = NoUser THEN rec[r].again ELSE u
        /\ rec'[r].tasks = rec[r].tasks /\ rec'[r].proc = rec[r].proc
    BY <2>6, TerminateFields
  <2>9. \A n \in Users : /\ evicted'[n] = IF n = u THEN NoRec ELSE evicted[n]
                         /\ found'[n] = IF n = u THEN NoRec ELSE found[n]
    BY <1>0, <2>1
  <2>10. \A n \in Users, j \in Keys :
            serviceMap'[n][j] = IF serviceMap[n][j] = r THEN NoRec ELSE serviceMap[n][j]
    BY <2>1, <2>3
  <2>11. Ends(u, r)
    BY <1>0, <2>1, <2>2, <2>6, <2>7, <2>8, <2>9, <2>10 DEF Ends
  <2> QED
    BY <2>2, <2>5, <2>11, EndsKeeps
<1> QED
  BY <1>1, <1>2

\* A manager ends the record that the cache eliminated for it; if its own slot
\* for the service is taken, the record is of another user, who shares the key.
LEMMA ProcessEliminateAbilityRecordKeeps ==
    ASSUME IInv, NEW m \in Users, ProcessEliminateAbilityRecord(m)
    PROVE  IInv'
<1> DEFINE e == evicted[m]
<1>1. /\ e \in Recs /\ evicted' = [evicted EXCEPT ![m] = NoRec]
      /\ UNCHANGED <<env, running, serviceMap, found, raced>>
  BY DEF IInv, Typed, ProcessEliminateAbilityRecord
<1>2. Owner(e) \in Users /\ Key(e) \in Keys /\ NoRec \notin Recs
  BY <1>1, CacheNames, ServiceAssumption
<1>3. /\ \A n \in Users : evicted'[n] = IF n = m THEN NoRec ELSE evicted[n]
      /\ evicted' \in [Users -> Recs \cup {NoRec}]
  BY <1>1 DEF IInv, Typed
<1>4. ~Cached(e) /\ ~InMap(Owner(e), e) /\ evicted[m] = e /\ found[m] = NoRec
  BY <1>1, <1>2 DEF IInv, Managers, Apart, FoundOK
<1> HIDE DEF e
<1>5. CASE serviceMap[m][Key(e)] = NoRec
  <2>1. /\ terminating' = [terminating EXCEPT ![m] = terminating[m] \cup {e}]
        /\ rec' = [rec EXCEPT ![e] = Terminate(rec[e], m)]
        /\ C!Remove(e)
    BY <1>5 DEF ProcessEliminateAbilityRecord, e
  <2>2. P!IInv' /\ \A q \in Recs : Cached(q)' <=> Cached(q) /\ q # e
    BY <1>1, <2>1, CacheRemove DEF IInv
  <2>3. \A n \in Users, j \in Keys : serviceMap[n][j] # e
    BY <1>1, <1>2, <1>4 DEF IInv, Managers, MapOwn, InMap
  <2>4. Typed'
    <3>1. terminating' \in [Users -> SUBSET Recs]
      BY <1>1, <2>1 DEF IInv, Typed
    <3>2. rec' \in [Recs -> RecordType]
      BY <1>1, <2>1, TerminateFields DEF IInv, Typed
    <3> QED
      BY <1>1, <1>3, <3>1, <3>2 DEF IInv, Typed
  <2>5. /\ rec'[e] = Terminate(rec[e], m) /\ rec[e] \in RecordType
        /\ \A q \in Recs : q # e => rec'[q] = rec[q]
    BY <1>1, <2>1 DEF IInv, Typed
  <2>6. \A n \in Users : terminating'[n] = IF n = m THEN terminating[n] \cup {e} ELSE terminating[n]
    BY <2>1 DEF IInv, Typed
  <2>7. /\ rec'[e].link = "none" /\ rec'[e].state = "TERMINATING"
        /\ rec'[e].timer = IF rec[e].timer = NoUser THEN m ELSE rec[e].timer
        /\ rec'[e].again = IF rec[e].timer = NoUser THEN rec[e].again ELSE m
        /\ rec'[e].tasks = rec[e].tasks /\ rec'[e].proc = rec[e].proc
    BY <2>5, TerminateFields
  <2>8. \A n \in Users : found'[n] = IF n = m THEN NoRec ELSE found[n]
    BY <1>1, <1>4
  <2>9. \A n \in Users, j \in Keys :
           serviceMap'[n][j] = IF serviceMap[n][j] = e THEN NoRec ELSE serviceMap[n][j]
    BY <1>1, <2>3
  <2>10. Ends(m, e)
    BY <1>1, <1>3, <1>4, <2>2, <2>5, <2>6, <2>7, <2>8, <2>9 DEF Ends
  <2> QED
    BY <1>1, <2>2, <2>4, <2>10, EndsKeeps
<1>6. CASE serviceMap[m][Key(e)] # NoRec
  <2>1. UNCHANGED <<terminating, rec, cache>>
    BY <1>6 DEF ProcessEliminateAbilityRecord, e
  <2>2. P!IInv' /\ \A q \in Recs : Cached(q)' <=> Cached(q)
    BY <2>1, P!NextIInv, CacheAssumptions DEF IInv, cache, P!vars, Cached
  <2>3. Typed'
    BY <1>1, <1>3, <2>1 DEF IInv, Typed
  <2>4. \A q \in Recs : InMap(Owner(q), q)' <=> InMap(Owner(q), q)
    BY <1>1 DEF InMap
  <2>5. \A n \in Users, q \in Recs : evicted'[n] = q <=> evicted[n] = q /\ q # e
    BY <1>2, <1>3, <1>4 DEF IInv, Managers, Apart
  <2>6. MapOwn' /\ Served' /\ OneInstance'
    BY <1>1, <2>2, <2>4 DEF IInv, Managers, MapOwn, Served, OneInstance
  <2>7. StatesOK' /\ Apart'
    BY <1>1, <2>1, <2>2, <2>4, <2>5 DEF IInv, Managers, StatesOK, Apart
  <2>8. SlotFree' /\ FoundOK' /\ RacedOK'
    <3>1. SlotFree'
      BY <1>1, <1>3 DEF IInv, Managers, SlotFree
    <3>2. devRecLru' = devRecLru
      BY <2>1 DEF cache
    <3>3. FoundOK'
      BY <1>1, <1>3, <3>2 DEF IInv, Managers, FoundOK, Cached
    <3>4. RacedOK'
      BY <1>1, <2>1, <2>2, <2>4, <2>5 DEF IInv, Typed, Managers, RacedOK
    <3> QED
      BY <3>1, <3>3, <3>4
  <2>9. Shared(Key(e))
    <3> DEFINE s == serviceMap[m][Key(e)]
    <3>1. s \in Recs /\ Owner(s) = m /\ Key(s) = Key(e)
      BY <1>2, <1>6 DEF IInv, Typed, Managers, MapOwn
    <3>2. Owner(e) # m
      BY <1>1, <1>2, <1>4, <1>6 DEF IInv, Managers, SlotFree
    <3>3. InMap(Owner(s), s)
      BY <3>1 DEF InMap
    <3>4. rec[s].state = "ACTIVE" /\ rec[e].state # "INITIAL"
      BY <1>1, <1>4, <3>1, <3>3 DEF IInv, Managers, StatesOK, RacedOK
    <3>5. s \in env.recs /\ e \in env.recs
      BY <1>1, <3>1, <3>4 DEF IInv, Managers, StatesOK
    <3> QED
      BY <3>1, <3>2, <3>5 DEF Shared
  <2>10. NotLost'
    <3>1. \A k : Shared(k)' <=> Shared(k)
      BY <1>1 DEF Shared
    <3> QED
      BY <2>1, <2>2, <2>4, <2>5, <2>9, <3>1 DEF IInv, Promises, NotLost
  <2>11. EndIsWatched' /\ DeathHandled'
    BY <1>1, <2>1, <2>2, <2>4 DEF IInv, Promises, EndIsWatched, DeathHandled
  <2> QED
    BY <2>2, <2>3, <2>6, <2>7, <2>8, <2>10, <2>11 DEF IInv, Managers, Promises
<1> QED
  BY <1>5, <1>6

\* The client of a service is connected, or asks to be disconnected.
LEMMA LinkKeeps ==
    ASSUME IInv, NEW r \in Recs, rec[r].link # "none",
           NEW l \in {"connected", "disconnecting"}, rec' = [rec EXCEPT ![r].link = l],
           UNCHANGED <<env, running, serviceMap, terminating, evicted, found, raced, cache>>
    PROVE  IInv'
<1>1. P!IInv' /\ \A q \in Recs : Cached(q)' <=> Cached(q)
  BY CacheStays
<1>2. /\ rec' \in [Recs -> RecordType]
      /\ rec'[r].state = rec[r].state
      /\ rec'[r].timer = rec[r].timer /\ rec'[r].again = rec[r].again
      /\ rec'[r].tasks = rec[r].tasks /\ rec'[r].proc = rec[r].proc
      /\ \A q \in Recs : q # r => rec'[q] = rec[q]
  BY DEF IInv, Typed, RecordType
<1>3. Typed'
  BY <1>2 DEF IInv, Typed
<1>4. Advances(r)
  BY <1>1, <1>2 DEF Advances, IInv, Managers, StatesOK, Promises, DeathHandled
<1> QED
  BY <1>1, <1>3, <1>4, AdvancesKeeps

\* A service that dies is reported; the report finds the record where it is.
LEMMA ServiceDiesKeeps ==
    ASSUME IInv, NEW r \in Recs, ServiceDies(r)
    PROVE  IInv'
<1>1. P!IInv' /\ \A q \in Recs : Cached(q)' <=> Cached(q)
  BY CacheStays DEF ServiceDies
<1>2. /\ rec' = [rec EXCEPT ![r] = Died(rec[r])] /\ rec[r].proc = "alive"
      /\ UNCHANGED <<env, running, serviceMap, terminating, evicted, found, raced>>
  BY DEF ServiceDies
<1>3. rec[r] \in RecordType
  BY DEF IInv, Typed
<1>4. /\ Died(rec[r]) \in RecordType
      /\ Died(rec[r]).state = rec[r].state /\ Died(rec[r]).timer = rec[r].timer
      /\ Died(rec[r]).again = rec[r].again
      /\ Died(rec[r]).link = rec[r].link /\ Died(rec[r]).proc = "dead"
      /\ Died(rec[r]).tasks # {}
  BY <1>2, <1>3 DEF Died, RecordType
<1>5. /\ rec' \in [Recs -> RecordType] /\ rec'[r] = Died(rec[r])
      /\ \A q \in Recs : q # r => rec'[q] = rec[q]
  BY <1>2, <1>4 DEF IInv, Typed
<1>6. Typed'
  BY <1>2, <1>5 DEF IInv, Typed
<1>7. Advances(r)
  BY <1>1, <1>2, <1>4, <1>5 DEF Advances
<1> QED
  BY <1>1, <1>6, <1>7, AdvancesKeeps

\* The death of a service reaches the manager of its user, if there is one.
LEMMA OnAbilityDiedKeeps ==
    ASSUME IInv, NEW r \in Recs, OnAbilityDied(r)
    PROVE  IInv'
<1> DEFINE x == [rec[r] EXCEPT !.tasks = rec[r].tasks \ {"schedulerDied"}]
           y == [x EXCEPT !.tasks = x.tasks \cup {"abilityDied"}, !.timer = NoUser]
<1>1. P!IInv' /\ \A q \in Recs : Cached(q)' <=> Cached(q)
  BY CacheStays DEF OnAbilityDied
<1>2. /\ rec' = [rec EXCEPT ![r] = IF Owner(r) \notin running THEN x ELSE y]
      /\ "schedulerDied" \in rec[r].tasks
      /\ UNCHANGED <<env, running, serviceMap, terminating, evicted, found, raced>>
  BY DEF OnAbilityDied
<1>3. rec[r] \in RecordType /\ rec[r].proc = "dead"
  BY <1>2 DEF IInv, Typed, Managers, StatesOK
<1>4. /\ x \in RecordType /\ y \in RecordType
      /\ x.state = rec[r].state /\ x.timer = rec[r].timer /\ x.link = rec[r].link /\ x.proc = "dead"
      /\ y.state = rec[r].state /\ y.timer = NoUser /\ y.link = rec[r].link /\ y.proc = "dead"
      /\ x.again = rec[r].again /\ y.again = rec[r].again /\ y.tasks # {}
  BY <1>3 DEF RecordType
<1> HIDE DEF x, y
<1>5. /\ rec' \in [Recs -> RecordType] /\ rec'[r] = IF Owner(r) \notin running THEN x ELSE y
      /\ \A q \in Recs : q # r => rec'[q] = rec[q]
  BY <1>2, <1>4 DEF IInv, Typed
<1>6. Typed'
  BY <1>2, <1>5 DEF IInv, Typed
<1>7. Owner(r) \notin running => Owner(r) \in env.stopped
  BY CacheNames DEF IInv, Managers, Served
<1>8. Advances(r)
  BY <1>1, <1>2, <1>3, <1>4, <1>5, <1>7 DEF Advances
<1> QED
  BY <1>1, <1>6, <1>8, AdvancesKeeps

\* The process of a record that was told to end has ended; the time-out task that
\* did it, or that was cancelled for it, is gone.
LEMMA EndedKeeps ==
    ASSUME IInv, NEW m \in Users, NEW r \in Recs, rec[r].state = "TERMINATING",
           NEW w \in RecordType, w.state = rec[r].state, w.link = rec[r].link,
           w.tasks = rec[r].tasks,
           w.timer \in {rec[r].timer, NoUser}, w.again \in {rec[r].again, NoUser},
           TerminateDone(m, r, w),
           UNCHANGED <<env, running, serviceMap, evicted, found, raced, cache>>
    PROVE  IInv'
<1>1. P!IInv' /\ \A q \in Recs : Cached(q)' <=> Cached(q)
  BY CacheStays
<1> DEFINE x == [w EXCEPT !.proc = "dead", !.asked = FALSE]
<1>2. /\ terminating' = [terminating EXCEPT ![m] = terminating[m] \ {r}]
      /\ rec' = [rec EXCEPT ![r] = x]
  BY DEF TerminateDone
<1>3. /\ x \in RecordType /\ x.state = w.state /\ x.timer = w.timer /\ x.again = w.again
      /\ x.link = w.link /\ x.proc = "dead" /\ x.tasks = w.tasks
  BY DEF RecordType
<1> HIDE DEF x
<1>4. /\ rec' \in [Recs -> RecordType] /\ rec'[r] = x
      /\ \A q \in Recs : q # r => rec'[q] = rec[q]
  BY <1>2, <1>3 DEF IInv, Typed
<1>5. /\ terminating' \in [Users -> SUBSET Recs]
      /\ \A n \in Users : terminating'[n] \subseteq terminating[n]
  BY <1>2 DEF IInv, Typed
<1>6. Typed'
  BY <1>4, <1>5 DEF IInv, Typed
<1>7. ~Cached(r) /\ ~InMap(Owner(r), r)
  BY DEF IInv, Managers, StatesOK
<1>8. Advances(r)
  BY <1>1, <1>3, <1>4, <1>5, <1>7 DEF Advances
<1> QED
  BY <1>1, <1>6, <1>8, AdvancesKeeps

\* A record without one of its time-out tasks.
LEMMA TimerGone ==
    ASSUME NEW x \in RecordType
    PROVE  /\ LET w == [x EXCEPT !.timer = NoUser]
              IN  /\ w \in RecordType /\ w.state = x.state /\ w.link = x.link /\ w.tasks = x.tasks
                  /\ w.timer = NoUser /\ w.again = x.again
           /\ LET w == [x EXCEPT !.again = NoUser]
              IN  /\ w \in RecordType /\ w.state = x.state /\ w.link = x.link /\ w.tasks = x.tasks
                  /\ w.timer = x.timer /\ w.again = NoUser
BY DEF RecordType

\* HandleStopTimeoutTask keeps it: only a record that was told to end is timed out.
LEMMA HandleStopTimeoutTaskKeeps ==
    ASSUME IInv, NEW r \in Recs, HandleStopTimeoutTask(r)
    PROVE  IInv'
<1>1. rec[r] \in RecordType /\ UNCHANGED <<env, running, serviceMap, evicted, found, raced, cache>>
  BY DEF HandleStopTimeoutTask, IInv, Typed
<1>2. rec[r].timer \in Users \cup {NoUser} /\ rec[r].again \in Users \cup {NoUser}
  BY <1>1 DEF RecordType
<1>3. CASE /\ rec[r].timer # NoUser
           /\ TerminateDone(rec[r].timer, r, [rec[r] EXCEPT !.timer = NoUser])
  <2>1. rec[r].timer \in Users /\ rec[r].state = "TERMINATING"
    BY <1>2, <1>3 DEF IInv, Managers, StatesOK
  <2>2. PICK w : w = [rec[r] EXCEPT !.timer = NoUser]
    OBVIOUS
  <2>3. /\ w \in RecordType /\ w.state = rec[r].state /\ w.link = rec[r].link
        /\ w.tasks = rec[r].tasks /\ w.timer = NoUser /\ w.again = rec[r].again
    BY <1>1, <2>2, TimerGone
  <2>4. TerminateDone(rec[r].timer, r, w)
    BY <1>3, <2>2
  <2> QED
    BY <1>1, <2>1, <2>3, <2>4, EndedKeeps
<1>4. CASE /\ rec[r].again # NoUser
           /\ TerminateDone(rec[r].again, r, [rec[r] EXCEPT !.again = NoUser])
  <2>1. rec[r].again \in Users /\ rec[r].state = "TERMINATING"
    BY <1>2, <1>4 DEF IInv, Managers, StatesOK
  <2>2. PICK w : w = [rec[r] EXCEPT !.again = NoUser]
    OBVIOUS
  <2>3. /\ w \in RecordType /\ w.state = rec[r].state /\ w.link = rec[r].link
        /\ w.tasks = rec[r].tasks /\ w.timer = rec[r].timer /\ w.again = NoUser
    BY <1>1, <2>2, TimerGone
  <2>4. TerminateDone(rec[r].again, r, w)
    BY <1>4, <2>2
  <2> QED
    BY <1>1, <2>1, <2>3, <2>4, EndedKeeps
<1> QED
  BY <1>3, <1>4 DEF HandleStopTimeoutTask

\* An answer that no manager waits for is refused.
LEMMA DispatchTerminateKeeps ==
    ASSUME IInv, NEW r \in Recs, DispatchTerminate(r)
    PROVE  IInv'
<1> DEFINE u == Owner(r)
<1>1. u \in Users
  BY CacheNames
<1>2. UNCHANGED <<env, running, serviceMap, evicted, found, raced, cache>>
  BY DEF DispatchTerminate
<1>3. CASE r \in terminating[u] /\ TerminateDone(u, r, [rec[r] EXCEPT !.timer = NoUser])
  <2>1. rec[r].state = "TERMINATING" /\ rec[r] \in RecordType
    BY <1>1, <1>3 DEF IInv, Typed, Managers, StatesOK
  <2>2. PICK w : w = [rec[r] EXCEPT !.timer = NoUser]
    OBVIOUS
  <2>3. /\ w \in RecordType /\ w.state = rec[r].state /\ w.link = rec[r].link
        /\ w.tasks = rec[r].tasks /\ w.timer = NoUser /\ w.again = rec[r].again
    BY <2>1, <2>2, TimerGone
  <2>4. TerminateDone(u, r, w)
    BY <1>3, <2>2
  <2> QED
    BY <1>1, <1>2, <2>1, <2>3, <2>4, EndedKeeps
<1>4. CASE rec' = [rec EXCEPT ![r].asked = FALSE] /\ UNCHANGED terminating
  <2>1. P!IInv' /\ \A q \in Recs : Cached(q)' <=> Cached(q)
    BY <1>2, CacheStays
  <2> DEFINE x == [rec[r] EXCEPT !.asked = FALSE]
  <2>2. rec[r] \in RecordType
    BY DEF IInv, Typed
  <2>3. /\ x \in RecordType /\ x.state = rec[r].state
        /\ x.timer = rec[r].timer /\ x.again = rec[r].again
        /\ x.link = rec[r].link /\ x.proc = rec[r].proc /\ x.tasks = rec[r].tasks
    BY <2>2 DEF RecordType
  <2>4. rec' = [rec EXCEPT ![r] = x]
    BY <1>4, <2>2 DEF IInv, Typed, RecordType
  <2> HIDE DEF x
  <2>5. /\ rec' \in [Recs -> RecordType] /\ rec'[r] = x
        /\ \A q \in Recs : q # r => rec'[q] = rec[q]
    BY <2>3, <2>4 DEF IInv, Typed
  <2>6. Typed'
    BY <1>2, <1>4, <2>5 DEF IInv, Typed
  <2>7. /\ rec[r].tasks # {} => rec[r].proc = "dead"
        /\ rec[r].proc = "dead" /\ (Cached(r) \/ InMap(Owner(r), r)) /\ Owner(r) \notin env.stopped
              => rec[r].tasks # {}
    BY DEF IInv, Managers, StatesOK, Promises, DeathHandled
  <2>8. Advances(r)
    BY <1>2, <1>4, <2>1, <2>3, <2>5, <2>7 DEF Advances
  <2> QED
    BY <2>1, <2>6, <2>8, AdvancesKeeps
<1> QED
  BY <1>3, <1>4 DEF DispatchTerminate

\* A record that was not in service comes into service: one from the cache, or
\* one that was never used before.
Serves(r) ==
    /\ serviceMap[Owner(r)][Key(r)] = NoRec
    /\ serviceMap' = [serviceMap EXCEPT ![Owner(r)][Key(r)] = r]
    /\ \A q \in Recs : Cached(q)' <=> Cached(q) /\ q # r
    /\ Cached(r) \/ (rec[r] = Fresh /\ \A q \in Recs :
                        Cached(q) => ~(Owner(q) = Owner(r) /\ Key(q) = Key(r)))
    /\ rec'[r].state = "ACTIVE" /\ rec'[r].tasks = rec[r].tasks
    /\ rec'[r].timer = rec[r].timer /\ rec'[r].again = rec[r].again
    /\ Cached(r) => rec'[r].proc = rec[r].proc
    /\ ~Cached(r) => rec'[r].proc = "alive"
    /\ \A q \in Recs : q # r => rec'[q] = rec[q]
    /\ evicted[Owner(r)] = NoRec /\ found[Owner(r)] = NoRec /\ r \in env.recs
    /\ UNCHANGED <<env, running, terminating, evicted, found, raced>>

\* A step of that shape keeps the inductive invariant.
LEMMA ServesKeeps ==
    ASSUME IInv, NEW r \in Recs, Serves(r), Typed', P!IInv'
    PROVE  IInv'
<1>1. \A q \in Recs : Owner(q) \in Users /\ Key(q) \in Keys
  BY CacheNames
<1>2. NoRec \notin Recs /\ NoUser \notin Users
  BY ServiceAssumption
<1>3. /\ serviceMap'[Owner(r)][Key(r)] = r
      /\ \A n \in Users, k \in Keys :
            n # Owner(r) \/ k # Key(r) => serviceMap'[n][k] = serviceMap[n][k]
  BY <1>1 DEF Serves, IInv, Typed
<1>4. /\ \A q \in Recs : InMap(Owner(q), q)' <=> InMap(Owner(q), q) \/ q = r
      /\ ~InMap(Owner(r), r)
  BY <1>1, <1>2, <1>3 DEF InMap, Serves
<1>5. \/ Cached(r) /\ rec[r].state = "ACTIVE"
      \/ /\ ~Cached(r) /\ rec[r].state = "INITIAL" /\ rec[r].tasks = {}
         /\ rec[r].timer = NoUser /\ rec[r].again = NoUser
  BY DEF Serves, Fresh, IInv, Managers, StatesOK
<1>6. r \notin raced /\ \A n \in Users : evicted[n] # r /\ r \notin terminating[n]
  <2>1. r \notin raced
    BY <1>5 DEF IInv, Managers, RacedOK
  <2> QED
    BY <1>5, <2>1 DEF IInv, Managers, StatesOK, Apart
<1>7. MapOwn'
  BY <1>1, <1>3 DEF IInv, Managers, MapOwn
<1>8. StatesOK'
  <2>1. ASSUME NEW q \in Recs, q # r
        PROVE  /\ rec'[q] = rec[q] /\ (Cached(q)' <=> Cached(q)) /\ env' = env
               /\ InMap(Owner(q), q)' <=> InMap(Owner(q), q)
               /\ evicted' = evicted /\ terminating' = terminating /\ raced' = raced
    BY <1>4, <2>1 DEF Serves
  <2>2. /\ ~Cached(r)' /\ InMap(Owner(r), r)' /\ evicted' = evicted /\ terminating' = terminating
        /\ rec'[r].state = "ACTIVE" /\ rec'[r].tasks = rec[r].tasks
        /\ rec'[r].timer = rec[r].timer /\ rec'[r].again = rec[r].again
        /\ r \in env.recs /\ env' = env
    BY <1>4 DEF Serves
  <2>3. rec[r].timer = NoUser /\ rec[r].again = NoUser
    BY <1>5 DEF IInv, Managers, StatesOK
  <2>4. rec'[r].tasks # {} => rec'[r].proc = "dead"
    BY <1>5, <2>2 DEF IInv, Managers, StatesOK, Serves
  <2> QED
    BY <1>6, <2>1, <2>2, <2>3, <2>4 DEF IInv, Managers, StatesOK
<1>9. Apart'
  <2>1. /\ evicted' = evicted /\ terminating' = terminating /\ raced' = raced
        /\ \A q \in Recs : Cached(q)' <=> Cached(q) /\ q # r
    BY DEF Serves
  <2> QED
    BY <1>4, <1>6, <2>1 DEF IInv, Managers, Apart
<1>10. OneInstance'
  <2>1. ASSUME NEW q \in Recs, q # r, Owner(q) = Owner(r), Key(q) = Key(r)
        PROVE  ~Cached(q) /\ ~InMap(Owner(q), q)
    <3>1. ~InMap(Owner(q), q)
      BY <1>2, <2>1 DEF Serves, InMap
    <3>2. ~Cached(q)
      BY <2>1 DEF Serves, IInv, Managers, OneInstance
    <3> QED
      BY <3>1, <3>2
  <2>2. \A q \in Recs : Cached(q)' <=> Cached(q) /\ q # r
    BY DEF Serves
  <2> QED
    BY <1>4, <2>1, <2>2 DEF IInv, Managers, OneInstance
<1>11. SlotFree'
  <2>1. evicted' = evicted /\ evicted[Owner(r)] = NoRec
    BY DEF Serves
  <2> QED
    BY <1>1, <1>3, <2>1 DEF IInv, Typed, Managers, SlotFree
<1>12. Served' /\ EndIsWatched'
  <2>1. /\ env' = env /\ running' = running /\ terminating' = terminating
        /\ \A q \in Recs : q # r => rec'[q] = rec[q]
    BY DEF Serves
  <2> QED
    BY <1>6, <2>1 DEF IInv, Managers, Served, Promises, EndIsWatched
<1>13. NotLost'
  <2>1. \A k : Shared(k)' <=> Shared(k)
    BY DEF Serves, Shared
  <2> QED
    BY <1>4, <2>1 DEF IInv, Promises, NotLost, Serves
<1>14. DeathHandled'
  BY <1>4, <1>5 DEF IInv, Promises, DeathHandled, Serves
<1>15. FoundOK' /\ RacedOK'
  <2>1. /\ evicted' = evicted /\ found' = found /\ raced' = raced /\ raced \subseteq Recs
        /\ \A q \in Recs : q # r => rec'[q] = rec[q]
        /\ \A q \in Recs : q \in C!Range(devRecLru') <=> Cached(q) /\ q # r
    BY DEF Serves, IInv, Typed, Cached
  <2>2. \A n \in Users : found[n] # r
    BY <1>2 DEF Serves, IInv, Managers, FoundOK
  <2>3. FoundOK'
    BY <2>1, <2>2 DEF IInv, Typed, Managers, FoundOK, Cached
  <2>4. \A q \in raced : q \in Recs /\ q # r
    BY <1>6, <2>1
  <2>5. \A q \in Recs : Cached(q)' => Cached(q)
    BY DEF Serves
  <2>6. RacedOK'
    BY <1>4, <2>1, <2>4, <2>5 DEF IInv, Managers, RacedOK
  <2> QED
    BY <2>3, <2>6
<1> QED
  BY <1>7, <1>8, <1>9, <1>10, <1>11, <1>12, <1>13, <1>14, <1>15 DEF IInv, Managers, Promises

\* The number of a record that is created is one that was not used.
LEMMA NextRecUnused ==
    ASSUME NEW u \in Users, NEW k \in Keys, Unused(u, k) # {}
    PROVE  /\ NextRec(u, k) \in Recs /\ NextRec(u, k) \in env.recs
           /\ rec[NextRec(u, k)] = Fresh
           /\ Owner(NextRec(u, k)) = u /\ Key(NextRec(u, k)) = k
<1>1. Unused(u, k) \subseteq Nat
  BY DEF Unused
<1>2. \E i \in Unused(u, k) : \A j \in Unused(u, k) : i <= j
  BY <1>1, CacheAssumptions, P!LeastIn
<1> DEFINE i == CHOOSE i \in Unused(u, k) : \A j \in Unused(u, k) : i <= j
<1>3. i \in Unused(u, k) /\ NextRec(u, k) = <<u, k, i>>
  BY <1>2 DEF NextRec
<1> HIDE DEF i
<1> QED
  BY <1>3 DEF Unused, Recs, Owner, Key

\* A client is connected to the cached record of the service, or to a new one.
LEMMA ConnectAbilityLockedKeeps ==
    ASSUME IInv, NEW u \in Users, NEW k \in Keys, ConnectAbilityLocked(u, k)
    PROVE  IInv'
<1>1. /\ serviceMap[u][k] = NoRec /\ evicted[u] = NoRec /\ found[u] = NoRec
      /\ UNCHANGED <<env, running, terminating, evicted, found, raced>>
  BY DEF ConnectAbilityLocked, Free
<1>2. CASE /\ C!Get(<<u, AppOf[k]>>, k)
           /\ serviceMap' = [serviceMap EXCEPT ![u][k] = returned']
           /\ rec' = [rec EXCEPT ![returned'].link = "connecting"]
  <2> DEFINE r == returned'
             x == [rec[r] EXCEPT !.link = "connecting"]
  <2>1. /\ P!IInv' /\ r \in Recs /\ Cached(r) /\ Owner(r) = u /\ Key(r) = k
        /\ \A q \in Recs : Cached(q)' <=> Cached(q) /\ q # r
    BY <1>2, CacheGet DEF IInv
  <2>2. serviceMap' = [serviceMap EXCEPT ![u][k] = r]
        /\ rec' = [rec EXCEPT ![r].link = "connecting"]
    BY <1>2
  <2> HIDE DEF r
  <2>3. rec[r] \in RecordType /\ rec[r].state = "ACTIVE" /\ r \in env.recs
    BY <2>1 DEF IInv, Typed, Managers, StatesOK
  <2>4. /\ x \in RecordType /\ x.state = rec[r].state
        /\ x.timer = rec[r].timer /\ x.again = rec[r].again
        /\ x.proc = rec[r].proc /\ x.tasks = rec[r].tasks
    BY <2>3 DEF RecordType
  <2>5. rec' = [rec EXCEPT ![r] = x]
    BY <2>2, <2>3 DEF IInv, Typed, RecordType
  <2> HIDE DEF x
  <2>6. /\ rec' \in [Recs -> RecordType] /\ rec'[r] = x
        /\ \A q \in Recs : q # r => rec'[q] = rec[q]
    BY <2>1, <2>4, <2>5 DEF IInv, Typed
  <2>7. serviceMap' \in [Users -> [Keys -> Recs \cup {NoRec}]]
    BY <2>1, <2>2 DEF IInv, Typed
  <2>8. Typed'
    BY <1>1, <2>6, <2>7 DEF IInv, Typed
  <2>9. Serves(r)
    BY <1>1, <2>1, <2>2, <2>3, <2>4, <2>6 DEF Serves
  <2> QED
    BY <2>1, <2>8, <2>9, ServesKeeps
<1>3. CASE /\ C!GetNothing(<<u, AppOf[k]>>, k)
           /\ Unused(u, k) # {}
           /\ serviceMap' = [serviceMap EXCEPT ![u][k] = NextRec(u, k)]
           /\ rec' = [rec EXCEPT ![NextRec(u, k)] =
                         [rec[NextRec(u, k)] EXCEPT !.link = "connecting", !.proc = "alive",
                                                    !.state = "ACTIVE"]]
  <2> DEFINE r == NextRec(u, k)
             x == [rec[r] EXCEPT !.link = "connecting", !.proc = "alive", !.state = "ACTIVE"]
  <2>1. /\ P!IInv' /\ \A q \in Recs : Cached(q)' <=> Cached(q)
        /\ \A q \in Recs : Cached(q) => ~(Owner(q) = u /\ Key(q) = k)
    BY <1>3, CacheGetNothing DEF IInv
  <2>2. r \in Recs /\ r \in env.recs /\ rec[r] = Fresh /\ Owner(r) = u /\ Key(r) = k
    BY <1>3, NextRecUnused
  <2>3. serviceMap' = [serviceMap EXCEPT ![u][k] = r] /\ rec' = [rec EXCEPT ![r] = x]
    BY <1>3
  <2> HIDE DEF r
  <2>4. rec[r] \in RecordType
    BY <2>2 DEF IInv, Typed
  <2>5. /\ x \in RecordType /\ x.state = "ACTIVE"
        /\ x.timer = rec[r].timer /\ x.again = rec[r].again
        /\ x.proc = "alive" /\ x.tasks = rec[r].tasks
    BY <2>4 DEF RecordType
  <2> HIDE DEF x
  <2>6. /\ rec' \in [Recs -> RecordType] /\ rec'[r] = x
        /\ \A q \in Recs : q # r => rec'[q] = rec[q]
    BY <2>2, <2>3, <2>5 DEF IInv, Typed
  <2>7. serviceMap' \in [Users -> [Keys -> Recs \cup {NoRec}]]
    BY <2>2, <2>3 DEF IInv, Typed
  <2>8. Typed'
    BY <1>1, <2>6, <2>7 DEF IInv, Typed
  <2>9. ~Cached(r)
    BY <2>1, <2>2
  <2>10. \A q \in Recs : Cached(q)' <=> Cached(q) /\ q # r
    BY <2>1, <2>9
  <2>11. Serves(r)
    BY <1>1, <2>1, <2>2, <2>3, <2>5, <2>6, <2>9, <2>10 DEF Serves
  <2> QED
    BY <2>1, <2>2, <2>8, <2>11, ServesKeeps
<1> QED
  BY <1>2, <1>3 DEF ConnectAbilityLocked, GetOrCreateServiceRecord

\* A service that lost its client is cached; the record that the cache eliminates
\* for it is held by the manager.
LEMMA ScheduleDisconnectAbilityDoneKeeps ==
    ASSUME IInv, NEW r \in Recs, ScheduleDisconnectAbilityDone(r)
    PROVE  IInv'
<1> DEFINE u == Owner(r)
           k == Key(r)
           e == returned'
           x == [rec[r] EXCEPT !.link = "none"]
<1>1. u \in Users /\ k \in Keys /\ NoRec \notin Recs
      /\ \A q \in Recs : Owner(q) \in Users /\ Key(q) \in Keys
  BY CacheNames, ServiceAssumption
<1>2. /\ evicted[u] = NoRec /\ found[u] = NoRec /\ InMap(u, r)
      /\ rec' = [rec EXCEPT ![r].link = "none"]
      /\ serviceMap' = [serviceMap EXCEPT ![u][k] = NoRec]
      /\ C!Put(r) /\ evicted' = [evicted EXCEPT ![u] = e]
      /\ raced' = raced \cup {q \in Recs : q = e /\ found[Owner(q)] = q}
      /\ UNCHANGED <<env, running, terminating, found>>
  BY DEF ScheduleDisconnectAbilityDone, TerminateOrCacheAbility, Free
<1>3. /\ P!IInv' /\ ~Cached(r)
      /\ e = NoRec \/ (e \in Recs /\ Cached(e) /\ e # r)
      /\ \A q \in Recs : Cached(q)' <=> (Cached(q) /\ q # e) \/ q = r
  BY <1>2, CachePut DEF IInv
<1>4. rec[r] \in RecordType
  BY DEF IInv, Typed
<1>5. /\ x \in RecordType /\ x.state = rec[r].state /\ x.link = "none"
      /\ x.timer = rec[r].timer /\ x.again = rec[r].again
      /\ x.proc = rec[r].proc /\ x.tasks = rec[r].tasks
  BY <1>4 DEF RecordType
<1>6. rec' = [rec EXCEPT ![r] = x]
  BY <1>2, <1>4 DEF IInv, Typed, RecordType
<1> HIDE DEF x, e, u, k
<1>7. /\ rec' \in [Recs -> RecordType] /\ rec'[r] = x
      /\ \A q \in Recs : q # r => rec'[q] = rec[q]
  BY <1>5, <1>6 DEF IInv, Typed
<1>8. Typed'
  <2>1. serviceMap' \in [Users -> [Keys -> Recs \cup {NoRec}]]
    BY <1>1, <1>2 DEF IInv, Typed
  <2>2. evicted' \in [Users -> Recs \cup {NoRec}]
    BY <1>1, <1>2, <1>3 DEF IInv, Typed
  <2>3. raced' \subseteq Recs /\ raced \subseteq raced'
    BY <1>2 DEF IInv, Typed
  <2> QED
    BY <1>2, <1>7, <2>1, <2>2, <2>3 DEF IInv, Typed
<1>9. /\ serviceMap'[u][k] = NoRec /\ serviceMap[u][k] = r
      /\ \A n \in Users, j \in Keys : n # u \/ j # k => serviceMap'[n][j] = serviceMap[n][j]
  BY <1>1, <1>2 DEF IInv, Typed, InMap, k
<1>10. \A q \in Recs : InMap(Owner(q), q)' <=> InMap(Owner(q), q) /\ q # r
  BY <1>1, <1>9 DEF InMap, u, k
<1>11. /\ evicted'[u] = e /\ \A n \in Users : n # u => evicted'[n] = evicted[n]
  BY <1>1, <1>2 DEF IInv, Typed
<1>12. e \in Recs => /\ e \notin raced /\ \A n \in Users : evicted[n] # e /\ e \notin terminating[n]
                     /\ rec[e].state = "ACTIVE" /\ ~InMap(Owner(e), e)
  BY <1>1, <1>3 DEF IInv, Managers, StatesOK, Apart, RacedOK
<1>13. /\ rec[r].state = "ACTIVE" /\ r \notin raced
       /\ \A n \in Users : evicted[n] # r /\ r \notin terminating[n]
  BY <1>2 DEF IInv, Managers, StatesOK, Apart, RacedOK, u
<1>14. MapOwn'
  BY <1>1, <1>9 DEF IInv, Managers, MapOwn
<1>15. StatesOK'
  <2>1. ASSUME NEW q \in Recs, q # r
        PROVE  /\ rec'[q] = rec[q] /\ (Cached(q)' => Cached(q)) /\ env' = env
               /\ InMap(Owner(q), q)' <=> InMap(Owner(q), q)
               /\ terminating' = terminating /\ (q \notin raced' => q \notin raced)
               /\ \A n \in Users : evicted'[n] = q => evicted[n] = q \/ q = e
    BY <1>2, <1>3, <1>7, <1>10, <1>11, <2>1
  <2>2. /\ ~InMap(Owner(r), r)' /\ terminating' = terminating /\ env' = env
        /\ \A n \in Users : evicted'[n] # r
    BY <1>1, <1>2, <1>3, <1>10, <1>11, <1>13
  <2>3. \A q \in Recs : q = e => rec[q].state = "ACTIVE"
    BY <1>12
  <2>4. r \in env.recs /\ rec[r].timer = NoUser /\ rec[r].again = NoUser
        /\ (rec[r].tasks # {} => rec[r].proc = "dead")
    BY <1>13 DEF IInv, Managers, StatesOK
  <2> QED
    BY <1>5, <1>7, <1>13, <2>1, <2>2, <2>3, <2>4 DEF IInv, Managers, StatesOK
<1>16. Apart'
  <2>1. terminating' = terminating /\ \A q \in Recs : q \notin raced' => q \notin raced
    BY <1>2
  <2>2. \A q \in Recs, n \in Users : evicted'[n] = q => IF n = u THEN q = e ELSE evicted[n] = q
    BY <1>11
  <2> QED
    BY <1>1, <1>3, <1>10, <1>12, <1>13, <2>1, <2>2 DEF IInv, Managers, Apart
<1>17. OneInstance'
  <2>1. \A q \in Recs : /\ Cached(q)' \/ InMap(Owner(q), q)' => Cached(q) \/ InMap(Owner(q), q)
    BY <1>2, <1>3, <1>10 DEF u
  <2> QED
    BY <2>1 DEF IInv, Managers, OneInstance
<1>18. SlotFree'
  <2>1. ASSUME e \in Recs, Owner(e) = u
        PROVE  serviceMap'[u][Key(e)] = NoRec
    <3>1. CASE Key(e) = k
      BY <1>9, <3>1
    <3>2. CASE Key(e) # k
      <4> DEFINE s == serviceMap[u][Key(e)]
      <4>1. serviceMap'[u][Key(e)] = s
        BY <1>1, <1>9, <2>1, <3>2
      <4>2. ASSUME s # NoRec
            PROVE  FALSE
        <5>1. s \in Recs /\ Owner(s) = u /\ Key(s) = Key(e)
          BY <1>1, <2>1, <4>2 DEF IInv, Typed, Managers, MapOwn
        <5>2. InMap(Owner(s), s)
          BY <5>1 DEF InMap
        <5>3. s # e
          BY <1>12, <2>1, <5>2
        <5> QED
          BY <1>3, <1>1, <2>1, <5>1, <5>2, <5>3 DEF IInv, Managers, OneInstance
      <4> QED
        BY <4>1, <4>2
    <3> QED
      BY <3>1, <3>2
  <2>2. ASSUME NEW n \in Users, n # u, evicted[n] # NoRec, Owner(evicted[n]) = n
        PROVE  serviceMap'[n][Key(evicted[n])] = NoRec
    <3>1. evicted[n] \in Recs /\ serviceMap[n][Key(evicted[n])] = NoRec
      BY <2>2 DEF IInv, Typed, Managers, SlotFree
    <3> QED
      BY <1>1, <1>9, <2>2, <3>1
  <2> QED
    BY <1>1, <1>3, <1>11, <2>1, <2>2 DEF SlotFree
<1>19. Served' /\ EndIsWatched'
  BY <1>2, <1>7, <1>13 DEF IInv, Managers, Served, Promises, EndIsWatched
<1>20. NotLost'
  <2>1. \A j : Shared(j)' <=> Shared(j)
    BY <1>2 DEF Shared
  <2>2. \A q \in Recs, n \in Users : evicted[n] = q => evicted'[n] = q
    BY <1>1, <1>2, <1>11
  <2>3. \A q \in Recs : Cached(q) => Cached(q)' \/ evicted'[u] = q
    BY <1>3, <1>11
  <2>4. Cached(r)' /\ \A q \in Recs : q # r => rec'[q] = rec[q]
    BY <1>3, <1>7
  <2> QED
    BY <1>1, <1>10, <2>1, <2>2, <2>3, <2>4 DEF IInv, Promises, NotLost
<1>21. DeathHandled'
  <2>1. \A q \in Recs : /\ rec'[q].proc = rec[q].proc /\ rec'[q].tasks = rec[q].tasks
                        /\ (Cached(q)' \/ InMap(Owner(q), q)' => Cached(q) \/ InMap(Owner(q), q))
    BY <1>2, <1>3, <1>5, <1>7, <1>10 DEF u
  <2> QED
    BY <1>2, <2>1 DEF IInv, Promises, DeathHandled
<1>22. FoundOK'
  <2>1. \A q \in Recs : q \in C!Range(devRecLru') <=> (Cached(q) /\ q # e) \/ q = r
    BY <1>3 DEF Cached
  <2>2. \A n \in Users : found[n] # NoRec => found[n] \in Recs /\ n # u
    BY <1>2 DEF IInv, Typed
  <2>3. \A n \in Users :
           found[n] # NoRec => /\ Owner(found[n]) = n /\ evicted[n] = NoRec
                               /\ found[n] \in raced \/ Cached(found[n])
    BY DEF IInv, Managers, FoundOK
  <2>4. \A n \in Users :
           found[n] # NoRec => found[n] \in raced' \/ (Cached(found[n]) /\ found[n] # e)
    BY <1>2, <2>2, <2>3
  <2>5. \A n \in Users : found[n] # NoRec => found[n] \in raced' \/ found[n] \in C!Range(devRecLru')
    BY <2>1, <2>2, <2>4
  <2> QED
    BY <1>2, <1>11, <2>2, <2>3, <2>5 DEF FoundOK, Cached
<1>23. RacedOK'
  <2> SUFFICES ASSUME NEW q \in raced'
               PROVE  /\ ~Cached(q)' /\ ~InMap(Owner(q), q)' /\ rec'[q].state # "INITIAL"
                      /\ found[Owner(q)] = q => rec'[q].again = NoUser
                      /\ \A n \in Users :
                            evicted'[n] = q => /\ rec'[q].again = NoUser
                                               /\ found[Owner(q)] = q => rec'[q].state = "ACTIVE"
    BY <1>2 DEF RacedOK
  <2>1. q \in Recs /\ (q \in raced \/ q = e) /\ q # r
    <3>1. \A p \in raced : p \in Recs
      BY DEF IInv, Typed
    <3>2. q \in raced \/ (q \in Recs /\ q = e)
      BY <1>2
    <3> QED
      BY <1>1, <1>3, <1>13, <3>1, <3>2
  <2>2. rec'[q] = rec[q]
    BY <1>7, <2>1
  <2>3. CASE q = e
    <3>1. ~Cached(q)' /\ ~InMap(Owner(q), q)'
      BY <1>3, <1>10, <1>12, <2>1, <2>3
    <3>2. rec[q].state = "ACTIVE" /\ rec[q].again = NoUser
      BY <1>12, <2>1, <2>3 DEF IInv, Managers, StatesOK
    <3> QED
      BY <2>2, <3>1, <3>2
  <2>4. CASE q \in raced /\ q # e
    <3>1. /\ ~Cached(q)' /\ ~InMap(Owner(q), q)'
          /\ \A n \in Users : evicted'[n] = q => evicted[n] = q
      BY <1>3, <1>10, <1>11, <2>1, <2>4 DEF IInv, Managers, RacedOK
    <3> QED
      BY <2>2, <2>4, <3>1 DEF IInv, Managers, RacedOK
  <2> QED
    BY <2>1, <2>3, <2>4
<1> QED
  BY <1>3, <1>8, <1>14, <1>15, <1>16, <1>17, <1>18, <1>19, <1>20, <1>21, <1>22, <1>23
     DEF IInv, Managers, Promises

\* The record of a service that died leaves the map and the cache.
LEMMA HandleAbilityDiedTaskKeeps ==
    ASSUME IInv, NEW r \in Recs, HandleAbilityDiedTask(r)
    PROVE  IInv'
<1> DEFINE u == Owner(r)
           x == [rec[r] EXCEPT !.link = "none", !.tasks = rec[r].tasks \ {"abilityDied"}]
<1>1. NoRec \notin Recs /\ \A q \in Recs : Owner(q) \in Users /\ Key(q) \in Keys
  BY CacheNames, ServiceAssumption
<1>2. /\ "abilityDied" \in rec[r].tasks /\ serviceMap' = Erase(u, r) /\ C!Remove(r)
      /\ rec' = [rec EXCEPT ![r].link = "none", ![r].tasks = rec[r].tasks \ {"abilityDied"}]
      /\ UNCHANGED <<env, running, terminating, evicted, found, raced>> /\ found[u] = NoRec
  BY DEF HandleAbilityDiedTask, HandleExtensionAbilityRemove, Free
<1>3. P!IInv' /\ \A q \in Recs : Cached(q)' <=> Cached(q) /\ q # r
  BY <1>2, CacheRemove DEF IInv
<1>4. rec[r] \in RecordType /\ rec[r].proc = "dead"
  BY <1>2 DEF IInv, Typed, Managers, StatesOK
<1>5. /\ x \in RecordType /\ x.state = rec[r].state /\ x.link = "none"
      /\ x.timer = rec[r].timer /\ x.again = rec[r].again /\ x.proc = "dead"
  BY <1>4 DEF RecordType
<1>6. rec' = [rec EXCEPT ![r] = x]
  BY <1>2, <1>4 DEF IInv, Typed, RecordType
<1> HIDE DEF x
<1>7. /\ rec' \in [Recs -> RecordType] /\ rec'[r] = x
      /\ \A q \in Recs : q # r => rec'[q] = rec[q]
  BY <1>5, <1>6 DEF IInv, Typed
<1>8. serviceMap' \in [Users -> [Keys -> Recs \cup {NoRec}]]
  BY <1>1, <1>2 DEF IInv, Typed, Erase
<1>9. Typed'
  BY <1>2, <1>7, <1>8 DEF IInv, Typed
<1>10. \A n \in Users, k \in Keys :
          serviceMap'[n][k] = IF serviceMap[n][k] = r THEN NoRec ELSE serviceMap[n][k]
  BY <1>1, <1>2 DEF Erase, InMap, IInv, Typed, Managers, MapOwn
<1>11. \A q \in Recs : InMap(Owner(q), q)' <=> InMap(Owner(q), q) /\ q # r
  BY <1>1, <1>10 DEF InMap
<1>12. MapOwn'
  BY <1>10 DEF IInv, Managers, MapOwn
<1>13. StatesOK'
  <2>1. ASSUME NEW q \in Recs, q # r
        PROVE  /\ rec'[q] = rec[q] /\ (Cached(q)' <=> Cached(q))
               /\ InMap(Owner(q), q)' <=> InMap(Owner(q), q)
    BY <1>3, <1>7, <1>11, <2>1
  <2>2. ~Cached(r)' /\ ~InMap(Owner(r), r)'
    BY <1>3, <1>11
  <2>3. terminating' = terminating /\ evicted' = evicted /\ env' = env /\ raced' = raced
    BY <1>2
  <2> QED
    BY <1>5, <1>7, <2>1, <2>2, <2>3 DEF IInv, Managers, StatesOK
<1>14. Apart' /\ OneInstance'
  BY <1>2, <1>3, <1>11 DEF IInv, Managers, Apart, OneInstance
<1>15. SlotFree' /\ Served'
  BY <1>1, <1>2, <1>10 DEF IInv, Typed, Managers, SlotFree, Served
<1>16. EndIsWatched'
  BY <1>2, <1>5, <1>7 DEF IInv, Promises, EndIsWatched
<1>17. NotLost'
  <2>1. \A k : Shared(k)' <=> Shared(k)
    BY <1>2 DEF Shared
  <2>2. evicted' = evicted
    BY <1>2
  <2> QED
    BY <1>3, <1>5, <1>7, <1>11, <2>1, <2>2 DEF IInv, Promises, NotLost
<1>18. DeathHandled'
  BY <1>2, <1>3, <1>7, <1>11 DEF IInv, Promises, DeathHandled
<1>19. FoundOK' /\ RacedOK'
  <2>1. \A q \in Recs : q \in C!Range(devRecLru') <=> Cached(q) /\ q # r
    BY <1>3 DEF Cached
  <2>2. \A n \in Users : found[n] # r
    BY <1>1, <1>2 DEF IInv, Managers, FoundOK
  <2>3. FoundOK'
    BY <1>2, <2>1, <2>2 DEF IInv, Typed, Managers, FoundOK, Cached
  <2>4. \A q \in Recs : rec'[q].state = rec[q].state /\ rec'[q].again = rec[q].again
    BY <1>5, <1>7
  <2>5. \A q \in raced : q \in Recs
    BY DEF IInv, Typed
  <2>6. evicted' = evicted /\ found' = found /\ raced' = raced
    BY <1>2
  <2>7. RacedOK'
    BY <1>3, <1>11, <2>4, <2>5, <2>6 DEF IInv, Managers, RacedOK
  <2> QED
    BY <2>3, <2>7
<1> QED
  BY <1>3, <1>9, <1>12, <1>13, <1>14, <1>15, <1>16, <1>17, <1>18, <1>19 DEF IInv, Managers, Promises

\* The records of a user who is stopped: their processes die, their clients and
\* their managers' tasks and timers are gone.
LEMMA StopUserKeeps ==
    ASSUME IInv, NEW u \in Users, StopUser(u)
    PROVE  IInv'
<1> DEFINE y(r) == IF Owner(r) = u
                      THEN [Died(rec[r]) EXCEPT !.link = "none",
                                                !.tasks = Died(rec[r]).tasks \ {"abilityDied"}]
                      ELSE rec[r]
           x(r) == [y(r) EXCEPT !.timer = IF y(r).timer = u THEN NoUser ELSE y(r).timer,
                                !.again = IF y(r).again = u THEN NoUser ELSE y(r).again]
<1>1. NoRec \notin Recs /\ NoUser \notin Users
      /\ \A q \in Recs : Owner(q) \in Users /\ Key(q) \in Keys
  BY CacheNames, ServiceAssumption
<1>2. /\ u \in env.stopped /\ evicted[u] = NoRec /\ running' = running \ {u}
      /\ serviceMap' = [serviceMap EXCEPT ![u] = [k \in Keys |-> NoRec]]
      /\ terminating' = [terminating EXCEPT ![u] = {}]
      /\ UNCHANGED <<env, evicted, found, raced, cache>>
  BY DEF StopUser, Free
<1>3. rec' = [r \in Recs |-> x(r)]
  BY DEF StopUser
<1>4. P!IInv' /\ \A q \in Recs : Cached(q)' <=> Cached(q)
  BY <1>2, CacheStays
<1>5. ASSUME NEW r \in Recs
      PROVE  /\ rec'[r] \in RecordType /\ rec'[r].state = rec[r].state
             /\ rec'[r].timer = IF rec[r].timer = u THEN NoUser ELSE rec[r].timer
             /\ rec'[r].again = IF rec[r].again = u THEN NoUser ELSE rec[r].again
             /\ Owner(r) = u => /\ rec'[r].link = "none" /\ rec'[r].proc # "alive"
             /\ Owner(r) # u => /\ rec'[r].link = rec[r].link /\ rec'[r].proc = rec[r].proc
                                /\ rec'[r].tasks = rec[r].tasks
             /\ rec'[r].proc = rec[r].proc \/ rec'[r].proc = "dead"
             /\ rec'[r].tasks # {} => rec'[r].proc = "dead"
  <2>1. rec[r] \in RecordType /\ (rec[r].tasks # {} => rec[r].proc = "dead")
    BY DEF IInv, Typed, Managers, StatesOK
  <2>2. /\ Died(rec[r]) \in RecordType /\ Died(rec[r]).state = rec[r].state
        /\ Died(rec[r]).timer = rec[r].timer /\ Died(rec[r]).again = rec[r].again
        /\ Died(rec[r]).proc # "alive"
        /\ Died(rec[r]).proc = rec[r].proc \/ Died(rec[r]).proc = "dead"
        /\ Died(rec[r]).tasks # {} => Died(rec[r]).proc = "dead"
    BY <2>1 DEF Died, RecordType
  <2>3. /\ y(r) \in RecordType /\ y(r).state = rec[r].state
        /\ y(r).timer = rec[r].timer /\ y(r).again = rec[r].again
        /\ Owner(r) = u => y(r).link = "none" /\ y(r).proc # "alive"
        /\ Owner(r) # u => y(r) = rec[r]
        /\ y(r).proc = rec[r].proc \/ y(r).proc = "dead"
        /\ y(r).tasks # {} => y(r).proc = "dead"
    <3>1. CASE Owner(r) # u
      BY <2>1, <3>1
    <3>2. CASE Owner(r) = u
      <4> DEFINE d == Died(rec[r])
                 z == [d EXCEPT !.link = "none", !.tasks = d.tasks \ {"abilityDied"}]
      <4> HIDE DEF d
      <4>1. /\ z \in RecordType /\ z.state = d.state /\ z.timer = d.timer /\ z.link = "none"
            /\ z.again = d.again /\ z.proc = d.proc /\ z.tasks \subseteq d.tasks
        BY <2>2 DEF RecordType, d
      <4>2. y(r) = z
        BY <3>2 DEF d
      <4> HIDE DEF z, y
      <4> QED
        BY <2>2, <3>2, <4>1, <4>2 DEF d
    <3> QED
      BY <3>1, <3>2
  <2>4. rec'[r] = x(r)
    BY <1>3
  <2> HIDE DEF y
  <2>5. /\ x(r) \in RecordType /\ x(r).state = y(r).state /\ x(r).link = y(r).link
        /\ x(r).proc = y(r).proc /\ x(r).tasks = y(r).tasks
        /\ x(r).timer = IF y(r).timer = u THEN NoUser ELSE y(r).timer
        /\ x(r).again = IF y(r).again = u THEN NoUser ELSE y(r).again
    BY <2>3 DEF RecordType
  <2> HIDE DEF x
  <2> QED
    BY <2>3, <2>4, <2>5
<1>6. Typed'
  <2>1. rec' \in [Recs -> RecordType]
    BY <1>3, <1>5
  <2>2. /\ serviceMap' \in [Users -> [Keys -> Recs \cup {NoRec}]]
        /\ terminating' \in [Users -> SUBSET Recs]
    BY <1>2 DEF IInv, Typed
  <2> QED
    BY <1>2, <2>1, <2>2 DEF IInv, Typed
<1>7. /\ \A k \in Keys : serviceMap'[u][k] = NoRec
      /\ \A n \in Users : n # u => serviceMap'[n] = serviceMap[n] /\ terminating'[n] = terminating[n]
      /\ terminating'[u] = {}
  BY <1>2 DEF IInv, Typed
<1> HIDE DEF x
<1>8. \A q \in Recs : InMap(Owner(q), q)' <=> InMap(Owner(q), q) /\ Owner(q) # u
  BY <1>1, <1>7 DEF InMap
<1>9. MapOwn' /\ SlotFree' /\ Served'
  BY <1>1, <1>2, <1>7 DEF IInv, Typed, Managers, MapOwn, SlotFree, Served
<1>10. \A n \in Users, q \in Recs : q \in terminating'[n] <=> q \in terminating[n] /\ n # u
  BY <1>7
<1>11. StatesOK'
  <2>1. evicted' = evicted /\ env' = env /\ raced' = raced
    BY <1>2
  <2> QED
    BY <1>4, <1>5, <1>8, <1>10, <2>1 DEF IInv, Managers, StatesOK
<1>12. Apart' /\ OneInstance'
  BY <1>2, <1>4, <1>8, <1>10 DEF IInv, Managers, Apart, OneInstance
<1>13. EndIsWatched'
  BY <1>5, <1>10 DEF IInv, Promises, EndIsWatched
<1>14. NotLost'
  <2>1. \A k : Shared(k)' <=> Shared(k)
    BY <1>2 DEF Shared
  <2>2. evicted' = evicted
    BY <1>2
  <2> QED
    BY <1>4, <1>5, <1>8, <2>1, <2>2 DEF IInv, Promises, NotLost
<1>15. DeathHandled'
  <2>1. env' = env /\ u \in env.stopped
    BY <1>2
  <2> QED
    BY <1>4, <1>5, <1>8, <2>1 DEF IInv, Promises, DeathHandled
<1>16. FoundOK' /\ RacedOK'
  <2>1. devRecLru' = devRecLru /\ evicted' = evicted /\ found' = found /\ raced' = raced
    BY <1>2 DEF cache
  <2>2. FoundOK'
    BY <2>1 DEF IInv, Managers, FoundOK, Cached
  <2>3. \A q \in raced : q \in Recs
    BY DEF IInv, Typed
  <2>4. \A q \in Recs : /\ rec'[q].state = rec[q].state
                        /\ rec[q].again = NoUser => rec'[q].again = NoUser
    BY <1>5
  <2>5. RacedOK'
    BY <1>4, <1>8, <2>1, <2>3, <2>4 DEF IInv, Managers, RacedOK
  <2> QED
    BY <2>2, <2>5
<1> QED
  BY <1>4, <1>6, <1>9, <1>11, <1>12, <1>13, <1>14, <1>15, <1>16 DEF IInv, Managers, Promises

\* Starting the manager of a user keeps it.
LEMMA StartUserKeeps ==
    ASSUME IInv, NEW u \in Users, StartUser(u)
    PROVE  IInv'
<1>1. /\ running' = running \cup {u}
      /\ UNCHANGED <<env, serviceMap, terminating, evicted, found, rec, raced, cache>>
  BY DEF StartUser
<1>2. P!IInv' /\ \A q \in Recs : Cached(q)' <=> Cached(q)
  BY <1>1, CacheStays
<1>3. Typed'
  BY <1>1 DEF IInv, Typed
<1>4. \A q \in Recs : InMap(Owner(q), q)' <=> InMap(Owner(q), q)
  BY <1>1 DEF InMap
<1>5. Managers'
  <2>1. MapOwn' /\ StatesOK' /\ Apart' /\ OneInstance' /\ SlotFree' /\ Served'
    BY <1>1, <1>2, <1>4
       DEF IInv, Managers, MapOwn, StatesOK, Apart, OneInstance, SlotFree, Served
  <2>2. FoundOK' /\ RacedOK'
    BY <1>1, <1>4 DEF IInv, Managers, FoundOK, RacedOK, Cached, InMap, cache
  <2> QED
    BY <2>1, <2>2 DEF Managers
<1>6. Promises'
  BY <1>1, <1>2, <1>4 DEF IInv, Promises, EndIsWatched, NotLost, DeathHandled, Shared
<1> QED
  BY <1>2, <1>3, <1>5, <1>6 DEF IInv
-------------------------------------------------------------------------------
\* The inductive invariant holds at the start.
LEMMA InitOK == Init => IInv
<1> SUFFICES ASSUME Init
             PROVE  IInv
  OBVIOUS
<1>1. P!Init
  BY DEF Init, C!Init, P!Init
<1>2. P!IInv /\ \A q \in Recs : ~Cached(q)
  BY <1>1, P!InitIInv, CacheAssumptions DEF P!Init, Cached, C!Range
<1>3. NoRec \notin Recs /\ \A q \in Recs : Owner(q) \in Users /\ Key(q) \in Keys
  BY CacheNames, ServiceAssumption
<1>4. Fresh \in RecordType
  BY DEF Fresh, RecordType
<1>5. /\ env \in Environments /\ running = Users
      /\ \A m \in Users, k \in Keys : serviceMap[m][k] = NoRec
      /\ raced = {}
      /\ \A m \in Users : terminating[m] = {} /\ evicted[m] = NoRec /\ found[m] = NoRec
      /\ \A r \in Recs : /\ rec[r].link = "none" /\ rec[r].proc = "none" /\ rec[r].state = "INITIAL"
                         /\ rec[r].timer = NoUser /\ rec[r].again = NoUser
                         /\ rec[r].tasks = {}
  BY DEF Init, Fresh
<1>6. Typed
  BY <1>4 DEF Init, Typed
<1>7. \A q \in Recs : ~InMap(Owner(q), q)
  BY <1>3, <1>5 DEF InMap
<1>8. Managers
  BY <1>2, <1>3, <1>5, <1>7
     DEF Managers, MapOwn, StatesOK, Apart, FoundOK, RacedOK, OneInstance, SlotFree, Served
<1>9. Promises
  BY <1>5 DEF Promises, EndIsWatched, NotLost, DeathHandled
<1> QED
  BY <1>2, <1>6, <1>8, <1>9 DEF IInv

\* Every step keeps it.
LEMMA NextOK == IInv /\ [Next]_vars => IInv'
<1> SUFFICES ASSUME IInv, [Next]_vars
             PROVE  IInv'
  OBVIOUS
<1>1. CASE UNCHANGED vars
  <2>1. P!IInv' /\ \A q \in Recs : Cached(q)' <=> Cached(q)
    BY <1>1, CacheStays DEF vars
  <2>2. UNCHANGED <<env, running, serviceMap, terminating, evicted, found, rec, raced>>
    BY <1>1 DEF vars
  <2>3. \A q \in Recs : InMap(Owner(q), q)' <=> InMap(Owner(q), q)
    BY <2>2 DEF InMap
  <2>4. Typed'
    BY <2>2 DEF IInv, Typed
  <2>5. Managers'
    <3>1. MapOwn' /\ StatesOK' /\ Apart' /\ OneInstance' /\ SlotFree' /\ Served'
      BY <2>1, <2>2, <2>3
         DEF IInv, Managers, MapOwn, StatesOK, Apart, OneInstance, SlotFree, Served
    <3>2. FoundOK' /\ RacedOK'
      BY <1>1 DEF IInv, Managers, FoundOK, RacedOK, Cached, InMap, vars, cache
    <3> QED
      BY <3>1, <3>2 DEF Managers
  <2>6. Promises'
    BY <2>1, <2>2, <2>3 DEF IInv, Promises, EndIsWatched, NotLost, DeathHandled, Shared
  <2> QED
    BY <2>1, <2>4, <2>5, <2>6 DEF IInv
<1>2. env.recs \subseteq Recs
  BY ServiceAssumption DEF IInv, Typed
<1>3. CASE Client
  BY <1>3, ConnectAbilityLockedKeeps, StopServiceAbilityLockedKeeps DEF Client
<1>4. ASSUME NEW r \in Recs, ScheduleConnectAbilityDone(r) \/ DisconnectAbilityLocked(r)
      PROVE  IInv'
  BY <1>4, LinkKeeps DEF ScheduleConnectAbilityDone, DisconnectAbilityLocked
<1>5. CASE Service
  BY <1>2, <1>4, <1>5, ScheduleDisconnectAbilityDoneKeeps, TerminateAbilityKeeps,
     DispatchTerminateKeeps, ServiceDiesKeeps DEF Service
<1>6. CASE Timer
  BY <1>2, <1>6, HandleConnectTimeoutTaskKeeps, HandleStopTimeoutTaskKeeps, OnAbilityDiedKeeps,
     HandleAbilityDiedTaskKeeps DEF Timer
<1>7. CASE \E u \in Users : \/ ProcessEliminateAbilityRecord(u) \/ TerminateFound(u)
                            \/ StopUser(u) \/ StartUser(u)
  BY <1>7, ProcessEliminateAbilityRecordKeeps, TerminateFoundKeeps, StopUserKeeps, StartUserKeeps
<1> QED
  BY <1>1, <1>3, <1>5, <1>6, <1>7 DEF Next

\* The inductive invariant says of the places one by one what KnownOnce says of
\* their number.
LEMMA OnePlace ==
    ASSUME IInv, NEW r \in Recs, r \notin raced
    PROVE  Cardinality(Places(r)) <= 1
<1>1. \A m \in Users : InMap(m, r) => m = Owner(r)
  BY CacheNames, ServiceAssumption DEF InMap, IInv, Managers, MapOwn
<1>2. \A p, q \in Places(r) : p = q
  <2>1. \A m \in Users : InMap(m, r) => rec[r].state = "ACTIVE" /\ ~Cached(r)
    BY <1>1 DEF IInv, Managers, StatesOK, Apart
  <2>2. \A m, n \in Users : ~(InMap(m, r) /\ evicted[n] = r)
    BY <1>1 DEF IInv, Managers, Apart
  <2>3. Cached(r) => rec[r].state = "ACTIVE" /\ \A m \in Users : evicted[m] # r
    BY DEF IInv, Managers, StatesOK, Apart
  <2>4. \A m, n \in Users : /\ evicted[m] = r /\ evicted[n] = r => m = n
                            /\ r \in terminating[m] /\ r \in terminating[n] => m = n
                            /\ ~(evicted[m] = r /\ r \in terminating[n])
    BY DEF IInv, Managers, StatesOK, Apart
  <2>5. \A m \in Users : r \in terminating[m] => rec[r].state = "TERMINATING"
    BY DEF IInv, Managers, StatesOK
  <2> QED
    BY <1>1, <2>1, <2>2, <2>3, <2>4, <2>5 DEF Places
<1>3. CASE Places(r) = {}
  BY <1>3, FS_EmptySet
<1>4. CASE Places(r) # {}
  <2>1. PICK p : Places(r) = {p}
    BY <1>2, <1>4
  <2>2. Cardinality({p}) = 1
    BY FS_Singleton
  <2>3. Cardinality(Places(r)) = 1
    BY <2>1, <2>2
  <2> QED
    BY <2>3
<1> QED
  BY <1>3, <1>4

\* It holds in every reachable state.
LEMMA AlwaysIInv == Spec => []IInv
BY InitOK, NextOK, PTL DEF Spec

\* A record is in one place and a user has one record of a service, although the
\* managers of all users move records through the one cache, for any users,
\* services and limits of the cache.  A record that another manager eliminates
\* while its own is ending it may end in both, but no client is connected to it.
THEOREM OnePlaceEach == Spec => []Consistent
<1>1. IInv => Consistent
  <2> SUFFICES ASSUME IInv
               PROVE  Consistent
    OBVIOUS
  <2>1. C!TypeOK
    BY DEF IInv, P!IInv, P!TypeOK, C!TypeOK
  <2>2. TypeOK
    BY <2>1 DEF IInv, Typed, TypeOK, RecordType
  <2>3. \A r \in raced : ~Usable(r)
    <3> SUFFICES ASSUME NEW r \in raced
                 PROVE  ~Cached(r) /\ \A m \in Users : ~InMap(m, r)
      BY DEF Usable
    <3>1. r \in Recs /\ ~Cached(r) /\ ~InMap(Owner(r), r)
      BY DEF IInv, Typed, Managers, RacedOK
    <3>2. \A m \in Users : InMap(m, r) => m = Owner(r)
      BY <3>1, CacheNames, ServiceAssumption DEF InMap, IInv, Managers, MapOwn
    <3> QED
      BY <3>1, <3>2
  <2>4. KnownOnce
    BY <2>3, OnePlace DEF KnownOnce
  <2> QED
    BY <2>2, <2>4 DEF Consistent, IInv, Managers
<1> QED
  BY <1>1, AlwaysIInv, PTL

\* A service that runs is held by a manager or the cache until it was told to end,
\* and watched from then on, also when a manager of another user eliminates it.
THEOREM NothingLost == Spec => []NoLostRecord
<1>1. IInv => NoLostRecord
  <2> SUFFICES ASSUME IInv
               PROVE  NoLostRecord
    OBVIOUS
  <2>1. \A r \in Recs : InMap(Owner(r), r) \/ Cached(r) \/ (\E m \in Users : evicted[m] = r)
                           => Places(r) # {}
    <3> SUFFICES ASSUME NEW r \in Recs,
                        InMap(Owner(r), r) \/ Cached(r) \/ (\E m \in Users : evicted[m] = r)
                 PROVE  Places(r) # {}
      OBVIOUS
    <3>1. CASE InMap(Owner(r), r)
      <4>1. Owner(r) \in Users
        BY CacheNames
      <4>2. <<"map", Owner(r)>> \in Places(r)
        BY <3>1, <4>1 DEF Places
      <4> QED
        BY <4>2
    <3>2. CASE Cached(r)
      <4>1. <<"cache", NoUser>> \in Places(r)
        BY <3>2 DEF Places
      <4> QED
        BY <4>1
    <3>3. CASE \E m \in Users : evicted[m] = r
      <4>1. PICK m \in Users : evicted[m] = r
        BY <3>3
      <4>2. <<"evicted", m>> \in Places(r)
        BY <4>1 DEF Places
      <4> QED
        BY <4>2
    <3> QED
      BY <3>1, <3>2, <3>3
  <2> QED
    BY <2>1 DEF NoLostRecord, IInv, Promises, NotLost
<1> QED
  BY <1>1, AlwaysIInv, PTL

\* Once its death was handled a service is neither in service nor in the cache, if
\* its user is not stopped.
THEOREM DeadNotServed == Spec => []DeathHandled
<1>1. IInv => DeathHandled
  BY DEF IInv, Promises
<1> QED
  BY <1>1, AlwaysIInv, PTL
===============================================================================
