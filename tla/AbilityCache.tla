----------------------------- MODULE AbilityCache -----------------------------
(***************************************************************************)
(* AbilityCacheManager (services/abilitymgr/src/ability_cache_manager.cpp):*)
(* the LRU cache in which AbilityConnectManager keeps the extension        *)
(* records that lost their last connection.  The code keeps every cached   *)
(* record in two lists (devRecLru_, and the recList of the record's        *)
(* application in procLruMap_) and counts each list in a uint32_t of its   *)
(* own; every operation runs under mutex_ and so is one action here.       *)
(***************************************************************************)
EXTENDS Naturals, Sequences, FiniteSets, Functions

CONSTANTS Recs,          \* extension records, told apart by GetRecordId()
          Tokens,        \* accessTokenId values
          Names,         \* (moduleName, abilityName) pairs
          TokenOf,       \* the application a record belongs to
          NameOf,        \* the extension a record is an instance of
          DevCapacity,   \* devLruCapacity_
          ProcCapacity,  \* procLruCapacity_
          NoRec          \* nullptr

ASSUME RecAssumption == /\ TokenOf \in [Recs -> Tokens]
                        /\ NameOf \in [Recs -> Names]
                        /\ NoRec \notin Recs

\* The system parameters that Init reads default to positive limits; with a
\* limit of zero the code does not bound the cache at all.
ASSUME CapacityAssumption == /\ DevCapacity \in Nat \ {0}
                             /\ ProcCapacity \in Nat \ {0}

VARIABLES devRecLru,     \* devRecLru_, the oldest record first
          devLruCnt,     \* devLruCnt_
          procKeys,      \* the keys of procLruMap_
          recList, cnt,  \* the ProcRecordsInfo of each key
          returned       \* what the last Put, Get or Remove returned

vars == <<devRecLru, devLruCnt, procKeys, recList, cnt, returned>>

RemoveAt(s, i) == [j \in 1..(Len(s) - 1) |-> IF j < i THEN s[j] ELSE s[j + 1]]

\* list::erase of the first entry that is r; a list without r stays as it is.
Erase(s, r) ==
    IF r \in Range(s)
       THEN RemoveAt(s, CHOOSE i \in DOMAIN s : s[i] = r /\ \A j \in 1..(i - 1) : s[j] # r)
       ELSE s
-------------------------------------------------------------------------------
Init == /\ devRecLru = <<>>
        /\ devLruCnt = 0
        /\ procKeys = {}
        /\ recList = [t \in Tokens |-> <<>>]
        /\ cnt = [t \in Tokens |-> 0]
        /\ returned = NoRec

RemoveAbilityRecInDevList(r) ==
    /\ devRecLru' = Erase(devRecLru, r)
    /\ devLruCnt' = IF r \in Range(devRecLru) THEN devLruCnt - 1 ELSE devLruCnt

\* Mutant: the application's counter is not lowered with its list.
RemoveAbilityRecInProcList_Uncounted(r) ==
    LET t == TokenOf[r]
    IN  /\ recList' = [recList EXCEPT ![t] = Erase(@, r)]
        /\ UNCHANGED <<cnt, procKeys>>

\* The application's entry goes with its last record.
RemoveAbilityRecInProcList(r) ==
    LET t     == TokenOf[r]
        found == t \in procKeys /\ r \in Range(recList[t])
        last  == found /\ cnt[t] = 1
    IN  /\ recList' = [recList EXCEPT ![t] = IF found THEN Erase(@, r) ELSE @]
        /\ cnt' = [cnt EXCEPT ![t] = IF found THEN @ - 1 ELSE @]
        /\ procKeys' = IF last THEN procKeys \ {t} ELSE procKeys

Full(t) == t \in procKeys /\ cnt[t] = ProcCapacity

\* Mutant: the record eliminated for its application stays in the device list.
PutProcFull_KeepsInDevice(r) ==
    LET t   == TokenOf[r]
        out == Head(recList[t])
    IN  /\ Full(t)
        /\ recList' = [recList EXCEPT ![t] = Append(Tail(@), r)]
        /\ devRecLru' = Append(devRecLru, r)
        /\ devLruCnt' = devLruCnt + 1
        /\ returned' = out
        /\ UNCHANGED <<procKeys, cnt>>

\* AddToProcLru finds the application at its limit and takes its oldest record
\* out of both lists (its count stays: one out, one in); AddToDevLru, handed a
\* record, only appends.
PutProcFull(r) ==
    LET t   == TokenOf[r]
        out == Head(recList[t])
        dev == Erase(devRecLru, out)
    IN  /\ Full(t)
        /\ recList' = [recList EXCEPT ![t] = Append(Tail(@), r)]
        /\ devRecLru' = Append(dev, r)
        /\ devLruCnt' = (IF out \in Range(devRecLru) THEN devLruCnt - 1 ELSE devLruCnt) + 1
        /\ returned' = out
        /\ UNCHANGED <<procKeys, cnt>>

\* AddToProcLru without an elimination: a new entry starts as {[r], 1}.
AddedToProc(r) ==
    LET t == TokenOf[r]
    IN  [list |-> [recList EXCEPT ![t] = IF t \in procKeys THEN Append(@, r) ELSE <<r>>],
         cnt  |-> [cnt EXCEPT ![t] = IF t \in procKeys THEN @ + 1 ELSE 1],
         keys |-> procKeys \cup {t}]

DevFull == devLruCnt = DevCapacity /\ devLruCnt > 0

\* Mutant: AddToDevLru tests the limit one record too late.
PutFits_OneTooMany(r) ==
    /\ ~ Full(TokenOf[r])
    /\ recList' = AddedToProc(r).list
    /\ cnt' = AddedToProc(r).cnt
    /\ procKeys' = AddedToProc(r).keys
    /\ devRecLru' = Append(devRecLru, r)
    /\ devLruCnt' = devLruCnt + 1
    /\ returned' = NoRec

\* Neither limit is reached.
PutFits(r) ==
    /\ ~ Full(TokenOf[r])
    /\ ~ DevFull
    /\ recList' = AddedToProc(r).list
    /\ cnt' = AddedToProc(r).cnt
    /\ procKeys' = AddedToProc(r).keys
    /\ devRecLru' = Append(devRecLru, r)
    /\ devLruCnt' = devLruCnt + 1
    /\ returned' = NoRec

\* Mutant: the youngest record of the device is eliminated.
PutDevFull_Youngest(r) ==
    LET out == devRecLru[Len(devRecLru)]
        u   == TokenOf[out]
        add == AddedToProc(r)
    IN  /\ ~ Full(TokenOf[r])
        /\ DevFull
        /\ recList' = [add.list EXCEPT ![u] = Erase(@, out)]
        /\ cnt' = [add.cnt EXCEPT ![u] = @ - 1]
        /\ procKeys' = IF add.cnt[u] = 1 THEN add.keys \ {u} ELSE add.keys
        /\ devRecLru' = Append(SubSeq(devRecLru, 1, Len(devRecLru) - 1), r)
        /\ devLruCnt' = devLruCnt
        /\ returned' = out

\* The device is at its limit: AddToDevLru eliminates its oldest record, from
\* the application list r has just joined if that is the one.
PutDevFull(r) ==
    LET out   == Head(devRecLru)
        u     == TokenOf[out]
        add   == AddedToProc(r)
        found == u \in add.keys /\ out \in Range(add.list[u])
    IN  /\ ~ Full(TokenOf[r])
        /\ DevFull
        /\ recList' = [add.list EXCEPT ![u] = IF found THEN Erase(@, out) ELSE @]
        /\ cnt' = [add.cnt EXCEPT ![u] = IF found THEN @ - 1 ELSE @]
        /\ procKeys' = IF found /\ add.cnt[u] = 1 THEN add.keys \ {u} ELSE add.keys
        /\ devRecLru' = Append(Tail(devRecLru), r)
        /\ devLruCnt' = devLruCnt - 1 + 1
        /\ returned' = out

\* AbilityConnectManager puts a record it has just taken out of serviceMap_,
\* so never one that is cached already.
Put(r) == /\ r \notin Range(devRecLru)
          /\ PutProcFull(r) \/ PutFits(r) \/ PutDevFull(r)

Remove(r) == /\ RemoveAbilityRecInProcList(r)
             /\ RemoveAbilityRecInDevList(r)
             /\ returned' = NoRec

\* The first record of the application that IsRecInfoSame accepts.
Matches(t, n) ==
    {r \in Recs : \E i \in DOMAIN recList[t] : /\ recList[t][i] = r
                                               /\ NameOf[r] = n
                                               /\ \A j \in 1..(i - 1) : NameOf[recList[t][j]] # n}

\* Unlike RemoveAbilityRecInProcList, GetAbilityRecInProcList leaves an entry
\* with an empty list behind.
Get(t, n) ==
    /\ t \in procKeys
    /\ \E r \in Matches(t, n) :
          /\ recList' = [recList EXCEPT ![t] = Erase(@, r)]
          /\ cnt' = [cnt EXCEPT ![t] = @ - 1]
          /\ RemoveAbilityRecInDevList(r)
          /\ returned' = r
    /\ UNCHANGED procKeys

GetNothing(t, n) ==
    /\ t \notin procKeys \/ Matches(t, n) = {}
    /\ returned' = NoRec
    /\ UNCHANGED <<devRecLru, devLruCnt, procKeys, recList, cnt>>

Next == \/ \E r \in Recs : Put(r) \/ Remove(r)
        \/ \E t \in Tokens, n \in Names : Get(t, n) \/ GetNothing(t, n)

Spec == Init /\ [][Next]_vars
-------------------------------------------------------------------------------
\* The types of the two lists, the two kinds of counters and the return value.
TypeOK == /\ devRecLru \in Seq(Recs)
          /\ devLruCnt \in Nat
          /\ procKeys \subseteq Tokens
          /\ recList \in [Tokens -> Seq(Recs)]
          /\ cnt \in [Tokens -> Nat]
          /\ returned \in Recs \cup {NoRec}

NoDuplicates(s) == \A i, j \in DOMAIN s : s[i] = s[j] => i = j

\* The device list and the application lists hold the same records, each once:
\* an elimination on either limit, a Get and a Remove take the record out of
\* both (otherwise a record that was terminated could be handed out again).
ListsAgree ==
    /\ NoDuplicates(devRecLru)
    /\ \A t \in Tokens : /\ NoDuplicates(recList[t])
                         /\ Range(recList[t]) = {r \in Range(devRecLru) : TokenOf[r] = t}

\* The uint32_t counters are the lengths of their lists, so neither can wrap
\* below zero nor let a limit be missed; an application without an entry has
\* no list.
CountsExact ==
    /\ devLruCnt = Len(devRecLru)
    /\ \A t \in Tokens : cnt[t] = Len(recList[t])
    /\ \A t \in Tokens \ procKeys : recList[t] = <<>>

\* Both limits hold after every operation, although each is tested with ==
\* and only on the paths that add a record.
WithinCapacity == /\ Len(devRecLru) <= DevCapacity
                  /\ \A t \in Tokens : Len(recList[t]) <= ProcCapacity

\* The two lists with their counters behave as the one list of AbilityLru:
\* every Put gives back the oldest record of the limit that is reached, every
\* Get the oldest record that matches.
Lru == INSTANCE AbilityLru WITH lru <- devRecLru, given <- returned
ImplementsLru == Lru!Spec
===============================================================================
