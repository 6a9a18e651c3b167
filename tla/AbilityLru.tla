------------------------------ MODULE AbilityLru ------------------------------
(***************************************************************************)
(* What the cache of extension records promises to AbilityConnectManager,  *)
(* stated on one list of records in the order they were put: a record that *)
(* is put comes in at the young end; the application of the record is held *)
(* to procCapacity records and the device to devCapacity, by giving back   *)
(* the OLDEST record of whichever of the two is full (the application      *)
(* first), and no other record; a request gets the oldest record that      *)
(* matches it.  AbilityCache.tla is the code: two lists and two counters.  *)
(***************************************************************************)
EXTENDS Naturals, Sequences, FiniteSets

CONSTANTS Recs,          \* extension records (record ids)
          Tokens,        \* access token ids of applications
          Names,         \* module name and ability name of an extension
          TokenOf, NameOf, \* the application and the name of each record
          DevCapacity, ProcCapacity,
          NoRec          \* nullptr

VARIABLES lru,           \* cached records, the oldest first
          given          \* the record the last operation gave back

vars == <<lru, given>>

Cached == {lru[i] : i \in DOMAIN lru}
OfToken(t) == {r \in Cached : TokenOf[r] = t}

\* r is the oldest cached record that is in S.
IsOldest(r, S) ==
    \E i \in DOMAIN lru : /\ lru[i] = r
                          /\ r \in S
                          /\ \A j \in 1..(i - 1) : lru[j] \notin S

\* The list without r: the records behind it move up by one.
Without(r) ==
    IF r \in Cached
       THEN [i \in 1..(Len(lru) - 1) |-> IF \E j \in 1..i : lru[j] = r THEN lru[i + 1] ELSE lru[i]]
       ELSE lru

Init == lru = <<>> /\ given = NoRec

\* A put that fits both limits.
PutFits(r) ==
    /\ r \notin Cached
    /\ Cardinality(OfToken(TokenOf[r])) # ProcCapacity
    /\ Len(lru) # DevCapacity
    /\ lru' = Append(lru, r)
    /\ given' = NoRec

\* A put that does not, and the record that has to go for it.
PutEliminates(r, out) ==
    /\ r \notin Cached
    /\ IF Cardinality(OfToken(TokenOf[r])) = ProcCapacity
          THEN IsOldest(out, OfToken(TokenOf[r]))
          ELSE Len(lru) = DevCapacity /\ IsOldest(out, Cached)
    /\ lru' = Append(Without(out), r)
    /\ given' = out

Remove(r) == lru' = Without(r) /\ given' = NoRec

Get(t, n, r) ==
    /\ IsOldest(r, {x \in OfToken(t) : NameOf[x] = n})
    /\ lru' = Without(r)
    /\ given' = r

GetNothing(t, n) ==
    /\ \A r \in OfToken(t) : NameOf[r] # n
    /\ given' = NoRec
    /\ UNCHANGED lru

Next == \/ \E r \in Recs : PutFits(r) \/ Remove(r)
        \/ \E r, out \in Recs : PutEliminates(r, out)
        \/ \E t \in Tokens, n \in Names : GetNothing(t, n) \/ \E r \in Recs : Get(t, n, r)

Spec == Init /\ [][Next]_vars
===============================================================================
