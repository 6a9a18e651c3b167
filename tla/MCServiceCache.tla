---------------------------- MODULE MCServiceCache ----------------------------
(* The services and applications of the run of ServiceCache.               *)
EXTENDS ServiceCache

CONSTANTS u1, u2, kA, kB, kC

\* kA and kB belong to one application, kC to another.
TwoApps == [k \in Keys |-> IF k = kC THEN kC ELSE kA]

Env(recs, mortal, stopped) == [recs |-> recs, mortal |-> mortal, stopped |-> stopped]

\* Two services of one application and user, one of them created twice; a
\* service that two users have and one of another application, which does not
\* die; a service of each of two users, one of whom is stopped.
MCEnvironments ==
    LET OneUser == {<<u1, kA, 1>>, <<u1, kB, 1>>, <<u1, kB, 2>>}
        SameKey == {<<u1, kA, 1>>, <<u2, kA, 1>>}
        ForTwo  == {<<u1, kA, 1>>, <<u2, kC, 1>>}
    IN  {Env(OneUser, OneUser, {}), Env(SameKey \cup {<<u1, kC, 1>>}, SameKey, {}),
         Env(ForTwo, ForTwo, {u2})}
===============================================================================
