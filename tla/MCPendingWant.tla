---------------------------- MODULE MCPendingWant -----------------------------
(* Instances of PendingWant for TLC: one key for a given user and one that *)
(* leaves the user open.                                                   *)
EXTENDS PendingWant, TLC

CONSTANTS th1, th2, th3, rec1, rec2, li1, li2, user1, user2

KeyUsers == [k \in Keys |-> IF k = "given" THEN user1 ELSE NoUser]
KeyBundles == [k \in Keys |-> "bundle"]

\* Two users switching and both keys; one key whose record is updated; one with a
\* listener and receivers that call back; and one with two listeners, without triggers.
MCEnvironments ==
    {[keys |-> Keys, listeners |-> {}, pool |-> 2, inputs |-> {"send", "switch"}],
     [keys |-> {"given"}, listeners |-> {}, pool |-> 3, inputs |-> {"send", "update"}],
     [keys |-> {"given"}, listeners |-> {li1}, pool |-> 3, inputs |-> {"send", "inline"}],
     [keys |-> {"given"}, listeners |-> Listeners, pool |-> 2, inputs |-> {}]}

Symmetry == Permutations(Threads)
===============================================================================
