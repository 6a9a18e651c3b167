--------------------------- MODULE MCResidentProcess ---------------------------
(* Two resident bundles, each of a user of its own: one is held back by every *)
(* shortage and by web upgrades, the other by none.                           *)
EXTENDS ResidentProcess

MCUserOf == [a \in Apps |-> IF a = "own" THEN 100 ELSE 101]
MCBundleOf == [a \in Apps |-> a]

Env(faults, e, l, b, w, s) ==
    [faults |-> faults, left |-> [exits |-> e, low |-> l, big |-> b, web |-> w, switch |-> s]]

\* Exits in shortages of both kinds; web upgrades, with a shortage and with a
\* switch of users; a shortage and a switch; a process that is early; all the faults.
MCEnvironments == {Env({}, 1, 1, 1, 0, 0), Env({}, 2, 1, 0, 0, 0),
                   Env({}, 1, 1, 0, 1, 0), Env({}, 1, 0, 0, 1, 1), Env({}, 1, 1, 0, 0, 1),
                   Env({"early"}, 2, 0, 0, 0, 0), Env({"spawn", "stillborn", "switch"}, 1, 1, 0, 0, 1)}
================================================================================
