---------------------------- MODULE MCDataAbility -----------------------------
(* Instances of DataAbility for TLC.                                       *)
EXTENDS DataAbility, TLC

CONSTANTS th1, th2, rec1, rec2, rec3, hap1, native1

Env(a, k, m, l, c) == [asks |-> a, keepAlive |-> k, most |-> m, loads |-> l, crashes |-> c]

\* A resident ability that is restarted; one with a native client that may die; a
\* client with two references, and one that is killed with its provider; a provider
\* that is a client of another; loads of one name that overlap.
Every == {Env({<<"n", NoClient>>}, {"n"}, 1, 2, 1),
          Env({<<"n", NoClient>>, <<"n", native1>>}, {"n"}, 1, 1, 1),
          Env({<<"n", NoClient>>, <<"n", hap1>>}, {}, 2, 2, 0),
          Env({<<"n", NoClient>>, <<"n", hap1>>}, {}, 2, 1, 1),
          Env({<<"n", NoClient>>, <<"m", rec1>>}, {}, 1, 2, 2),
          Env({<<"n", NoClient>>}, {}, 1, 3, 0)}
===============================================================================
