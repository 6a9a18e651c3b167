-------------------------- MODULE MCConnectionState ---------------------------
(* The processes and connections ConnectionState is checked with.          *)
EXTENDS ConnectionState

\* One process has two connections to a service and one, which may be suspended,
\* to another; a second process has two to that one, which may be suspended too.
Owners == [x \in Conns \cup Callers |-> CASE x \in {"c4", "c5", "c6", "k4"} -> "p2"
                                          [] x = "k3"                 -> "p3"
                                          [] OTHER                    -> "p1"]
Hosts == [c \in Conns |-> IF c \in {"c1", "c2", "c6"} THEN "s1" ELSE "s2"]

\* Connections alone; a process with connections and a data ability; two clients of a
\* process; and a client of each of two, one of which is native.
Present == {{"c1", "c2", "c3", "c4", "c5"}, {"c1", "c6", "k1"}, {"k1", "k2", "c6"}, {"k3", "k4", "c6"}}
===============================================================================
