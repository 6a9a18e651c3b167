--------------------------- MODULE MCAbilityCache ---------------------------
(* Two applications with three records each, two of the three with the same *)
(* name, a device that holds three records and applications that hold two:  *)
(* both limits are reached, together and apart.                             *)
EXTENDS AbilityCache

MCRecs == 1..6
MCTokens == {"appA", "appB"}
MCNames == {"n1", "n2"}
MCTokenOf == [r \in MCRecs |-> IF r <= 3 THEN "appA" ELSE "appB"]
MCNameOf == [r \in MCRecs |-> IF r \in {1, 2, 4, 5} THEN "n1" ELSE "n2"]
=============================================================================
