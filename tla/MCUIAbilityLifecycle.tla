------------------------- MODULE MCUIAbilityLifecycle -------------------------
(* The environments UIAbilityLifecycle is checked in. *)
EXTENDS UIAbilityLifecycle

CONSTANTS s1, r1, r2, w1, w2

Env(i, n, c) == [inputs |-> i, requests |-> n, crashes |-> c]

\* Shows and starts; new wants; starts by call; refused attachments; everything
\* else that goes wrong.
MCEnvironments == {Env({"show", "showNew"}, 3, 1), Env({"newWant"}, 3, 0), Env({"byCall", "show"}, 3, 1),
                   Env({"attachFails", "show"}, 3, 1),
                   Env({"freezed", "disown", "attachCrash", "late"}, 3, 1)}

=============================================================================
