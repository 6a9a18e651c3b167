-------------------------- MODULE MCAbilityConnect --------------------------
(***************************************************************************)
(* Instances of AbilityConnect for TLC: one or two services, one or two    *)
(* clients, each a process of its own.                                     *)
(***************************************************************************)
EXTENDS AbilityConnect, TLC

CONSTANTS k1, k2, cbA, cbB

OneEach == [cb \in Callbacks |-> cb]

\* Callbacks are told apart by nothing; connections are numbered.
Symmetry == Permutations(Callbacks)
=============================================================================
