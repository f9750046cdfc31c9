---------------------------- MODULE MCInventoryDiff ----------------------------
(* Instances of InventoryDiff for TLC. *)
EXTENDS InventoryDiff, TLC

CONSTANTS a1, a2, a3, w1, w2

\* An account in order, and the same one neglected: disabled, its owner gone, rotation switched
\* off after a last one that failed.
Managed == [status |-> "active", owner |-> "o1", rotated |-> "r1", failed |-> FALSE,
            auto |-> "on", verified |-> "yes"]
Neglected == [status |-> "disabled", owner |-> "none", rotated |-> "r2", failed |-> TRUE,
              auto |-> "off", verified |-> "no"]

InOrderOrNot == {Managed, Neglected}

Renamings == Permutations(Accounts) \cup Permutations(Workers)
==============================================================================
