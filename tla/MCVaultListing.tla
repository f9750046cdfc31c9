----------------------------- MODULE MCVaultListing -----------------------------
(* Instances of VaultListing for TLC. *)
EXTENDS VaultListing

CONSTANTS a1, a2, a3, a4, m1, m2

TwoMounts == <<m1, m2>>
MountsOfAccounts == [a \in Accounts |-> IF a \in {a1, a2} THEN m1 ELSE m2]

\* The vault begins with three accounts; one more may arrive, one may come back elsewhere.
ThreeAccounts == {<<a1, a2, a3>>}
EveryLoop == {"whole", "page", "offset", "cursor", "cyberark", "delinea", "resources", "walk"}
==============================================================================
