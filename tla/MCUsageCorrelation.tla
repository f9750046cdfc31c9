-------------------------- MODULE MCUsageCorrelation --------------------------
(* Instances of UsageCorrelation for TLC. *)
EXTENDS UsageCorrelation

CONSTANTS l1, l2, l3, e1, e2, c1, c2, router, alice, bob

\* Two vault entries of one name, one mapped by address and one not mapped at all.
SvcBatch == [c \in Accounts |-> "svc_batch"]
OwnTarget == [c \in Accounts |-> IF c = c1 THEN "10.0.0.1" ELSE Blank]

Said(ip, at, actor, brokered) ==
  [name |-> "svc_batch", asset |-> router, address |-> ip, at |-> at, actor |-> actor,
   brokered |-> brokered]
Logons ==
  [l \in Logins |->
     CASE l = l1 -> {Said(Blank, 1, alice, FALSE)}
       [] l = l2 -> {Said(ip, 2, Nobody, FALSE) : ip \in {Blank, "10.0.0.1"}}
       [] l = l3 -> {Said("10.0.0.1", 2, Nobody, brokered) : brokered \in BOOLEAN}]

Took(account, at, actor) == [account |-> account, at |-> at, actor |-> actor]
Checkouts ==
  [e \in Retrievals |->
     IF e = e1 THEN {Took(c1, 0, alice), Took(c1, 1, bob)} ELSE {Took(c1, 2, Nobody)}]
==============================================================================
