--------------------------- MODULE PolicyResolution ---------------------------
(***************************************************************************)
(* Which ApprovalPolicy governs a request (access/workflow.py,             *)
(* resolve_policy) and how the choice is ranked (access/models.py,         *)
(* ApprovalPolicy.specificity).                                            *)
(*                                                                         *)
(* Policies are a sequence: the rows in the order the queryset returns     *)
(* them (Meta.ordering, by name).  That order matters, because the sort is *)
(* stable and the first of the equally ranked rows is the one that rules.  *)
(***************************************************************************)
EXTENDS Integers, Sequences, FiniteSets

CONSTANTS
  Blank,           \* a scope column of a policy left blank
  Policies         \* the ApprovalPolicy rows, in queryset order

\* A sequence of rows whose two ranking columns hold naturals.
Table(policies) ==
  /\ Len(policies) \in Nat
  /\ policies = [i \in 1..Len(policies) |-> policies[i]]
  /\ \A i \in 1..Len(policies) :
       policies[i].approvalsRequired \in Nat /\ policies[i].maximumDays \in Nat

ASSUME PoliciesAssumption == Table(Policies)

\* CRITICALITY_ORDER; a blank minimum compares as the lowest.
CriticalityOrder == [low |-> 0, moderate |-> 1, high |-> 2, critical |-> 3]

(***************************************************************************)
(* The columns resolution reads.  A row may carry more (the gates that     *)
(* submit and check_segregation apply), which resolution never looks at.   *)
(***************************************************************************)
Applies(policy, resource, principal, level) ==
  /\ policy.enabled
  /\ policy.resource \in {Blank, resource.id}
  /\ policy.platform \in {Blank, resource.platform}
  /\ policy.productionOnly => resource.production
  /\ policy.minimumCriticality # Blank =>
       CriticalityOrder[resource.criticality] >= CriticalityOrder[policy.minimumCriticality]
  /\ policy.levels # {} => level \in policy.levels
  /\ policy.types # {} => principal.type \in policy.types

Specificity(policy) ==
  (IF policy.resource # Blank THEN 8 ELSE 0) + (IF policy.platform # Blank THEN 4 ELSE 0)
    + (IF policy.levels # {} THEN 2 ELSE 0) + (IF policy.types # {} THEN 1 ELSE 0)

\* The sort key, reversed: (specificity, approvals_required, -maximum_duration_days).
Outranks(p, q) ==
  \/ Specificity(p) > Specificity(q)
  \/ /\ Specificity(p) = Specificity(q)
     /\ \/ p.approvalsRequired > q.approvalsRequired
        \/ /\ p.approvalsRequired = q.approvalsRequired
           /\ p.maximumDays < q.maximumDays

Candidates(policies, resource, principal, level) ==
  {i \in DOMAIN policies : Applies(policies[i], resource, principal, level)}

(***************************************************************************)
(* The position of the policy that rules, 0 when none applies: nothing     *)
(* outranks it, and of the equally ranked it is the first row.             *)
(***************************************************************************)
ResolveIn(policies, resource, principal, level) ==
  LET C == Candidates(policies, resource, principal, level)
      Best == {i \in C : \A j \in C : ~Outranks(policies[j], policies[i])}
  IN IF C = {} THEN 0 ELSE CHOOSE i \in Best : \A j \in Best : i <= j

ResolvePolicy(resource, principal, level) == ResolveIn(Policies, resource, principal, level)
==============================================================================
