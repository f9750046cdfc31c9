--------------------------- MODULE ApprovalLifecycle ---------------------------
(***************************************************************************)
(* What the approval workflow promises, without workers, forms, policies   *)
(* or rows: a request is raised with a number of consents to collect and   *)
(* the people who may not give one; enough consents approve it and one     *)
(* refusal ends it; only what collected them is provisioned.               *)
(*                                                                         *)
(* Two weaknesses of the workflow are switches here.  When nothing         *)
(* overlaps, each person speaks once, while the request is open, and what  *)
(* has ended is not reopened.                                              *)
(***************************************************************************)
EXTENDS Naturals

CONSTANTS
  References, People,
  Overlaps,   \* whether a request may be settled by another while one decides or hands off
  Repeats     \* whether a person's two decisions may be taken together

VARIABLES
  phase,      \* where each request stands
  needed,     \* consents it must collect
  barred,     \* the people who may not decide on it
  spoken,     \* the people who have decided
  consents    \* consents it has collected

vars == <<phase, needed, barred, spoken, consents>>

Init ==
  /\ phase = [r \in References |-> "none"]
  /\ needed = [r \in References |-> 0]
  /\ barred = [r \in References |-> {}]
  /\ spoken = [r \in References |-> {}]
  /\ consents = [r \in References |-> 0]

Raise(r) ==
  /\ phase[r] = "none"
  /\ phase' = [phase EXCEPT ![r] = "pending"]
  /\ \E who \in SUBSET People : barred' = [barred EXCEPT ![r] = who]
  /\ needed'[r] \in Nat /\ needed' = [needed EXCEPT ![r] = needed'[r]]
  /\ UNCHANGED <<spoken, consents>>

Speak(r, p, yes) ==
  /\ phase[r] = "pending" \/ (Overlaps /\ phase[r] # "none")
  /\ p \notin barred[r]
  /\ p \in spoken[r] => Repeats
  /\ spoken' = [spoken EXCEPT ![r] = @ \cup {p}]
  /\ consents' = [consents EXCEPT ![r] = IF yes THEN @ + 1 ELSE @]
  /\ UNCHANGED <<needed, barred>>

\* A consent, or an abstention; either approves when nothing is lacking.
Answer(r, p, yes) ==
  /\ Speak(r, p, yes)
  /\ phase' = [phase EXCEPT ![r] = IF consents'[r] >= needed[r] THEN "approved" ELSE @]

Refuse(r, p) == Speak(r, p, FALSE) /\ phase' = [phase EXCEPT ![r] = "rejected"]

Provision(r) ==
  /\ phase[r] = "approved" \/ (Overlaps /\ phase[r] # "none")
  /\ consents[r] >= needed[r]
  /\ phase' = [phase EXCEPT ![r] = "provisioned"]
  /\ UNCHANGED <<needed, barred, spoken, consents>>

Withdraw(r) ==
  /\ phase[r] # "none"
  /\ phase' = [phase EXCEPT ![r] = "revoked"]
  /\ UNCHANGED <<needed, barred, spoken, consents>>

Lapse(R) ==
  /\ R # {} /\ \A r \in R : phase[r] = "provisioned"
  /\ phase' = [r \in References |-> IF r \in R THEN "expired" ELSE phase[r]]
  /\ UNCHANGED <<needed, barred, spoken, consents>>

Next ==
  \/ \E r \in References :
       \/ Raise(r) \/ Provision(r) \/ Withdraw(r)
       \/ \E p \in People : Refuse(r, p) \/ \E yes \in BOOLEAN : Answer(r, p, yes)
  \/ \E R \in SUBSET References : Lapse(R)

Spec == Init /\ [][Next]_vars
==============================================================================
